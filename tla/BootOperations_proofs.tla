----------------------- MODULE BootOperations_proofs -----------------------
(***************************************************************************)
(* Proofs about BootOperations, for any managers, runs of the CLI and      *)
(* numbers of calls.                                                       *)
(*                                                                         *)
(* A call passes from the queue to the helper's thread to the bus, and is  *)
(* never in two of these places.  As long as a call can still be served,   *)
(* or its program still runs under its client, no later call of the same   *)
(* client has got as far as a program (InOrder): the queue is first in,    *)
(* first out, a fallback is taken only when the helper has nothing, and a  *)
(* manager whose own program runs refuses.  That is what forbids a later   *)
(* call to change the configuration first.                                 *)
(***************************************************************************)
EXTENDS BootOperations, SequenceTheorems, TLAPS

InQueue(call) == \E i \in DOMAIN queue : queue[i] = call

Applied(call) == \E i \in DOMAIN applied : applied[i] = call

\* Two calls of one client, the first asked before the second.
Before(call, later) == call[1] = later[1] /\ call[2] < later[2]

\* A call that is awaited was not reported, and is awaited from one side.
NotReported ==
    /\ operation_process_ \cap helper_operation_running_ = {}
    /\ \A call \in Awaited : told[call] = <<>>

\* Nothing is known of a call that was not asked for.
Untouched ==
    \A call \in Calls : ~Asked(call) =>
        ~InQueue(call) /\ call \notin serving /\ replies[call] = "none"
        /\ program[call] = "none" /\ ~Applied(call)

AskedInOrder == \A call, later \in Calls : Before(call, later) /\ Asked(later) => Asked(call)

\* The places a call can be in.
Apart ==
    /\ \A call \in Calls :
          /\ InQueue(call) => call \notin serving /\ replies[call] = "none"
          /\ call \in serving => replies[call] = "none"
          /\ call \in operation_process_ =>
                ~InQueue(call) /\ call \notin serving /\ replies[call] = "none"
    /\ \A i, j \in DOMAIN queue : queue[i] = queue[j] => i = j

Kept ==
    \A call \in helper_operation_running_ :
        call[1] \notin gone => InQueue(call) \/ call \in serving \/ replies[call] # "none"

\* A program runs for the call being served, under its client, or on its own.
RunsSomewhere ==
    \A call \in Calls :
        program[call] = "running" => call \in serving \cup operation_process_ \cup strays

\* The call can still have a program started for it, or has one of its client's.
Pending(call) == InQueue(call) \/ call \in serving \/ call \in operation_process_

InOrder ==
    /\ \A call, later \in Calls : Before(call, later) /\ Pending(call) =>
          program[later] = "none" /\ ~Applied(later)
          /\ later \notin serving /\ later \notin operation_process_
          /\ (call \in operation_process_ => ~InQueue(later))
    /\ \A i, j \in DOMAIN queue : Before(queue[i], queue[j]) => i < j

IInv ==
    /\ TypeOK /\ NotReported /\ Untouched /\ AskedInOrder
    /\ Apart /\ Kept /\ RunsSomewhere /\ InOrder /\ NotOvertaken

-----------------------------------------------------------------------------

LEMMA CallsTyped ==
    \A call \in Calls : call[1] \in Clients /\ call[2] \in Nat /\ call = <<call[1], call[2]>>
BY BootAssumption DEF Calls

\* What the operators of the model say, in the terms used here.
LEMMA AppliedMeans == \A call : call \in ToSet(applied) <=> Applied(call)
BY DEF ToSet, Applied

LEMMA QueuedMeans == \A call : call \in ToSet(queue) <=> InQueue(call)
BY DEF ToSet, InQueue

LEMMA InitIInv == Init => IInv
<1> SUFFICES ASSUME Init PROVE IInv
  OBVIOUS
<1>1. TypeOK
  BY DEF Init, TypeOK
<1>2. /\ \A call \in Calls : ~Asked(call) /\ ~InQueue(call) /\ ~Applied(call)
      /\ Awaited = {}
  BY DEF Init, Asked, Awaited, InQueue, Applied
<1> QED
  BY <1>1, <1>2 DEF Init, IInv, NotReported, Untouched, AskedInOrder, Apart, Kept,
                    RunsSomewhere, InOrder, Pending, NotOvertaken

-----------------------------------------------------------------------------
(***************************************************************************)
(* A client asks.                                                          *)
(***************************************************************************)

\* What is true of a call that can be asked.
LEMMA CanAskMeans ==
    ASSUME IInv, NEW call \in Calls, CanAsk(call)
    PROVE  /\ ~Asked(call) /\ call \notin Awaited /\ told[call] = <<>>
           /\ ~InQueue(call) /\ call \notin serving /\ replies[call] = "none"
           /\ program[call] = "none" /\ ~Applied(call)
           /\ \A later \in Calls : Before(call, later) => ~Asked(later)
           /\ \A earlier \in Calls : Before(earlier, call) => Asked(earlier)
<1>1. ~Asked(call)
  BY DEF CanAsk
<1>2. \A later \in Calls : Before(call, later) => ~Asked(later)
  BY <1>1 DEF IInv, AskedInOrder
<1>3. ASSUME NEW earlier \in Calls, Before(earlier, call)
      PROVE  Asked(earlier)
  <2>1. earlier[2] \in 1..(call[2] - 1)
    BY <1>3, BootAssumption DEF Before, Calls
  <2>2. Asked(<<call[1], earlier[2]>>)
    BY <2>1 DEF CanAsk
  <2> QED BY <1>3, <2>2, CallsTyped DEF Before
<1> QED BY <1>1, <1>2, <1>3 DEF IInv, Untouched, Asked

\* It is asked for, and nothing of the rest depends on how.
LEMMA AskedNow ==
    ASSUME IInv, NEW call \in Calls, CanAsk(call),
           \A other \in Calls : Asked(other)' <=> Asked(other) \/ other = call
    PROVE  AskedInOrder'
<1> SUFFICES ASSUME NEW first \in Calls, NEW later \in Calls,
                    Before(first, later), Asked(later)'
             PROVE  Asked(first)'
  BY DEF AskedInOrder, Before
<1>1. CASE later = call
  BY <1>1, CanAskMeans
<1>2. CASE later # call
  BY <1>2 DEF IInv, AskedInOrder
<1> QED BY <1>1, <1>2

LEMMA RefuseStep ==
    ASSUME IInv, NEW call \in Calls, CanAsk(call), refuse(call)
    PROVE  IInv'
<1>1. /\ told' = [told EXCEPT ![call] = Append(@, FALSE)]
      /\ UNCHANGED <<operation_process_, helper_operation_running_, gone,
                     queue, serving, replies, program, applied, strays>>
  BY DEF refuse, operationFinished, helper, work
<1>2. told[call] = <<>> /\ call \notin Awaited
  BY CanAskMeans
<1>3. told' = [told EXCEPT ![call] = <<FALSE>>]
  BY <1>1, <1>2 DEF IInv, TypeOK
<1>4. TypeOK'
  BY <1>1, <1>3 DEF IInv, TypeOK
<1>5. \A other \in Calls : Asked(other)' <=> Asked(other) \/ other = call
  <2>1. \A other \in Calls : told'[other] = IF other = call THEN <<FALSE>> ELSE told[other]
    BY <1>3 DEF IInv, TypeOK
  <2>2. <<FALSE>> # <<>>
    OBVIOUS
  <2> QED BY <1>1, <2>1, <2>2 DEF Asked, Awaited
<1>6. NotReported'
  BY <1>1, <1>2, <1>3 DEF IInv, TypeOK, NotReported, Awaited
<1>7. AskedInOrder'
  BY <1>5, AskedNow
<1>8. Untouched'
  BY <1>1, <1>5 DEF IInv, Untouched, InQueue, Applied
<1>9. Apart' /\ Kept' /\ RunsSomewhere' /\ NotOvertaken'
  BY <1>1 DEF IInv, Apart, Kept, RunsSomewhere, NotOvertaken, InQueue
<1>10. InOrder'
  BY <1>1 DEF IInv, InOrder, Pending, InQueue, Applied, Before
<1> QED BY <1>4, <1>6, <1>7, <1>8, <1>9, <1>10 DEF IInv

\* No program of the client's own runs: it is a manager that is not busy, or a run
\* of the CLI, which starts none.
LEMMA HelperStep ==
    ASSUME IInv, NEW call \in Calls, CanAsk(call), callHelperOperation(call),
           \A other \in operation_process_ : other[1] # call[1]
    PROVE  IInv'
<1>1. /\ helper_operation_running_' = helper_operation_running_ \cup {call}
      /\ queue' = Append(queue, call)
      /\ UNCHANGED <<operation_process_, told, gone, serving, replies, program, applied, strays>>
  BY DEF callHelperOperation, work
<1>2. TypeOK
  BY DEF IInv
<1>3. /\ queue \in Seq(Calls)
      /\ queue' \in Seq(Calls)
      /\ Len(queue) \in Nat
      /\ DOMAIN queue = 1..Len(queue)
      /\ DOMAIN queue' = 1..(Len(queue) + 1)
      /\ queue'[Len(queue) + 1] = call
      /\ \A i \in 1..Len(queue) : queue'[i] = queue[i] /\ queue[i] \in Calls
  BY <1>1, <1>2 DEF TypeOK
<1>4. TypeOK'
  BY <1>1, <1>2, <1>3 DEF TypeOK
<1>5. \A other \in Calls : Asked(other)' <=> Asked(other) \/ other = call
  BY <1>1 DEF Asked, Awaited
<1>6. \A other \in Calls : InQueue(other)' <=> InQueue(other) \/ other = call
  BY <1>3 DEF InQueue
<1>7. NotReported'
  BY <1>1, CanAskMeans DEF IInv, NotReported, Awaited
<1>8. AskedInOrder'
  BY <1>5, AskedNow
<1>9. Untouched'
  BY <1>1, <1>5, <1>6 DEF IInv, Untouched, Applied
<1>10. Apart'
  <2>1. \A other \in Calls :
          /\ InQueue(other)' => other \notin serving' /\ replies'[other] = "none"
          /\ other \in serving' => replies'[other] = "none"
          /\ other \in operation_process_' =>
                ~InQueue(other)' /\ other \notin serving' /\ replies'[other] = "none"
    BY <1>1, <1>6, CanAskMeans DEF IInv, Apart
  <2>2. ASSUME NEW i \in DOMAIN queue', NEW j \in DOMAIN queue', queue'[i] = queue'[j]
        PROVE  i = j
    <3>1. \A n \in 1..Len(queue) : queue[n] # call
      BY <1>3, CanAskMeans DEF InQueue
    <3> QED BY <1>3, <2>2, <3>1 DEF IInv, Apart
  <2> QED BY <2>1, <2>2 DEF Apart
<1>11. Kept'
  BY <1>1, <1>2, <1>6 DEF IInv, Kept, TypeOK
<1>12. RunsSomewhere' /\ NotOvertaken'
  BY <1>1 DEF IInv, RunsSomewhere, NotOvertaken
<1>13. InOrder'
  <2>1. \A first, later \in Calls : Before(first, later) /\ Pending(first)' =>
          program'[later] = "none" /\ ~Applied(later)'
          /\ later \notin serving' /\ later \notin operation_process_'
          /\ (first \in operation_process_' => ~InQueue(later)')
    <3> SUFFICES ASSUME NEW first \in Calls, NEW later \in Calls,
                        Before(first, later), Pending(first)'
                 PROVE  /\ program[later] = "none" /\ ~Applied(later)
                        /\ later \notin serving /\ later \notin operation_process_
                        /\ (first \in operation_process_ => ~InQueue(later)')
      BY <1>1 DEF Applied
    <3>1. CASE first = call
      <4>1. ~Asked(later)
        BY <3>1, CanAskMeans
      <4>2. call \notin operation_process_ /\ later \notin operation_process_
        BY <4>1, CanAskMeans DEF Asked, Awaited
      <4> QED BY <3>1, <4>1, <4>2 DEF IInv, Untouched
    <3>2. CASE first # call
      <4>1. Pending(first)
        BY <1>1, <1>6, <3>2 DEF Pending
      <4>2. first \in operation_process_ => later # call
        BY DEF Before
      <4> QED BY <1>6, <4>1, <4>2 DEF IInv, InOrder
    <3> QED BY <3>1, <3>2
  <2>2. ASSUME NEW i \in DOMAIN queue', NEW j \in DOMAIN queue', Before(queue'[i], queue'[j])
        PROVE  i < j
    <3>1. CASE i \in 1..Len(queue) /\ j \in 1..Len(queue)
      BY <1>3, <2>2, <3>1 DEF IInv, InOrder
    <3>2. CASE i = Len(queue) + 1 /\ j \in 1..Len(queue)
      <4>1. queue[j] \in Calls /\ InQueue(queue[j]) /\ Before(call, queue[j])
        BY <1>3, <2>2, <3>2 DEF InQueue
      <4> QED BY <4>1, CanAskMeans DEF IInv, Untouched
    <3>3. CASE i = Len(queue) + 1 /\ j = Len(queue) + 1
      BY <1>3, <2>2, <3>3, CallsTyped DEF Before
    <3> QED BY <1>3, <3>1, <3>2, <3>3
  <2> QED BY <2>1, <2>2 DEF InOrder, Before
<1> QED BY <1>4, <1>7, <1>8, <1>9, <1>10, <1>11, <1>12, <1>13 DEF IInv

LEMMA FallbackStep ==
    ASSUME IInv, NEW call \in Calls, CanAsk(call), call[1] \in Managers,
           HelperAbsent, startFallbackOperation(call),
           \A other \in operation_process_ : other[1] # call[1]
    PROVE  IInv'
<1>1. PICK start \in {"running", "unstarted"} :
        /\ operation_process_' = operation_process_ \cup {call}
        /\ program' = [program EXCEPT ![call] = start]
        /\ UNCHANGED <<helper_operation_running_, told, gone, queue, serving, replies,
                       applied, strays>>
  BY DEF startFallbackOperation, helper
<1>2. TypeOK /\ queue = <<>> /\ serving = {}
  BY DEF IInv, HelperAbsent
<1>3. \A other : ~InQueue(other) /\ ~InQueue(other)'
  BY <1>1, <1>2 DEF InQueue
<1>4. \A other \in Calls : program'[other] = IF other = call THEN start ELSE program[other]
  BY <1>1, <1>2 DEF TypeOK
<1>5. TypeOK'
  <2>1. call \in Managers \X (1..MaxCalls)
    BY DEF Calls
  <2>2. program' \in [Calls -> {"none", "unstarted", "running", "ok", "failed"}]
    BY <1>1, <1>2 DEF TypeOK
  <2> QED BY <1>1, <1>2, <2>1, <2>2 DEF TypeOK
<1>6. \A other \in Calls : Asked(other)' <=> Asked(other) \/ other = call
  BY <1>1 DEF Asked, Awaited
<1>7. NotReported'
  BY <1>1, CanAskMeans DEF IInv, NotReported, Awaited
<1>8. AskedInOrder'
  BY <1>6, AskedNow
<1>9. Untouched'
  BY <1>1, <1>3, <1>4, <1>6 DEF IInv, Untouched, Applied
<1>10. Apart'
  BY <1>1, <1>2, <1>3, CanAskMeans DEF IInv, Apart
<1>11. Kept'
  BY <1>1, <1>3, <1>2 DEF IInv, Kept
<1>12. RunsSomewhere' /\ NotOvertaken'
  BY <1>1, <1>4 DEF IInv, RunsSomewhere, NotOvertaken
<1>13. InOrder'
  <2>1. ASSUME NEW first \in Calls, NEW later \in Calls, Before(first, later), Pending(first)'
        PROVE  /\ program'[later] = "none" /\ ~Applied(later)
               /\ later \notin serving /\ later \notin operation_process_'
    <3>1. CASE first = call
      <4>1. ~Asked(later) /\ later # call
        BY <2>1, <3>1, CanAskMeans
      <4> QED BY <1>1, <1>4, <3>1, <4>1 DEF IInv, Untouched, Asked, Awaited
    <3>2. CASE first # call
      <4>1. Pending(first)
        BY <1>1, <1>3, <2>1, <3>2 DEF Pending
      <4>2. later # call
        BY <1>2, <1>3, <4>1, <2>1 DEF Pending, Before
      <4> QED BY <1>1, <1>4, <2>1, <4>1, <4>2 DEF IInv, InOrder
    <3> QED BY <3>1, <3>2
  <2>2. DOMAIN queue' = {}
    BY <1>1, <1>2
  <2> QED BY <1>1, <1>3, <2>1, <2>2 DEF InOrder, Before, Applied
<1> QED BY <1>5, <1>7, <1>8, <1>9, <1>10, <1>11, <1>12, <1>13 DEF IInv

LEMMA AskStep ==
    ASSUME IInv, NEW call \in Calls, managerAsks(call) \/ commandAsks(call)
    PROVE  IInv'
<1>1. CASE managerAsks(call)
  <2>1. CanAsk(call) /\ call[1] \in Managers
    BY <1>1 DEF managerAsks
  <2>2. CASE refuse(call)
    BY <2>1, <2>2, RefuseStep
  <2>3. ASSUME ~Busy(call[1])
        PROVE  \A other \in operation_process_ : other[1] # call[1]
    BY <2>3 DEF Busy, Awaited
  <2>4. CASE ~Busy(call[1]) /\ callHelperOperation(call)
    BY <2>1, <2>3, <2>4, HelperStep
  <2>5. CASE ~Busy(call[1]) /\ HelperAbsent /\ startFallbackOperation(call)
    BY <2>1, <2>3, <2>5, FallbackStep
  <2> QED BY <1>1, <2>2, <2>4, <2>5 DEF managerAsks
<1>2. CASE commandAsks(call)
  <2>1. CanAsk(call) /\ call[1] \in Commands
    BY <1>2 DEF commandAsks
  <2>2. \A other \in operation_process_ : other[1] # call[1]
    BY <2>1, BootAssumption DEF IInv, TypeOK
  <2> QED BY <1>2, <2>1, <2>2, RefuseStep, HelperStep DEF commandAsks
<1> QED BY <1>1, <1>2

-----------------------------------------------------------------------------
(***************************************************************************)
(* A client is answered, gives up or ends.                                 *)
(***************************************************************************)

\* An awaited call is reported: what it is asked of stays as it is, but for the
\* reply that was read.
LEMMA ReportStep ==
    ASSUME IInv, NEW call \in Awaited, NEW success \in BOOLEAN,
           operationFinished(call, success),
           operation_process_' = operation_process_ \ {call},
           helper_operation_running_' = helper_operation_running_ \ {call},
           \/ UNCHANGED replies
           \/ replies' = [replies EXCEPT ![call] = "none"],
           UNCHANGED <<gone, queue, serving, program, applied, strays>>,
           call \in operation_process_ => program[call] # "running"
    PROVE  IInv'
<1>1. TypeOK /\ call \in Calls /\ told[call] = <<>>
  <2>1. Managers \X (1..MaxCalls) \subseteq Calls
    BY DEF Calls, Clients
  <2> QED BY <2>1 DEF IInv, TypeOK, NotReported, Awaited
<1>2. told' = [told EXCEPT ![call] = <<success>>]
  <2>1. Append(told[call], success) = <<success>>
    BY <1>1
  <2> QED BY <2>1 DEF operationFinished
<1>3. \A other \in Calls : replies'[other] = IF other = call /\ replies' # replies
                                              THEN "none" ELSE replies[other]
  BY <1>1 DEF TypeOK
<1>4. TypeOK'
  <2>1. told' \in [Calls -> {<<>>, <<TRUE>>, <<FALSE>>}]
    <3>1. <<success>> \in {<<>>, <<TRUE>>, <<FALSE>>}
      OBVIOUS
    <3> QED BY <1>1, <1>2, <3>1 DEF TypeOK
  <2>2. replies' \in [Calls -> {"none", "ok", "error"}]
    BY <1>1 DEF TypeOK
  <2> QED BY <1>1, <2>1, <2>2 DEF TypeOK
<1>5. \A other \in Calls : Asked(other)' <=> Asked(other)
  <2>1. \A other \in Calls : told'[other] = IF other = call THEN <<success>> ELSE told[other]
    BY <1>1, <1>2 DEF TypeOK
  <2>2. <<success>> # <<>>
    OBVIOUS
  <2> QED BY <2>1, <2>2 DEF Asked, Awaited
<1>6. NotReported'
  BY <1>1, <1>2 DEF IInv, NotReported, Awaited, TypeOK
<1>7. AskedInOrder'
  BY <1>5 DEF IInv, AskedInOrder, Before
<1>8. Untouched'
  BY <1>3, <1>5 DEF IInv, Untouched, InQueue, Applied
<1>9. Apart'
  BY <1>3 DEF IInv, Apart, InQueue
<1>10. Kept'
  BY <1>1, <1>3 DEF IInv, Kept, InQueue, TypeOK
<1>11. RunsSomewhere' /\ NotOvertaken'
  BY DEF IInv, RunsSomewhere, NotOvertaken
<1>12. InOrder'
  BY DEF IInv, InOrder, Pending, InQueue, Applied, Before
<1> QED BY <1>4, <1>6, <1>7, <1>8, <1>9, <1>10, <1>11, <1>12 DEF IInv

\* The reply to a call that nobody awaits is dropped.
LEMMA DropStep ==
    ASSUME IInv, NEW call \in Calls,
           call \notin helper_operation_running_ \/ call[1] \in gone,
           replies' = [replies EXCEPT ![call] = "none"],
           UNCHANGED <<client, queue, serving, work>>
    PROVE  IInv'
<1>1. /\ TypeOK
      /\ UNCHANGED <<operation_process_, helper_operation_running_, told, gone,
                     program, applied, strays>>
  BY DEF IInv, client, work
<1>2. \A other \in Calls : replies'[other] = IF other = call THEN "none" ELSE replies[other]
  BY <1>1 DEF TypeOK
<1>3. TypeOK'
  <2>1. replies' \in [Calls -> {"none", "ok", "error"}]
    BY <1>1 DEF TypeOK
  <2> QED BY <1>1, <2>1 DEF TypeOK
<1>4. NotReported' /\ AskedInOrder'
  BY <1>1 DEF IInv, NotReported, AskedInOrder, Awaited, Asked, Before
<1>5. Untouched'
  BY <1>1, <1>2 DEF IInv, Untouched, Asked, Awaited, InQueue, Applied
<1>6. Apart' /\ Kept'
  BY <1>1, <1>2 DEF IInv, Apart, Kept, InQueue, TypeOK
<1>7. RunsSomewhere' /\ NotOvertaken' /\ InOrder'
  BY <1>1 DEF IInv, RunsSomewhere, NotOvertaken, InOrder, Pending, InQueue, Applied, Before
<1> QED BY <1>3, <1>4, <1>5, <1>6, <1>7 DEF IInv

LEMMA ClientStep ==
    ASSUME IInv, NEW call \in Calls,
           finishOperation(call) \/ finishHelperOperation(call) \/ callTimesOut(call)
    PROVE  IInv'
<1>1. CASE finishOperation(call)
  <2>1. call \in Awaited /\ call \notin helper_operation_running_
    BY <1>1 DEF finishOperation, Awaited, IInv, NotReported
  <2> QED BY <1>1, <2>1, ReportStep DEF finishOperation, helper, work
<1>2. ASSUME call \in helper_operation_running_
      PROVE  call \in Awaited /\ call \notin operation_process_
  BY <1>2 DEF Awaited, IInv, NotReported
<1>3. CASE callTimesOut(call)
  BY <1>2, <1>3, ReportStep DEF callTimesOut, helper, work
<1>4. CASE finishHelperOperation(call)
  <2>1. CASE call \in helper_operation_running_ /\ call[1] \notin gone
    BY <1>2, <1>4, <2>1, ReportStep DEF finishHelperOperation, work
  <2>2. CASE ~(call \in helper_operation_running_ /\ call[1] \notin gone)
    BY <1>4, <2>2, DropStep DEF finishHelperOperation, client
  <2> QED BY <2>1, <2>2
<1> QED BY <1>1, <1>3, <1>4

LEMMA ClientEndsStep ==
    ASSUME IInv, NEW who \in Clients, clientEnds(who)
    PROVE  IInv'
<1>1. PICK killed \in SUBSET {call \in operation_process_ : call[1] = who /\ program[call] = "running"} :
        program' = [call \in Calls |-> IF call \in killed THEN "failed" ELSE program[call]]
  BY DEF clientEnds
<1>2. /\ TypeOK
      /\ gone' = gone \cup {who}
      /\ UNCHANGED <<operation_process_, helper_operation_running_, told,
                     queue, serving, replies, applied, strays>>
  BY DEF IInv, clientEnds, helper
<1>3. \A call \in Calls :
        /\ program'[call] = program[call] \/ (program'[call] = "failed" /\ program[call] = "running")
        /\ program'[call] \in {"none", "unstarted", "running", "ok", "failed"}
  BY <1>1, <1>2 DEF TypeOK
<1>4. TypeOK'
  BY <1>1, <1>2, <1>3 DEF TypeOK
<1>5. NotReported' /\ AskedInOrder' /\ Apart' /\ NotOvertaken'
  BY <1>2 DEF IInv, NotReported, AskedInOrder, Apart, NotOvertaken, Awaited, Asked, Before, InQueue
<1>6. Untouched'
  BY <1>2, <1>3 DEF IInv, Untouched, Asked, Awaited, InQueue, Applied
<1>7. Kept'
  BY <1>2 DEF IInv, Kept, InQueue
<1>8. RunsSomewhere'
  BY <1>2, <1>3 DEF IInv, RunsSomewhere
<1>9. InOrder'
  BY <1>2, <1>3 DEF IInv, InOrder, Pending, InQueue, Applied, Before
<1> QED BY <1>4, <1>5, <1>6, <1>7, <1>8, <1>9 DEF IInv

-----------------------------------------------------------------------------
(***************************************************************************)
(* The helper.                                                             *)
(***************************************************************************)

\* The call it reads is the earliest of its client's that is under way.
LEMMA ReadStep ==
    ASSUME IInv, helperReads
    PROVE  IInv'
<1> DEFINE call == Head(queue)
<1>1. /\ TypeOK /\ serving = {} /\ queue # <<>>
      /\ queue' = Tail(queue)
      /\ UNCHANGED <<operation_process_, helper_operation_running_, told, gone,
                     program, applied, strays>>
  BY DEF IInv, helperReads, Idle, client, work
<1>2. /\ queue \in Seq(Calls) /\ queue' \in Seq(Calls)
      /\ Len(queue) \in Nat \ {0}
      /\ DOMAIN queue = 1..Len(queue) /\ DOMAIN queue' = 1..(Len(queue) - 1)
      /\ call = queue[1] /\ call \in Calls
      /\ \A i \in 1..(Len(queue) - 1) : queue'[i] = queue[i + 1]
  BY <1>1 DEF TypeOK
<1>3. InQueue(call)
  BY <1>2 DEF InQueue
<1>4. /\ call \notin serving /\ replies[call] = "none" /\ call \notin operation_process_
  BY <1>1, <1>2, <1>3 DEF IInv, Apart
<1>5. \A other \in Calls : InQueue(other)' <=> InQueue(other) /\ other # call
  <2>1. ASSUME NEW other \in Calls, InQueue(other)'
        PROVE  InQueue(other) /\ other # call
    <3>1. PICK i \in 1..(Len(queue) - 1) : queue[i + 1] = other
      BY <1>2, <2>1 DEF InQueue
    <3>2. i + 1 \in 1..Len(queue) /\ i + 1 # 1 /\ 1 \in 1..Len(queue)
      BY <1>2
    <3>3. other # queue[1]
      BY <1>2, <3>1, <3>2 DEF IInv, Apart
    <3> QED BY <1>2, <3>1, <3>2, <3>3 DEF InQueue
  <2>2. ASSUME NEW other \in Calls, InQueue(other), other # call
        PROVE  InQueue(other)'
    <3>1. PICK i \in 1..Len(queue) : queue[i] = other
      BY <1>2, <2>2 DEF InQueue
    <3>2. i # 1
      BY <1>2, <2>2, <3>1
    <3>3. i - 1 \in 1..(Len(queue) - 1) /\ queue'[i - 1] = other
      BY <1>2, <3>1, <3>2
    <3> QED BY <1>2, <3>3 DEF InQueue
  <2> QED BY <2>1, <2>2
<1>6. \A i, j \in DOMAIN queue' :
        /\ i + 1 \in DOMAIN queue /\ j + 1 \in DOMAIN queue
        /\ queue'[i] = queue[i + 1] /\ queue'[j] = queue[j + 1]
        /\ i \in Nat /\ j \in Nat
  BY <1>2
<1>7. \/ /\ replies' = [replies EXCEPT ![call] = "error"]
         /\ serving' = {}
      \/ /\ replies' = replies
         /\ serving' = {call}
  BY <1>1 DEF helperReads, reject, reply
<1>8. \A other \in Calls :
        /\ other # call => replies'[other] = replies[other] /\ other \notin serving'
        /\ \/ replies'[call] = "error" /\ call \notin serving'
           \/ replies'[call] = "none" /\ call \in serving'
  BY <1>1, <1>2, <1>4, <1>7 DEF TypeOK
<1>9. TypeOK'
  <2>1. serving' \subseteq Calls
    BY <1>2, <1>7
  <2>2. replies' \in [Calls -> {"none", "ok", "error"}]
    BY <1>1, <1>2, <1>7 DEF TypeOK
  <2> QED BY <1>1, <1>2, <2>1, <2>2 DEF TypeOK
<1>10. NotReported' /\ AskedInOrder' /\ NotOvertaken'
  BY <1>1 DEF IInv, NotReported, AskedInOrder, NotOvertaken, Awaited, Asked, Before
<1>11. Untouched'
  <2>1. Asked(call)
    BY <1>2, <1>3 DEF IInv, Untouched
  <2>2. \A other \in Calls : Asked(other)' <=> Asked(other)
    BY <1>1 DEF Asked, Awaited
  <2>3. \A other \in Calls : Applied(other)' <=> Applied(other)
    BY <1>1 DEF Applied
  <2> QED BY <1>1, <1>5, <1>8, <2>1, <2>2, <2>3 DEF IInv, Untouched
<1>12. Apart'
  <2>1. \A other \in Calls :
          /\ InQueue(other)' => other \notin serving' /\ replies'[other] = "none"
          /\ other \in serving' => replies'[other] = "none"
          /\ other \in operation_process_' =>
                ~InQueue(other)' /\ other \notin serving' /\ replies'[other] = "none"
    BY <1>1, <1>4, <1>5, <1>8 DEF IInv, Apart
  <2>2. \A i, j \in DOMAIN queue' : queue'[i] = queue'[j] => i = j
    BY <1>6 DEF IInv, Apart
  <2> QED BY <2>1, <2>2 DEF Apart
<1>13. Kept'
  <2> SUFFICES ASSUME NEW other \in helper_operation_running_, other[1] \notin gone
               PROVE  InQueue(other)' \/ other \in serving' \/ replies'[other] # "none"
    BY <1>1 DEF Kept
  <2>1. other \in Calls
    BY <1>1 DEF TypeOK
  <2> QED BY <1>1, <1>5, <1>8, <2>1 DEF IInv, Kept
<1>14. RunsSomewhere'
  <2>1. call \in serving' \/ program[call] # "running" \/ call \in strays
    BY <1>1, <1>2, <1>4 DEF IInv, RunsSomewhere
  <2> QED BY <1>1, <1>8, <2>1 DEF IInv, RunsSomewhere
<1>15. InOrder'
  <2>1. ASSUME NEW first \in Calls, NEW later \in Calls, Before(first, later), Pending(first)'
        PROVE  /\ program'[later] = "none" /\ ~Applied(later)'
               /\ later \notin serving' /\ later \notin operation_process_'
               /\ (first \in operation_process_' => ~InQueue(later)')
    <3>1. Pending(first)
      BY <1>1, <1>3, <1>5, <1>8, <2>1 DEF Pending
    <3>2. /\ program[later] = "none" /\ ~Applied(later)
          /\ later \notin serving /\ later \notin operation_process_
          /\ (first \in operation_process_ => ~InQueue(later))
      BY <2>1, <3>1 DEF IInv, InOrder
    <3>3. later # call
      <4> SUFFICES ASSUME later = call PROVE FALSE
        OBVIOUS
      <4>1. first \notin operation_process_ /\ first # call
        BY <1>3, <2>1, <3>2, CallsTyped DEF Before
      <4>2. InQueue(first)
        BY <1>1, <3>1, <4>1 DEF Pending
      <4>3. PICK i \in DOMAIN queue : queue[i] = first
        BY <4>2 DEF InQueue
      <4>4. i < 1
        BY <1>2, <2>1, <4>3 DEF IInv, InOrder
      <4> QED BY <1>2, <4>3, <4>4
    <3> QED BY <1>1, <1>5, <1>8, <3>2, <3>3 DEF Applied
  <2>2. ASSUME NEW i \in DOMAIN queue', NEW j \in DOMAIN queue', Before(queue'[i], queue'[j])
        PROVE  i < j
    <3>1. i + 1 < j + 1
      BY <1>6, <2>2 DEF IInv, InOrder
    <3> QED BY <1>6, <3>1
  <2> QED BY <2>1, <2>2 DEF InOrder, Before
<1> QED BY <1>9, <1>10, <1>11, <1>12, <1>13, <1>14, <1>15 DEF IInv

\* The call being served is answered, and its program is not left running.
LEMMA AnswerStep ==
    ASSUME IInv, NEW call \in Calls, call \in serving, NEW answer \in {"ok", "error"},
           NEW end \in {"none", "unstarted", "ok", "failed"},
           end = "none" => program[call] = "none",
           program' = [program EXCEPT ![call] = end],
           serving' = serving \ {call},
           reply(call, answer),
           UNCHANGED <<client, queue, applied, strays>>
    PROVE  IInv'
<1>1. /\ TypeOK
      /\ UNCHANGED <<operation_process_, helper_operation_running_, told, gone>>
      /\ \A other \in Calls :
            /\ replies'[other] = IF other = call THEN answer ELSE replies[other]
            /\ program'[other] = IF other = call THEN end ELSE program[other]
  BY DEF IInv, TypeOK, client, reply
<1>2. ~InQueue(call) /\ call \notin operation_process_
  BY DEF IInv, Apart
<1>3. TypeOK'
  <2>1. /\ replies' \in [Calls -> {"none", "ok", "error"}]
        /\ program' \in [Calls -> {"none", "unstarted", "running", "ok", "failed"}]
    BY <1>1 DEF TypeOK, reply
  <2> QED BY <1>1, <2>1 DEF TypeOK
<1>4. NotReported' /\ AskedInOrder' /\ NotOvertaken'
  BY <1>1 DEF IInv, NotReported, AskedInOrder, NotOvertaken, Awaited, Asked, Before
<1>5. Untouched'
  <2>1. Asked(call)
    BY DEF IInv, Untouched
  <2> QED BY <1>1, <2>1 DEF IInv, Untouched, Asked, Awaited, InQueue, Applied
<1>6. Apart'
  BY <1>1, <1>2 DEF IInv, Apart, InQueue
<1>7. Kept'
  BY <1>1 DEF IInv, Kept, InQueue, TypeOK
<1>8. RunsSomewhere'
  BY <1>1 DEF IInv, RunsSomewhere
<1>9. InOrder'
  BY <1>1 DEF IInv, InOrder, Pending, InQueue, Applied, Before
<1> QED BY <1>3, <1>4, <1>5, <1>6, <1>7, <1>8, <1>9 DEF IInv

LEMMA AuthorizeStep ==
    ASSUME IInv, NEW call \in Calls, authorize(call)
    PROVE  IInv'
<1>1. /\ TypeOK /\ call \in serving
      /\ program' = [program EXCEPT ![call] = "running"]
      /\ UNCHANGED <<operation_process_, helper_operation_running_, told, gone,
                     queue, serving, replies, applied, strays>>
  BY DEF IInv, authorize, client, helper
<1>2. \A other \in Calls : program'[other] = IF other = call THEN "running" ELSE program[other]
  BY <1>1 DEF TypeOK
<1>3. TypeOK'
  <2>1. program' \in [Calls -> {"none", "unstarted", "running", "ok", "failed"}]
    BY <1>1 DEF TypeOK
  <2> QED BY <1>1, <2>1 DEF TypeOK
<1>4. NotReported' /\ AskedInOrder' /\ NotOvertaken' /\ Apart' /\ Kept'
  BY <1>1 DEF IInv, NotReported, AskedInOrder, NotOvertaken, Apart, Kept,
              Awaited, Asked, Before, InQueue
<1>5. Untouched'
  <2>1. Asked(call)
    BY <1>1 DEF IInv, Untouched
  <2> QED BY <1>1, <1>2, <2>1 DEF IInv, Untouched, Asked, Awaited, InQueue, Applied
<1>6. RunsSomewhere'
  BY <1>1, <1>2 DEF IInv, RunsSomewhere
<1>7. InOrder'
  BY <1>1, <1>2 DEF IInv, InOrder, Pending, InQueue, Applied, Before
<1> QED BY <1>3, <1>4, <1>5, <1>6, <1>7 DEF IInv

LEMMA HelperEndsStep ==
    ASSUME IInv, helperEnds
    PROVE  IInv'
<1>1. /\ TypeOK
      /\ queue' = <<>> /\ serving' = {}
      /\ strays' = strays \cup {call \in serving : program[call] = "running"}
      /\ UNCHANGED <<operation_process_, helper_operation_running_, told, gone,
                     program, applied>>
  BY DEF IInv, helperEnds, client
<1>2. \A call \in Calls :
        replies'[call] = IF call \in serving \/ InQueue(call) THEN "error" ELSE replies[call]
  BY QueuedMeans DEF helperEnds
<1>3. \A call : ~InQueue(call)'
  BY <1>1 DEF InQueue
<1>4. TypeOK'
  <2>1. replies' \in [Calls -> {"none", "ok", "error"}]
    BY <1>1 DEF helperEnds, TypeOK
  <2>2. queue' \in Seq(Calls)
    BY <1>1
  <2> QED BY <1>1, <2>1, <2>2 DEF TypeOK
<1>5. NotReported' /\ AskedInOrder' /\ NotOvertaken'
  BY <1>1 DEF IInv, NotReported, AskedInOrder, NotOvertaken, Awaited, Asked, Before
<1>6. Untouched'
  BY <1>1, <1>2, <1>3 DEF IInv, Untouched, Asked, Awaited, Applied
<1>7. Apart'
  BY <1>1, <1>2, <1>3 DEF IInv, Apart
<1>8. Kept'
  BY <1>1, <1>2 DEF IInv, Kept, TypeOK
<1>9. RunsSomewhere'
  BY <1>1 DEF IInv, RunsSomewhere
<1>10. InOrder'
  BY <1>1, <1>3 DEF IInv, InOrder, Pending, Applied, Before
<1> QED BY <1>4, <1>5, <1>6, <1>7, <1>8, <1>9, <1>10 DEF IInv

LEMMA HelperServes ==
    ASSUME IInv, NEW call \in Calls, deny(call) \/ authorize(call) \/ runCommand(call)
    PROVE  IInv'
<1>1. CASE deny(call)
  <2>1. program' = [program EXCEPT ![call] = "none"]
    BY <1>1 DEF deny, work, IInv, TypeOK
  <2> QED BY <1>1, <2>1, AnswerStep DEF deny, work
<1>2. CASE runCommand(call)
  <2>1. PICK end \in {"ok", "failed"} : program' = [program EXCEPT ![call] = end]
    <3>1. program[call] \in {"running", "ok", "failed"}
      BY <1>2 DEF runCommand, IInv, TypeOK
    <3> QED BY <1>2, <3>1 DEF runCommand
  <2>2. PICK answer \in {"ok", "error"} : reply(call, answer)
    BY <1>2 DEF runCommand
  <2> QED BY <1>2, <2>1, <2>2, AnswerStep DEF runCommand
<1> QED BY <1>1, <1>2, AuthorizeStep

-----------------------------------------------------------------------------
(***************************************************************************)
(* The programs.                                                           *)
(***************************************************************************)

\* A call whose program changes the configuration is not preceded by a later one.
LEMMA ApplyStep ==
    ASSUME IInv, NEW call \in Calls, programApplies(call)
    PROVE  IInv'
<1>1. /\ TypeOK /\ program[call] = "running" /\ ~Applied(call)
      /\ applied' = Append(applied, call)
      /\ UNCHANGED <<operation_process_, helper_operation_running_, told, gone,
                     queue, serving, replies, program, strays>>
  BY AppliedMeans DEF IInv, programApplies, client, helper
<1>2. /\ applied \in Seq(Calls) /\ applied' \in Seq(Calls)
      /\ Len(applied) \in Nat
      /\ DOMAIN applied = 1..Len(applied) /\ DOMAIN applied' = 1..(Len(applied) + 1)
      /\ applied'[Len(applied) + 1] = call
      /\ \A i \in 1..Len(applied) : applied'[i] = applied[i] /\ applied[i] \in Calls
  BY <1>1 DEF TypeOK
<1>3. \A other \in Calls : Applied(other)' <=> Applied(other) \/ other = call
  BY <1>2 DEF Applied
<1>4. Asked(call)
  BY <1>1 DEF IInv, Untouched
<1>5. TypeOK'
  BY <1>1, <1>2 DEF TypeOK
<1>6. NotReported' /\ AskedInOrder' /\ Apart' /\ Kept' /\ RunsSomewhere'
  BY <1>1 DEF IInv, NotReported, AskedInOrder, Apart, Kept, RunsSomewhere,
              Awaited, Asked, Before, InQueue
<1>7. Untouched'
  BY <1>1, <1>3, <1>4 DEF IInv, Untouched, Asked, Awaited, InQueue
<1>8. InOrder'
  <2>1. ASSUME NEW first \in Calls, NEW later \in Calls, Before(first, later), Pending(first)'
        PROVE  /\ program'[later] = "none" /\ ~Applied(later)'
               /\ later \notin serving' /\ later \notin operation_process_'
               /\ (first \in operation_process_' => ~InQueue(later)')
    <3>1. Pending(first)
      BY <1>1, <2>1 DEF Pending, InQueue
    <3>2. /\ program[later] = "none" /\ ~Applied(later)
          /\ later \notin serving /\ later \notin operation_process_
          /\ (first \in operation_process_ => ~InQueue(later))
      BY <2>1, <3>1 DEF IInv, InOrder
    <3>3. later # call
      BY <1>1, <3>2
    <3> QED BY <1>1, <1>3, <3>2, <3>3 DEF InQueue
  <2>2. \A i, j \in DOMAIN queue' : Before(queue'[i], queue'[j]) => i < j
    BY <1>1 DEF IInv, InOrder
  <2> QED BY <2>1, <2>2 DEF InOrder, Before
<1>9. NotOvertaken'
  <2> SUFFICES ASSUME NEW i \in DOMAIN applied', NEW j \in DOMAIN applied',
                      i < j, applied'[i][1] = applied'[j][1], applied'[j] \notin strays
               PROVE  applied'[i][2] < applied'[j][2]
    BY <1>1 DEF NotOvertaken
  <2>1. CASE j \in 1..Len(applied)
    <3>1. i \in 1..Len(applied)
      BY <1>2, <2>1
    <3> QED BY <1>2, <2>1, <3>1 DEF IInv, NotOvertaken
  <2>2. CASE j = Len(applied) + 1
    <3>1. i \in 1..Len(applied)
      BY <1>2, <2>2
    <3> DEFINE other == applied[i]
    <3>2. other \in Calls /\ Applied(other) /\ other # call /\ other[1] = call[1]
      BY <1>1, <1>2, <2>2, <3>1 DEF Applied
    <3>3. Pending(call)
      BY <1>1, <1>2, <2>2 DEF IInv, RunsSomewhere, Pending
    <3>4. ~Before(call, other)
      BY <3>2, <3>3 DEF IInv, InOrder
    <3>5. other[2] < call[2]
      BY <3>2, <3>4, CallsTyped DEF Before
    <3> QED BY <1>2, <2>2, <3>1, <3>5
  <2> QED BY <1>2, <2>1, <2>2
<1> QED BY <1>5, <1>6, <1>7, <1>8, <1>9 DEF IInv

LEMMA ProgramEndsStep ==
    ASSUME IInv, NEW call \in Calls, programEnds(call)
    PROVE  IInv'
<1>1. PICK end \in {"failed", "ok"} : program' = [program EXCEPT ![call] = end]
  BY DEF programEnds
<1>2. /\ TypeOK /\ program[call] = "running"
      /\ UNCHANGED <<operation_process_, helper_operation_running_, told, gone,
                     queue, serving, replies, applied, strays>>
  BY DEF IInv, programEnds, client, helper
<1>3. \A other \in Calls : program'[other] = IF other = call THEN end ELSE program[other]
  BY <1>1, <1>2 DEF TypeOK
<1>4. TypeOK'
  <2>1. program' \in [Calls -> {"none", "unstarted", "running", "ok", "failed"}]
    BY <1>1, <1>2 DEF TypeOK
  <2> QED BY <1>2, <2>1 DEF TypeOK
<1>5. NotReported' /\ AskedInOrder' /\ NotOvertaken' /\ Apart' /\ Kept'
  BY <1>2 DEF IInv, NotReported, AskedInOrder, NotOvertaken, Apart, Kept,
              Awaited, Asked, Before, InQueue
<1>6. Untouched'
  BY <1>2, <1>3 DEF IInv, Untouched, Asked, Awaited, InQueue, Applied
<1>7. RunsSomewhere'
  BY <1>2, <1>3 DEF IInv, RunsSomewhere
<1>8. InOrder'
  BY <1>2, <1>3 DEF IInv, InOrder, Pending, InQueue, Applied, Before
<1> QED BY <1>4, <1>5, <1>6, <1>7, <1>8 DEF IInv

-----------------------------------------------------------------------------

LEMMA NextIInv == IInv /\ [Next]_vars => IInv'
<1> SUFFICES ASSUME IInv, [Next]_vars PROVE IInv'
  OBVIOUS
<1>1. CASE UNCHANGED vars
  <2>1. UNCHANGED <<operation_process_, helper_operation_running_, told, gone,
                    queue, serving, replies, program, applied, strays>>
    BY <1>1 DEF vars, client, helper, work
  <2>2. /\ TypeOK' /\ NotReported' /\ AskedInOrder' /\ Kept'
        /\ RunsSomewhere' /\ NotOvertaken'
    BY <2>1 DEF IInv, TypeOK, NotReported, AskedInOrder, Kept, RunsSomewhere, NotOvertaken,
                Awaited, Asked, InQueue, Before
  <2>3. Untouched' /\ Apart' /\ InOrder'
    BY <2>1 DEF IInv, Untouched, Apart, InOrder, Awaited, Asked, InQueue, Applied, Pending, Before
  <2> QED BY <2>2, <2>3 DEF IInv
<1>2. CASE helperReads \/ helperEnds
  BY <1>2, ReadStep, HelperEndsStep
<1>3. ASSUME NEW who \in Clients, clientEnds(who)
      PROVE  IInv'
  BY <1>3, ClientEndsStep
<1>4. ASSUME NEW call \in Calls,
             \/ managerAsks(call) \/ commandAsks(call)
             \/ finishOperation(call) \/ finishHelperOperation(call) \/ callTimesOut(call)
             \/ deny(call) \/ authorize(call) \/ runCommand(call)
             \/ programApplies(call) \/ programEnds(call)
      PROVE  IInv'
  BY <1>4, AskStep, ClientStep, HelperServes, ApplyStep, ProgramEndsStep
<1> QED BY <1>1, <1>2, <1>3, <1>4 DEF Next

-----------------------------------------------------------------------------
(***************************************************************************)
(* The theorems.                                                           *)
(***************************************************************************)

\* The inductive invariant holds whatever the clients, the helper, the programs and
\* the bus do.
THEOREM InductiveInvariant == Spec => []IInv
BY InitIInv, NextIInv, PTL DEF Spec

\* The state has its types, and no operation is reported twice.
THEOREM TypeCorrect == Spec => []TypeOK
<1>1. IInv => TypeOK
  BY DEF IInv
<1> QED BY <1>1, InductiveInvariant, PTL

\* A call whose client waits is in the helper's queue, on its thread or on the way
\* back, and no call is in two of these places.
THEOREM CallIsInOnePlaceAlways == Spec => []CallIsInOnePlace
<1>1. IInv => CallIsInOnePlace
  <2> SUFFICES ASSUME IInv, NEW call \in Calls
               PROVE  /\ call \in helper_operation_running_ /\ call[1] \notin gone => Places(call) # {}
                      /\ \A here, there \in Places(call) : here = there
    BY DEF CallIsInOnePlace
  <2>1. \A place : place \in Places(call) <=>
          \/ \E i \in DOMAIN queue : queue[i] = call /\ place = <<"queue", i>>
          \/ call \in serving /\ place = <<"serving", 0>>
          \/ replies[call] # "none" /\ place = <<"reply", 0>>
    BY DEF Places
  <2>2. ASSUME call \in helper_operation_running_, call[1] \notin gone
        PROVE  Places(call) # {}
    <3>1. InQueue(call) \/ call \in serving \/ replies[call] # "none"
      BY <2>2 DEF IInv, Kept
    <3>2. CASE InQueue(call)
      <4>1. PICK i \in DOMAIN queue : queue[i] = call
        BY <3>2 DEF InQueue
      <4> QED BY <2>1, <4>1
    <3> QED BY <2>1, <3>1, <3>2
  <2>3. ASSUME NEW here \in Places(call), NEW there \in Places(call)
        PROVE  here = there
    BY <2>1 DEF IInv, Apart, InQueue
  <2> QED BY <2>2, <2>3
<1> QED BY <1>1, InductiveInvariant, PTL

\* What a client asked for last is what the configuration says: an operation is not
\* overtaken by a later one of its client, but by a program whose helper was killed.
THEOREM NotOvertakenAlways == Spec => []NotOvertaken
<1>1. IInv => NotOvertaken
  BY DEF IInv
<1> QED BY <1>1, InductiveInvariant, PTL

-----------------------------------------------------------------------------
(***************************************************************************)
(* Every step is one that BootPromise allows, or changes nothing of what   *)
(* it speaks of.                                                           *)
(***************************************************************************)

\* A client has one operation under way.
OneUnderWay == \A call, other \in Awaited : call[1] = other[1] => call = other

\* Success is told, carried by a reply or had by a program only after the change.
Truthful ==
    \A call \in Calls :
        told[call] = <<TRUE>> \/ replies[call] = "ok" \/ program[call] = "ok" => Applied(call)

\* Only the program of a fallback can be missing, and its client waits for ever.
OnlyFallbackMissing == \A call \in Calls : program[call] = "unstarted" => call \in operation_process_

PInv == IInv /\ OneUnderWay /\ Truthful /\ OnlyFallbackMissing

Stays == OneUnderWay' /\ Truthful' /\ OnlyFallbackMissing'

LEMMA ReportsDiffer ==
    <<TRUE>> # <<>> /\ <<FALSE>> # <<>> /\ <<TRUE>> # <<FALSE>>
<1> DEFINE yes == <<TRUE>>
           no == <<FALSE>>
<1>1. Len(yes) = 1 /\ Len(no) = 1 /\ yes[1] = TRUE /\ no[1] = FALSE
  OBVIOUS
<1> QED BY <1>1

\* The cases of StateOf.
States ==
    \A call \in Calls :
        /\ ~Asked(call) => StateOf(call) = "none"
        /\ call \in Awaited /\ Lost(call) => StateOf(call) = "lost"
        /\ call \in Awaited /\ ~Lost(call) => StateOf(call) = "open"
        /\ Asked(call) /\ call \notin Awaited =>
              StateOf(call) = IF told[call] = <<TRUE>> THEN "ok" ELSE "failed"

LEMMA StatesAre == States /\ States'
<1>1. States
  BY DEF States, StateOf, Asked
<1> QED BY <1>1, PTL

\* A step that changes the state of one operation for its client.
LEMMA Becomes ==
    ASSUME NEW call \in Calls, NEW new,
           StateOf(call)' = new,
           \A other \in Calls \ {call} : StateOf(other)' = StateOf(other),
           applied' = applied
    PROVE  Promise!Become(call, new)
BY DEF Promise!Become

\* What decides the state of an operation.
LEMMA SameState ==
    ASSUME NEW call \in Calls,
           call \in Awaited' <=> call \in Awaited,
           told'[call] = told[call],
           call[1] \in gone' <=> call[1] \in gone,
           program'[call] = "unstarted" <=> program[call] = "unstarted"
    PROVE  StateOf(call)' = StateOf(call)
BY StatesAre DEF States, Asked, Lost

\* A step of the helper or of a program that changes nothing for the clients.
LEMMA Stutters ==
    ASSUME UNCHANGED <<operation_process_, helper_operation_running_, told, gone, applied>>,
           \A call \in Calls : program'[call] = "unstarted" <=> program[call] = "unstarted"
    PROVE  UNCHANGED Promise!vars
<1>1. \A call \in Calls : StateOf(call)' = StateOf(call)
  BY SameState DEF Awaited
<1> QED BY <1>1 DEF Promise!vars

LEMMA InitPromise == Init => PInv /\ Promise!Init
<1> SUFFICES ASSUME Init PROVE PInv /\ Promise!Init
  OBVIOUS
<1>1. IInv
  BY InitIInv
<1>2. Awaited = {} /\ \A call \in Calls : ~Asked(call)
  BY DEF Init, Asked, Awaited
<1>3. OneUnderWay /\ Truthful /\ OnlyFallbackMissing
  BY <1>2, ReportsDiffer DEF Init, OneUnderWay, Truthful, OnlyFallbackMissing
<1>4. Promise!Init
  BY <1>2, StatesAre DEF Init, Promise!Init, States, Promise!Calls, Calls
<1> QED BY <1>1, <1>3, <1>4 DEF PInv

\* A client that may ask has nothing under way, unless the call is refused for it.
LEMMA AsksAlone ==
    ASSUME PInv, NEW call \in Calls, CanAsk(call),
           call[1] \in Commands \/ ~Busy(call[1]),
           NEW other \in Awaited
    PROVE  other[1] # call[1]
<1> SUFFICES ASSUME other[1] = call[1] PROVE FALSE
  OBVIOUS
<1>1. other \in Calls
  BY DEF PInv, IInv, TypeOK, Awaited, Calls, Clients
<1>2. call[1] \in Commands
  BY DEF Busy
<1>3. call[2] \in 1..MaxCalls /\ other[2] \in 1..MaxCalls
  BY <1>1 DEF Calls
<1>4. call[2] = 1
  <2> SUFFICES ASSUME call[2] # 1 PROVE FALSE
    OBVIOUS
  <2>1. 1 \in 1..(call[2] - 1)
    BY <1>3, BootAssumption
  <2> QED BY <1>2, <2>1, BootAssumption DEF CanAsk
<1>5. Asked(other)
  BY DEF Asked
<1>6. CASE other[2] = 1
  <2>1. other = call
    BY <1>1, <1>4, <1>6, CallsTyped
  <2> QED BY <1>5, <2>1 DEF CanAsk
<1>7. CASE other[2] # 1
  <2>1. Before(call, other)
    BY <1>3, <1>4, <1>7, BootAssumption DEF Before
  <2> QED BY <1>1, <1>5, <2>1, CanAskMeans DEF PInv
<1> QED BY <1>6, <1>7

\* What is left to show when a call begins to be awaited.
LEMMA BeginsAlone ==
    ASSUME PInv, NEW call \in Calls, Awaited' = Awaited \cup {call},
           \A other \in Awaited : other[1] # call[1]
    PROVE  /\ OneUnderWay'
           /\ Promise!NoneOpen(call[1])
<1>1. OneUnderWay'
  BY DEF PInv, OneUnderWay
<1>2. ASSUME NEW n \in 1..MaxCalls
      PROVE  [c \in Calls |-> StateOf(c)][<<call[1], n>>] # "open"
  <2>1. <<call[1], n>> \in Calls \ Awaited
    BY DEF Calls
  <2> QED BY <2>1, StatesAre DEF States
<1> QED BY <1>1, <1>2 DEF Promise!NoneOpen

LEMMA RefusePromise ==
    ASSUME PInv, NEW call \in Calls, CanAsk(call), refuse(call)
    PROVE  Stays /\ Promise!Ask(call)
<1>1. /\ UNCHANGED <<operation_process_, helper_operation_running_, gone, replies, program, applied>>
      /\ told' = [told EXCEPT ![call] = <<FALSE>>]
      /\ told \in [Calls -> {<<>>, <<TRUE>>, <<FALSE>>}]
      /\ call \notin Awaited /\ ~Asked(call)
  <2>1. told[call] = <<>>
    BY CanAskMeans DEF PInv
  <2>2. Append(told[call], FALSE) = <<FALSE>>
    BY <2>1
  <2> QED BY <2>2, CanAskMeans DEF PInv, IInv, TypeOK, refuse, operationFinished, helper, work
<1>2. /\ told'[call] = <<FALSE>>
      /\ \A other \in Calls \ {call} : told'[other] = told[other]
  BY <1>1
<1>3. Stays
  BY <1>1, <1>2, ReportsDiffer
     DEF Stays, PInv, OneUnderWay, Truthful, OnlyFallbackMissing, Awaited, Applied
<1>4. StateOf(call) = "none" /\ StateOf(call)' = "failed"
  BY <1>1, <1>2, StatesAre, ReportsDiffer DEF States, Asked, Awaited
<1>5. \A other \in Calls \ {call} : StateOf(other)' = StateOf(other)
  BY <1>1, <1>2, SameState DEF Awaited
<1>6. Promise!Become(call, "failed")
  BY <1>1, <1>4, <1>5, Becomes
<1> QED BY <1>3, <1>4, <1>6 DEF Promise!Ask

\* It is sent to the helper, or begun as a program that runs or is missing.
LEMMA BeginPromise ==
    ASSUME PInv, NEW call \in Calls, CanAsk(call), call[1] \in Commands \/ ~Busy(call[1]),
           callHelperOperation(call) \/ startFallbackOperation(call)
    PROVE  Stays /\ (Promise!Ask(call) \/ Promise!Lose(call))
<1>1. /\ Awaited' = Awaited \cup {call}
      /\ UNCHANGED <<told, gone, replies, applied>>
      /\ operation_process_ \subseteq operation_process_'
      /\ program \in [Calls -> {"none", "unstarted", "running", "ok", "failed"}]
  BY DEF callHelperOperation, startFallbackOperation, Awaited, helper, work, PInv, IInv, TypeOK
<1>2. /\ \A other \in Calls \ {call} : program'[other] = program[other]
      /\ program'[call] # "ok" \/ program'[call] = program[call]
      /\ program'[call] = "unstarted" =>
            call \in operation_process_' \/ program[call] = "unstarted"
  BY <1>1 DEF callHelperOperation, startFallbackOperation, work
<1>3. /\ OneUnderWay' /\ Promise!NoneOpen(call[1])
  BY <1>1, AsksAlone, BeginsAlone
<1>4. Stays
  BY <1>1, <1>2, <1>3 DEF Stays, PInv, Truthful, OnlyFallbackMissing, Applied
<1>5. /\ StateOf(call) = "none"
      /\ \A other \in Calls \ {call} : StateOf(other)' = StateOf(other)
  <2>1. ~Asked(call)
    BY DEF CanAsk
  <2> QED BY <1>1, <1>2, <2>1, SameState, StatesAre DEF States
<1>6. StateOf(call)' \in {"open", "lost"}
  BY <1>1, StatesAre DEF States
<1> QED BY <1>1, <1>3, <1>4, <1>5, <1>6, Becomes DEF Promise!Ask, Promise!Lose

LEMMA AskPromise ==
    ASSUME PInv, NEW call \in Calls, managerAsks(call) \/ commandAsks(call)
    PROVE  Stays /\ (Promise!Ask(call) \/ Promise!Lose(call))
<1>1. CanAsk(call)
  BY DEF managerAsks, commandAsks
<1>2. CASE refuse(call)
  BY <1>1, <1>2, RefusePromise
<1>3. CASE ~refuse(call)
  BY <1>1, <1>3, BeginPromise DEF managerAsks, commandAsks
<1> QED BY <1>2, <1>3

\* The client is told, truthfully, of what it waited for.
LEMMA ReportPromise ==
    ASSUME PInv, NEW call \in Awaited, NEW success \in BOOLEAN,
           operationFinished(call, success),
           operation_process_' = operation_process_ \ {call},
           helper_operation_running_' = helper_operation_running_ \ {call},
           replies' \in {replies, [replies EXCEPT ![call] = "none"]},
           UNCHANGED <<gone, program, applied>>,
           call[1] \notin gone, program[call] # "unstarted",
           success => Applied(call)
    PROVE  Stays /\ Promise!End(call)
<1>1. /\ call \in Calls
      /\ told \in [Calls -> {<<>>, <<TRUE>>, <<FALSE>>}]
      /\ replies \in [Calls -> {"none", "ok", "error"}]
      /\ told[call] = <<>>
  BY DEF PInv, IInv, TypeOK, NotReported, Awaited, Calls, Clients
<1>2. told' = [told EXCEPT ![call] = <<success>>]
  <2>1. Append(told[call], success) = <<success>>
    BY <1>1
  <2> QED BY <2>1 DEF operationFinished
<1>3. /\ told'[call] = <<success>>
      /\ \A other \in Calls \ {call} : told'[other] = told[other]
  BY <1>1, <1>2
<1>4. Awaited' = Awaited \ {call}
  BY DEF Awaited
<1>5. <<success>> # <<>> /\ (<<success>> = <<TRUE>> <=> success)
  BY ReportsDiffer
<1>6. OneUnderWay' /\ OnlyFallbackMissing'
  BY <1>4 DEF PInv, OneUnderWay, OnlyFallbackMissing
<1>7. Truthful'
  <2>1. \A other \in Calls : replies'[other] = "ok" => replies[other] = "ok"
    BY <1>1
  <2> QED BY <1>3, <1>5, <2>1 DEF PInv, Truthful, Applied
<1>8. /\ StateOf(call) = "open"
      /\ StateOf(call)' = IF success THEN "ok" ELSE "failed"
  BY <1>1, <1>3, <1>4, <1>5, StatesAre DEF States, Lost, Asked
<1>9. \A other \in Calls \ {call} : StateOf(other)' = StateOf(other)
  BY <1>3, <1>4, SameState
<1>10. Promise!Become(call, IF success THEN "ok" ELSE "failed")
  BY <1>1, <1>8, <1>9, Becomes
<1> QED BY <1>1, <1>6, <1>7, <1>8, <1>10 DEF Stays, Promise!End, Applied

LEMMA ClientPromise ==
    ASSUME PInv, NEW call \in Calls,
           finishOperation(call) \/ finishHelperOperation(call) \/ callTimesOut(call)
    PROVE  Stays /\ [Promise!Next]_(Promise!vars)
<1>1. ASSUME Promise!End(call) PROVE Promise!Next
  BY <1>1 DEF Promise!Next, Promise!Calls, Calls
<1>2. CASE finishOperation(call)
  <2>1. call \in Awaited /\ call \notin helper_operation_running_
    BY <1>2 DEF finishOperation, Awaited, PInv, IInv, NotReported
  <2>2. program[call] = "ok" => Applied(call)
    BY DEF PInv, Truthful
  <2> QED BY <1>1, <1>2, <2>1, <2>2, ReportPromise DEF finishOperation, helper, work
<1>3. ASSUME call \in helper_operation_running_
      PROVE  call \in Awaited /\ call \notin operation_process_ /\ program[call] # "unstarted"
  BY <1>3 DEF Awaited, PInv, IInv, NotReported, OnlyFallbackMissing
<1>4. CASE callTimesOut(call)
  BY <1>1, <1>3, <1>4, ReportPromise DEF callTimesOut, helper, work
<1>5. CASE finishHelperOperation(call)
  <2>1. CASE call \in helper_operation_running_ /\ call[1] \notin gone
    <3>1. replies[call] = "ok" => Applied(call)
      BY DEF PInv, Truthful
    <3> QED BY <1>1, <1>3, <1>5, <2>1, <3>1, ReportPromise DEF finishHelperOperation, work
  <2>2. CASE ~(call \in helper_operation_running_ /\ call[1] \notin gone)
    <3>1. /\ UNCHANGED <<operation_process_, helper_operation_running_, told, gone, program, applied>>
          /\ replies' = [replies EXCEPT ![call] = "none"]
          /\ replies \in [Calls -> {"none", "ok", "error"}]
      BY <1>5, <2>2 DEF finishHelperOperation, work, PInv, IInv, TypeOK
    <3>2. Stays
      BY <3>1 DEF Stays, PInv, OneUnderWay, Truthful, OnlyFallbackMissing, Awaited, Applied
    <3> QED BY <3>1, <3>2, Stutters
  <2> QED BY <2>1, <2>2
<1> QED BY <1>2, <1>4, <1>5

\* A client that ends loses the operation it has under way, if there is one.
LEMMA ClientEndsPromise ==
    ASSUME PInv, NEW who \in Clients, clientEnds(who)
    PROVE  Stays /\ [Promise!Next]_(Promise!vars)
<1>1. /\ gone' = gone \cup {who} /\ who \notin gone
      /\ UNCHANGED <<operation_process_, helper_operation_running_, told, replies, applied>>
      /\ \A call \in Calls :
            \/ program'[call] = program[call]
            \/ program[call] = "running" /\ program'[call] = "failed"
  BY DEF clientEnds, helper
<1>2. Stays
  BY <1>1 DEF Stays, PInv, OneUnderWay, Truthful, OnlyFallbackMissing, Awaited, Applied
<1>3. \A call \in Calls : call[1] # who \/ call \notin Awaited \/ StateOf(call) = "lost" =>
                             StateOf(call)' = StateOf(call)
  <2> SUFFICES ASSUME NEW call \in Calls,
                      call[1] # who \/ call \notin Awaited \/ StateOf(call) = "lost"
               PROVE  StateOf(call)' = StateOf(call)
    OBVIOUS
  <2>1. /\ program'[call] = "unstarted" <=> program[call] = "unstarted"
        /\ Awaited' = Awaited /\ told' = told
    BY <1>1 DEF Awaited
  <2>2. CASE call[1] # who
    BY <1>1, <2>1, <2>2, SameState
  <2>3. CASE call \notin Awaited
    BY <2>1, <2>3, StatesAre DEF States, Asked
  <2>4. CASE call \in Awaited /\ StateOf(call) = "lost"
    BY <1>1, <2>1, <2>4, StatesAre DEF States, Lost
  <2> QED BY <2>2, <2>3, <2>4
<1>4. CASE \E call \in Calls : call[1] = who /\ call \in Awaited /\ StateOf(call) # "lost"
  <2>1. PICK call \in Calls : call[1] = who /\ call \in Awaited /\ StateOf(call) # "lost"
    BY <1>4
  <2>2. StateOf(call) = "open" /\ StateOf(call)' = "lost"
    BY <1>1, <2>1, StatesAre DEF States, Lost, Awaited
  <2>3. \A other \in Calls \ {call} : other[1] # who \/ other \notin Awaited
    BY <2>1 DEF PInv, OneUnderWay
  <2>4. Promise!Become(call, "lost")
    BY <1>1, <1>3, <2>2, <2>3, Becomes
  <2>5. Promise!Lose(call)
    BY <2>2, <2>4 DEF Promise!Lose
  <2> QED BY <1>2, <2>5 DEF Promise!Next, Promise!Calls, Calls
<1>5. CASE ~\E call \in Calls : call[1] = who /\ call \in Awaited /\ StateOf(call) # "lost"
  <2>1. \A call \in Calls : StateOf(call)' = StateOf(call)
    BY <1>3, <1>5
  <2> QED BY <1>1, <1>2, <2>1 DEF Promise!vars
<1> QED BY <1>4, <1>5

\* The helper and the programs leave the clients alone, and pass on only success
\* that there was.
LEMMA QuietPromise ==
    ASSUME PInv,
           UNCHANGED <<operation_process_, helper_operation_running_, told, gone, applied>>,
           \A call \in Calls :
              /\ program'[call] = "unstarted" <=> program[call] = "unstarted"
              /\ program'[call] = "ok" => Applied(call)
              /\ replies'[call] = "ok" => Applied(call)
    PROVE  Stays /\ UNCHANGED Promise!vars
<1>1. Stays
  BY DEF Stays, PInv, OneUnderWay, Truthful, OnlyFallbackMissing, Awaited, Applied
<1> QED BY <1>1, Stutters

LEMMA HelperPromise ==
    ASSUME PInv,
           \/ helperReads \/ helperEnds
           \/ \E call \in Calls : deny(call) \/ authorize(call) \/ runCommand(call) \/ programEnds(call)
    PROVE  Stays /\ UNCHANGED Promise!vars
<1>1. TypeOK /\ Truthful
  BY DEF PInv, IInv
<1>2. CASE helperReads \/ helperEnds
  <2>1. UNCHANGED <<operation_process_, helper_operation_running_, told, gone, program, applied>>
    BY <1>2 DEF helperReads, helperEnds, client, work
  <2>2. \A call \in Calls : replies'[call] = "ok" => replies[call] = "ok"
    BY <1>1, <1>2 DEF helperReads, helperEnds, reject, reply, TypeOK
  <2> QED BY <1>1, <2>1, <2>2, QuietPromise DEF Truthful
<1>3. ASSUME NEW call \in Calls, deny(call) \/ authorize(call)
      PROVE  Stays /\ UNCHANGED Promise!vars
  <2>1. /\ UNCHANGED <<operation_process_, helper_operation_running_, told, gone, applied>>
        /\ replies' \in {replies, [replies EXCEPT ![call] = "error"]}
        /\ program' \in {program, [program EXCEPT ![call] = "running"]}
        /\ program[call] = "none"
    BY <1>3 DEF deny, authorize, reply, client, helper, work
  <2> QED BY <1>1, <2>1, QuietPromise DEF TypeOK, Truthful
<1>4. ASSUME NEW call \in Calls, runCommand(call)
      PROVE  Stays /\ UNCHANGED Promise!vars
  <2>1. /\ UNCHANGED <<operation_process_, helper_operation_running_, told, gone, applied>>
        /\ replies' = [replies EXCEPT ![call] = IF program[call] = "ok" THEN "ok" ELSE "error"]
        /\ program' = [program EXCEPT ![call] = IF @ = "running" THEN "failed" ELSE @]
    BY <1>4 DEF runCommand, reply, client
  <2> QED BY <1>1, <2>1, QuietPromise DEF TypeOK, Truthful
<1>5. ASSUME NEW call \in Calls, programEnds(call)
      PROVE  Stays /\ UNCHANGED Promise!vars
  <2>1. PICK end \in {"failed"} \cup (IF call \in ToSet(applied) THEN {"ok"} ELSE {}) :
          program' = [program EXCEPT ![call] = end]
    BY <1>5 DEF programEnds
  <2>2. /\ UNCHANGED <<operation_process_, helper_operation_running_, told, gone, replies, applied>>
        /\ program[call] = "running"
        /\ end \in {"failed", "ok"} /\ (end = "ok" => Applied(call))
    BY <1>5, <2>1, AppliedMeans DEF programEnds, client, helper
  <2> QED BY <1>1, <2>1, <2>2, QuietPromise DEF TypeOK, Truthful
<1> QED BY <1>2, <1>3, <1>4, <1>5

LEMMA ApplyPromise ==
    ASSUME PInv, NEW call \in Calls, programApplies(call)
    PROVE  Stays /\ Promise!Apply(call)
<1>1. /\ UNCHANGED <<operation_process_, helper_operation_running_, told, gone, replies, program>>
      /\ applied' = Append(applied, call) /\ applied \in Seq(Calls)
      /\ program[call] = "running" /\ ~Applied(call)
  BY AppliedMeans DEF programApplies, client, helper, PInv, IInv, TypeOK
<1>2. \A other \in Calls : Applied(other) => Applied(other)'
  BY <1>1 DEF Applied
<1>3. Stays
  BY <1>1, <1>2 DEF Stays, PInv, OneUnderWay, Truthful, OnlyFallbackMissing, Awaited
<1>4. \A other \in Calls : StateOf(other)' = StateOf(other)
  BY <1>1, SameState DEF Awaited
<1>5. StateOf(call) \notin {"none", "ok"}
  <2>1. Asked(call) /\ told[call] # <<TRUE>>
    BY <1>1 DEF PInv, IInv, Untouched, Truthful
  <2> QED BY <2>1, StatesAre DEF States
<1> QED BY <1>1, <1>3, <1>4, <1>5 DEF Promise!Apply, Applied

LEMMA NextPromise == PInv /\ [Next]_vars => PInv' /\ [Promise!Next]_(Promise!vars)
<1> SUFFICES ASSUME PInv, [Next]_vars PROVE Stays /\ [Promise!Next]_(Promise!vars)
  BY NextIInv DEF PInv, Stays
<1>1. CASE UNCHANGED vars
  <2>1. UNCHANGED <<operation_process_, helper_operation_running_, told, gone, applied, program, replies>>
    BY <1>1 DEF vars, client, helper, work
  <2> QED BY <2>1, QuietPromise DEF PInv, Truthful
<1>2. ASSUME NEW call \in Calls, managerAsks(call) \/ commandAsks(call)
      PROVE  Stays /\ [Promise!Next]_(Promise!vars)
  BY <1>2, AskPromise DEF Promise!Next, Promise!Calls, Calls
<1>3. ASSUME NEW call \in Calls, programApplies(call)
      PROVE  Stays /\ [Promise!Next]_(Promise!vars)
  BY <1>3, ApplyPromise DEF Promise!Next, Promise!Calls, Calls
<1> QED BY <1>1, <1>2, <1>3, ClientPromise, ClientEndsPromise, HelperPromise DEF Next

\* The clients, the helper and the programs together do what BootPromise allows: one
\* operation under way for a client, each applied once, and none reported as done
\* before it is (the safety part of KeepsPromise).
THEOREM ImplementsPromise == Spec => Promise!Spec
BY InitPromise, NextPromise, PTL DEF Spec, Promise!Spec

=============================================================================
