------------------------- MODULE HelperQueueProofs -------------------------
(***************************************************************************)
(* Theorems about HelperQueue, for every set of calls and every maxQueued, *)
(* and about the two queues of MCHelperQueue.  What they have in common is *)
(* said of QueueStep, in which a new call cuts the queue to any length.    *)
(***************************************************************************)
EXTENDS MCHelperQueue, SequenceTheorems, TLAPS

\* A new call that cuts the queue to k entries.
Submits(c, k) ==
    LET kept    == SubSeq(queue, 1, k)
        dropped == {queue[i] : i \in (k + 1)..Len(queue)}
    IN  /\ pc[c] = "idle"
        /\ queue' = Append(kept, c)
        /\ cancelled' = cancelled \cup dropped
        /\ awake' = awake \cup dropped \cup (IF kept = <<>> THEN {c} ELSE {})
        /\ pc' = [pc EXCEPT ![c] = "waiting"]
        /\ submitted' = Append(submitted, c)
        /\ UNCHANGED <<result, answered>>

\* What a call does after it was made.
Goes(c) == \/ SettleCancelled(c) \/ RunHelper(c) \/ HelperSucceeds(c) \/ HelperFails(c) \/ Retry(c)

QueueStep ==
    \/ \E c \in Calls : Goes(c) \/ \E k \in 0..Len(queue) : Submits(c, k)
    \/ UNCHANGED vars

\* A step of a queue without a limit.
UnboundedStep ==
    \/ \E c \in Calls : Goes(c) \/ Submits(c, Len(queue))
    \/ UNCHANGED vars

\* A queue that a call leaves is still a queue of calls, and so is its prefix.
LEMMA RemoveAtType ==
    ASSUME NEW S, NEW q \in Seq(S), NEW i \in 1..Len(q)
    PROVE  /\ RemoveAt(q, i) \in Seq(S)
           /\ i = 1 => RemoveAt(q, i) = Tail(q)
<1> DEFINE left == SubSeq(q, 1, i - 1)
           right == SubSeq(q, i + 1, Len(q))
<1>1. left \in Seq(S) /\ right \in Seq(S)
  OBVIOUS
<1>2. RemoveAt(q, i) = left \o right
  BY DEF RemoveAt
<1>3. left \o right \in Seq(S)
  BY <1>1
<1>4. CASE i = 1
  <2>1. left = <<>>
    BY <1>4
  <2>2. left \o right = right
    BY <1>1, <2>1, ConcatEmptySeq
  <2>3. right = Tail(q)
    BY <1>4
  <2> QED
    BY <1>2, <1>3, <2>2, <2>3
<1> QED
  BY <1>2, <1>3, <1>4

\* The pop loop leaves a prefix of the queue.
LEMMA KeptLengthRange ==
    ASSUME queue \in Seq(Calls)
    PROVE  /\ KeptLength \in 0..Len(queue)
           /\ MaxQueued = Undefined => KeptLength = Len(queue)
  BY MaxQueuedAssumption DEF KeptLength

\* Whatever the limit, a step of the queue is one that cuts it to some length.
LEMMA NextIsStep ==
    ASSUME TypeOK, [Next]_vars
    PROVE  QueueStep /\ (MaxQueued = Undefined => UnboundedStep)
<1>1. ASSUME NEW c \in Calls, QueuedHelper(c) PROVE Submits(c, KeptLength)
  BY <1>1 DEF QueuedHelper, Submits
<1>2. KeptLength \in 0..Len(queue) /\ (MaxQueued = Undefined => KeptLength = Len(queue))
  BY KeptLengthRange DEF TypeOK
<1>3. ASSUME NEW c \in Calls, CallStep(c) PROVE QueuedHelper(c) \/ Goes(c)
  BY <1>3 DEF CallStep, Goes, GiveUp, HelperExitsCancelled
<1> QED
  BY <1>1, <1>2, <1>3 DEF Next, AllSettled, QueueStep, UnboundedStep

\* So is a step of the 'deliver' queue, which cuts nothing.
LEMMA DeliverIsStep ==
    ASSUME TypeOK, D!Next
    PROVE  QueueStep /\ UnboundedStep
<1>1. Len(queue) \in 0..Len(queue)
  BY DEF TypeOK
<1>2. ASSUME NEW c \in Calls, D!QueuedHelper(c) PROVE Submits(c, Len(queue))
  <2>1. D!KeptLength = Len(queue)
    BY DEF D!KeptLength
  <2>2. Submits(c, D!KeptLength)
    BY <1>2 DEF D!QueuedHelper, Submits
  <2> QED
    BY <2>1, <2>2
<1>3. ASSUME NEW c \in Calls, D!CallStep(c) PROVE D!QueuedHelper(c) \/ Goes(c)
  <2>1. D!LeaveAndWakeNext(c) => LeaveAndWakeNext(c)
    BY DEF D!LeaveAndWakeNext, D!IndexOf, D!RemoveAt, LeaveAndWakeNext, IndexOf, RemoveAt
  <2>2. D!SettleCancelled(c) => SettleCancelled(c)
    BY <2>1 DEF D!SettleCancelled, SettleCancelled
  <2>3. D!HelperSucceeds(c) => HelperSucceeds(c)
    BY <2>1 DEF D!HelperSucceeds, HelperSucceeds
  <2>4. D!RunHelper(c) \/ D!HelperFails(c) \/ D!Retry(c) => Goes(c)
    BY DEF D!RunHelper, D!HelperFails, D!Retry, Goes, RunHelper, HelperFails, Retry
  <2> QED
    BY <1>3, <2>2, <2>3, <2>4 DEF D!CallStep, D!GiveUp, D!HelperExitsCancelled, Goes
<1>4. D!AllSettled => UNCHANGED vars
  BY DEF D!AllSettled, D!vars, vars
<1> QED
  BY <1>1, <1>2, <1>3, <1>4 DEF D!Next, QueueStep, UnboundedStep

\* Every queue of calls that an action leaves behind is one, so that the
\* handlers of queuedHelper keep the types of their state.
LEMMA LeaveType ==
    ASSUME NEW c \in Calls, TypeOK, LeaveAndWakeNext(c)
    PROVE  queue' \in Seq(Calls) /\ awake' \subseteq Calls
<1>1. queue' \in Seq(Calls)
  <2>1. CASE \E i \in DOMAIN queue : queue[i] = c
    <3>1. IndexOf(c) \in 1..Len(queue)
      BY <2>1 DEF IndexOf, TypeOK
    <3> QED
      BY <2>1, <3>1, RemoveAtType DEF LeaveAndWakeNext, TypeOK
  <2>2. CASE ~ \E i \in DOMAIN queue : queue[i] = c
    BY <2>2 DEF LeaveAndWakeNext, TypeOK
  <2> QED
    BY <2>1, <2>2
<1>2. queue' # <<>> => queue'[1] \in Calls
  BY <1>1
<1> QED
  BY <1>1, <1>2 DEF LeaveAndWakeNext, TypeOK

\* The types of the state of a queue, whatever the calls do.
LEMMA StepKeepsTypes ==
    ASSUME TypeOK, QueueStep
    PROVE  TypeOK'
<1>1. ASSUME NEW c \in Calls, NEW k \in 0..Len(queue), Submits(c, k) PROVE TypeOK'
  <2> DEFINE kept == SubSeq(queue, 1, k)
  <2>1. k \in 0..Len(queue) /\ Len(queue) \in Nat
    BY DEF TypeOK
  <2>2. kept \in Seq(Calls)
    BY <2>1 DEF TypeOK
  <2>3. \A i \in (k + 1)..Len(queue) : queue[i] \in Calls
    BY <2>1 DEF TypeOK
  <2>4. queue' = Append(kept, c)
    BY <1>1 DEF Submits
  <2>5. queue' \in Seq(Calls)
    BY <2>2, <2>4
  <2>6. awake' \subseteq Calls /\ cancelled' \subseteq Calls
    BY <1>1, <2>3 DEF Submits, TypeOK
  <2> QED
    BY <1>1, <2>5, <2>6 DEF Submits, TypeOK, PcValues
<1>2. ASSUME NEW c \in Calls, SettleCancelled(c) PROVE TypeOK'
  <2>1. queue' \in Seq(Calls) /\ awake' \subseteq Calls
    BY <1>2, LeaveType DEF SettleCancelled
  <2> QED
    BY <1>2, <2>1 DEF SettleCancelled, TypeOK, PcValues, Results
<1>3. ASSUME NEW c \in Calls, RunHelper(c) PROVE TypeOK'
  BY <1>3 DEF RunHelper, TypeOK, PcValues
<1>4. ASSUME NEW c \in Calls, HelperSucceeds(c) PROVE TypeOK'
  <2>1. queue' \in Seq(Calls) /\ awake' \subseteq Calls
    BY <1>4, LeaveType DEF HelperSucceeds
  <2> QED
    BY <1>4, <2>1 DEF HelperSucceeds, TypeOK, PcValues, Results
<1>5. ASSUME NEW c \in Calls, HelperFails(c) PROVE TypeOK'
  BY <1>5 DEF HelperFails, TypeOK, PcValues
<1>6. ASSUME NEW c \in Calls, Retry(c) PROVE TypeOK'
  BY <1>6 DEF Retry, TypeOK, PcValues
<1>7. CASE UNCHANGED vars
  BY <1>7 DEF vars, TypeOK
<1> QED
  BY <1>1, <1>2, <1>3, <1>4, <1>5, <1>6, <1>7 DEF QueueStep, Goes

\* At the start nothing has been called.
LEMMA StartIsWell == Init => TypeOK /\ QueueInv /\ cancelled = {}
BY DEF Init, TypeOK, PcValues, Results, QueueInv, QueueHoldsLiveCalls, OnlyHeadAwake,
       RunningIsAwake, CancelledIsAwake, Live, Pending

\* The state of a helper queue keeps its types whatever the calls do.
THEOREM TypeCorrect == Spec => []TypeOK
<1>1. TypeOK /\ [Next]_vars => TypeOK'
  BY NextIsStep, StepKeepsTypes
<1> QED
  BY <1>1, StartIsWell, PTL DEF Spec

-----------------------------------------------------------------------------

\* A call that settles while it is still queued was the head, and leaves the
\* others in order with the next one awake.
LEMMA LiveLeaves ==
    ASSUME NEW c \in Calls, TypeOK, QueueInv, LeaveAndWakeNext(c),
           Live(c), c \in awake
    PROVE  /\ queue # <<>> /\ queue[1] = c
           /\ queue' = Tail(queue)
<1>1. PICK i \in DOMAIN queue : queue[i] = c
  BY DEF QueueInv, QueueHoldsLiveCalls
<1>2. i = 1
  BY <1>1 DEF QueueInv, OnlyHeadAwake
<1>3. IndexOf(c) = 1
  BY <1>1, <1>2 DEF IndexOf, QueueInv, QueueHoldsLiveCalls
<1>4. queue # <<>> /\ 1 \in 1..Len(queue)
  BY <1>1, <1>2 DEF TypeOK
<1>5. RemoveAt(queue, 1) = Tail(queue)
  BY <1>4, RemoveAtType DEF TypeOK
<1> QED
  BY <1>1, <1>2, <1>3, <1>4, <1>5 DEF LeaveAndWakeNext

\* A call that settles after it was cancelled finds itself out of the queue,
\* whose head is awake already.
LEMMA CancelledLeaves ==
    ASSUME NEW c \in Calls, TypeOK, QueueInv, LeaveAndWakeNext(c), c \in cancelled
    PROVE  queue' = queue /\ awake' = awake
<1>1. ~ \E i \in DOMAIN queue : queue[i] = c
  BY DEF QueueInv, QueueHoldsLiveCalls, Live
<1>2. queue' = queue
  BY <1>1 DEF LeaveAndWakeNext
<1>3. queue # <<>> => 1 \in DOMAIN queue
  BY DEF TypeOK
<1> QED
  BY <1>2, <1>3 DEF LeaveAndWakeNext, QueueInv, OnlyHeadAwake

\* A new call leaves the queue consistent: those it cancels leave it, and it
\* is awake exactly when it is alone in it.
LEMMA SubmitKeepsQueue ==
    ASSUME NEW c \in Calls, NEW k \in 0..Len(queue), TypeOK, QueueInv, Submits(c, k)
    PROVE  QueueInv'
<1> DEFINE kept    == SubSeq(queue, 1, k)
           dropped == {queue[i] : i \in (k + 1)..Len(queue)}
<1>1. k \in 0..Len(queue) /\ Len(queue) \in Nat /\ DOMAIN queue = 1..Len(queue)
  BY DEF TypeOK
<1>2. kept \in Seq(Calls) /\ Len(kept) = k /\ \A i \in 1..k : kept[i] = queue[i]
  BY <1>1 DEF TypeOK
<1>3. /\ queue' = Append(kept, c)
      /\ cancelled' = cancelled \cup dropped
      /\ awake' = awake \cup dropped \cup (IF kept = <<>> THEN {c} ELSE {})
      /\ pc' = [pc EXCEPT ![c] = "waiting"]
      /\ pc[c] = "idle"
  BY DEF Submits
<1> HIDE DEF kept
<1>4. /\ DOMAIN queue' = 1..(k + 1)
      /\ \A i \in 1..k : queue'[i] = queue[i]
      /\ queue'[k + 1] = c
  BY <1>1, <1>2, <1>3
<1>5. kept = <<>> <=> k = 0
  BY <1>1, <1>2
<1>6. /\ c \notin dropped /\ c \notin cancelled
      /\ \A i \in DOMAIN queue : queue[i] # c
  BY <1>1, <1>3, SMTT(30) DEF QueueInv, QueueHoldsLiveCalls, CancelledIsAwake, Live, Pending
<1>7. c \notin awake
  BY <1>3 DEF QueueInv, CancelledIsAwake
<1>8. pc' \in [Calls -> PcValues] /\ \A d \in Calls \ {c} : pc'[d] = pc[d]
  BY <1>3 DEF TypeOK, PcValues
<1>9. \A i \in 1..k : queue[i] \notin dropped
  BY <1>1 DEF QueueInv, QueueHoldsLiveCalls
<1>10. QueueHoldsLiveCalls'
  <2>1. \A i, j \in DOMAIN queue' : queue'[i] = queue'[j] => i = j
    BY <1>1, <1>4, <1>6 DEF QueueInv, QueueHoldsLiveCalls
  <2>2. Live(c)' /\ \E i \in DOMAIN queue' : queue'[i] = c
    BY <1>1, <1>3, <1>4, <1>6 DEF Live, Pending, TypeOK
  <2>3. ASSUME NEW d \in Calls, d # c
        PROVE  Live(d)' <=> \E i \in DOMAIN queue' : queue'[i] = d
    <3>1. Live(d)' <=> Live(d) /\ d \notin dropped
      BY <1>3, <1>8, <2>3 DEF Live, Pending
    <3>2. Live(d) <=> \E i \in DOMAIN queue : queue[i] = d
      BY DEF QueueInv, QueueHoldsLiveCalls
    <3>3. (\E i \in DOMAIN queue' : queue'[i] = d) <=> \E i \in 1..k : queue[i] = d
      BY <1>1, <1>4, <2>3
    <3>4. (\E i \in DOMAIN queue : queue[i] = d) /\ d \notin dropped
              <=> \E i \in 1..k : queue[i] = d
      BY <1>1, <1>9
    <3> QED
      BY <3>1, <3>2, <3>3, <3>4
  <2> QED
    BY <2>1, <2>2, <2>3 DEF QueueHoldsLiveCalls
<1>11. OnlyHeadAwake'
  <2>1. \A i \in 1..k : queue[i] \in awake' <=> queue[i] \in awake
    BY <1>1, <1>3, <1>6, <1>9
  <2>2. c \in awake' <=> k = 0
    BY <1>3, <1>5, <1>6, <1>7
  <2> QED
    BY <1>1, <1>4, <2>1, <2>2 DEF QueueInv, OnlyHeadAwake
<1>12. RunningIsAwake'
  BY <1>3, <1>8 DEF QueueInv, RunningIsAwake, TypeOK
<1>13. CancelledIsAwake'
  <2>1. \A i \in DOMAIN queue : queue[i] \in Calls /\ pc[queue[i]] # "idle"
    BY DEF QueueInv, QueueHoldsLiveCalls, Live, Pending, TypeOK
  <2>2. \A d \in dropped : d \in Calls /\ pc[d] # "idle"
    BY <1>1, <2>1
  <2> QED
    BY <1>3, <2>2 DEF QueueInv, CancelledIsAwake, TypeOK
<1> QED
  BY <1>10, <1>11, <1>12, <1>13 DEF QueueInv

\* A live call that settles leaves the queue consistent: the next one is awake.
LEMMA LiveSettleKeepsQueue ==
    ASSUME NEW c \in Calls, TypeOK, QueueInv, HelperSucceeds(c)
    PROVE  QueueInv'
<1>1. Live(c) /\ c \in awake /\ LeaveAndWakeNext(c)
  BY DEF HelperSucceeds, Live, Pending, QueueInv, RunningIsAwake
<1>2. queue # <<>> /\ queue[1] = c /\ queue' = Tail(queue)
  BY <1>1, LiveLeaves
<1>3. /\ Len(queue) \in Nat \ {0} /\ DOMAIN queue = 1..Len(queue)
      /\ DOMAIN queue' = 1..(Len(queue) - 1)
      /\ \A i \in DOMAIN queue' : queue'[i] = queue[i + 1]
      /\ queue' # <<>> <=> Len(queue) > 1
  <2>1. queue \in Seq(Calls) /\ Len(queue) \in Nat \ {0} /\ DOMAIN queue = 1..Len(queue)
    BY <1>2 DEF TypeOK
  <2>2. /\ queue' \in Seq(Calls) /\ Len(queue') = Len(queue) - 1
        /\ \A i \in 1..(Len(queue) - 1) : queue'[i] = queue[i + 1]
    BY <1>2, <2>1, HeadTailProperties
  <2>3. queue' # <<>> <=> Len(queue') > 0
    BY <2>2
  <2> QED
    BY <2>1, <2>2, <2>3
<1>4. /\ pc' = [pc EXCEPT ![c] = "settled"] /\ cancelled' = cancelled
      /\ awake' = IF queue' # <<>> THEN awake \cup {queue'[1]} ELSE awake
  BY <1>1 DEF HelperSucceeds, LeaveAndWakeNext
<1>5. /\ \A i, j \in DOMAIN queue : queue[i] = queue[j] => i = j
      /\ \A d \in Calls : Live(d) <=> \E i \in DOMAIN queue : queue[i] = d
  BY DEF QueueInv, QueueHoldsLiveCalls
<1>6. QueueHoldsLiveCalls'
  <2>1. \A i, j \in DOMAIN queue' : queue'[i] = queue'[j] => i = j
    BY <1>3, <1>5
  <2>2. ~ Live(c)' /\ ~ \E i \in DOMAIN queue' : queue'[i] = c
    BY <1>2, <1>3, <1>4, <1>5 DEF Live, Pending, TypeOK
  <2>3. ASSUME NEW d \in Calls, d # c
        PROVE  Live(d)' <=> \E i \in DOMAIN queue' : queue'[i] = d
    <3>1. Live(d)' <=> Live(d)
      BY <1>4, <2>3 DEF Live, Pending, TypeOK
    <3>2. (\E i \in DOMAIN queue' : queue'[i] = d) <=> \E i \in DOMAIN queue : queue[i] = d
      <4>1. ASSUME NEW i \in DOMAIN queue, queue[i] = d
            PROVE  i - 1 \in DOMAIN queue' /\ queue'[i - 1] = d
        BY <1>2, <1>3, <2>3, <4>1
      <4>2. ASSUME NEW i \in DOMAIN queue', queue'[i] = d
            PROVE  i + 1 \in DOMAIN queue /\ queue[i + 1] = d
        BY <1>3, <4>2
      <4> QED
        BY <4>1, <4>2
    <3> QED
      BY <1>5, <3>1, <3>2
  <2> QED
    BY <2>1, <2>2, <2>3 DEF QueueHoldsLiveCalls
<1>7. OnlyHeadAwake'
  <2>1. \A i \in DOMAIN queue' : queue'[i] \notin awake
    BY <1>3 DEF QueueInv, OnlyHeadAwake
  <2> QED
    BY <1>3, <1>4, <1>6, <2>1 DEF OnlyHeadAwake, QueueHoldsLiveCalls
<1>8. RunningIsAwake'
  BY <1>4 DEF QueueInv, RunningIsAwake, TypeOK
<1>9. CancelledIsAwake'
  <2>1. ASSUME queue' # <<>> PROVE Live(queue'[1]) /\ queue'[1] \in Calls
    <3>1. 2 \in DOMAIN queue /\ queue'[1] = queue[2]
      BY <1>3, <2>1
    <3>2. queue[2] \in Calls
      BY <3>1 DEF TypeOK
    <3> QED
      BY <1>5, <3>1, <3>2
  <2> QED
    BY <1>4, <2>1 DEF QueueInv, CancelledIsAwake, Live, Pending, TypeOK
<1> QED
  BY <1>6, <1>7, <1>8, <1>9 DEF QueueInv

\* A cancelled call that settles leaves the queue as it is.
LEMMA CancelledSettleKeepsQueue ==
    ASSUME NEW c \in Calls, TypeOK, QueueInv, SettleCancelled(c)
    PROVE  QueueInv'
<1>1. queue' = queue /\ awake' = awake /\ cancelled' = cancelled
  BY CancelledLeaves DEF SettleCancelled
<1>2. c \in cancelled /\ pc' = [pc EXCEPT ![c] = "settled"]
  BY DEF SettleCancelled
<1>3. \A d \in Calls : Live(d)' <=> Live(d)
  BY <1>1, <1>2 DEF Live, Pending, TypeOK
<1>4. QueueHoldsLiveCalls' /\ OnlyHeadAwake'
  BY <1>1, <1>3 DEF QueueInv, QueueHoldsLiveCalls, OnlyHeadAwake
<1>5. RunningIsAwake' /\ CancelledIsAwake'
  BY <1>1, <1>2 DEF QueueInv, RunningIsAwake, CancelledIsAwake, TypeOK
<1> QED
  BY <1>4, <1>5 DEF QueueInv

\* A call that moves between waiting, executing and backoff stays live, and
\* the queue does not change.
LEMMA ProgressKeepsQueue ==
    ASSUME NEW c \in Calls, TypeOK, QueueInv,
           RunHelper(c) \/ HelperFails(c) \/ Retry(c)
    PROVE  QueueInv'
<1>1. /\ queue' = queue /\ awake' = awake /\ cancelled' = cancelled
      /\ c \in awake
      /\ Pending(c) /\ \E v \in {"waiting", "executing", "backoff"} : pc' = [pc EXCEPT ![c] = v]
  BY DEF RunHelper, HelperFails, Retry, QueueInv, RunningIsAwake, Pending
<1>2. \A d \in Calls : Live(d)' <=> Live(d)
  BY <1>1 DEF Live, Pending, TypeOK
<1>3. QueueHoldsLiveCalls' /\ OnlyHeadAwake'
  BY <1>1, <1>2 DEF QueueInv, QueueHoldsLiveCalls, OnlyHeadAwake
<1>4. RunningIsAwake' /\ CancelledIsAwake'
  BY <1>1 DEF QueueInv, RunningIsAwake, CancelledIsAwake, TypeOK
<1> QED
  BY <1>3, <1>4 DEF QueueInv

\* So does every step.
LEMMA StepKeepsQueue ==
    ASSUME TypeOK, QueueInv, QueueStep
    PROVE  QueueInv'
<1>1. CASE UNCHANGED vars
  BY <1>1 DEF vars, QueueInv, QueueHoldsLiveCalls, OnlyHeadAwake, RunningIsAwake,
              CancelledIsAwake, Live, Pending
<1>2. ASSUME NEW c \in Calls, Goes(c) PROVE QueueInv'
  BY <1>2, LiveSettleKeepsQueue, CancelledSettleKeepsQueue, ProgressKeepsQueue DEF Goes
<1> QED
  BY <1>1, <1>2, SubmitKeepsQueue DEF QueueStep

\* The queue holds each live call once, and its head alone is awake, in every
\* reachable state: no wake-up is lost and none is given out of turn.
THEOREM QueueConsistent == Spec => []QueueInv
<1>1. TypeOK /\ QueueInv /\ [Next]_vars => QueueInv'
  BY NextIsStep, StepKeepsQueue
<1> QED
  BY <1>1, StartIsWell, TypeCorrect, PTL DEF Spec

\* Of the calls that were not cancelled at most one is past its wait.
OneLiveHelper ==
    \A c, d \in Calls :
        /\ Live(c) /\ pc[c] \in {"executing", "backoff"}
        /\ Live(d) /\ pc[d] \in {"executing", "backoff"}
        => c = d

\* Only the head of the queue is awake, so that the calls whose answer will be
\* used have at most one helper.
LEMMA LiveExclude == TypeOK /\ QueueInv => OneLiveHelper
<1> SUFFICES ASSUME TypeOK, QueueInv, NEW c \in Calls, NEW d \in Calls,
                    Live(c), Live(d),
                    pc[c] \in {"executing", "backoff"}, pc[d] \in {"executing", "backoff"}
             PROVE  c = d
  BY DEF OneLiveHelper
<1>1. \E i \in DOMAIN queue : queue[i] = c /\ i = 1
  BY DEF QueueInv, QueueHoldsLiveCalls, OnlyHeadAwake, RunningIsAwake
<1>2. \E i \in DOMAIN queue : queue[i] = d /\ i = 1
  BY DEF QueueInv, QueueHoldsLiveCalls, OnlyHeadAwake, RunningIsAwake
<1> QED
  BY <1>1, <1>2

\* What has answered is over and was not cancelled; what was asked last is not
\* cancelled either.
AnsweredInv ==
    /\ \A c \in Calls : result[c] = "value" => pc[c] = "settled" /\ c \notin cancelled
    /\ submitted # <<>> => Last(submitted) \notin cancelled

\* For every set of calls and every maxQueued: a query that was superseded
\* never answers, and the newest call is not superseded (chain-cosmos-sdk.js
\* queuedHelper).
THEOREM SupersededNeverAnswer == Spec => []OnlyCurrentAnswers
<1>1. Init => AnsweredInv
  BY DEF Init, AnsweredInv
<1>2. TypeOK /\ QueueInv /\ AnsweredInv /\ [Next]_vars => AnsweredInv'
  <2> SUFFICES ASSUME TypeOK, QueueInv, AnsweredInv, [Next]_vars PROVE AnsweredInv'
    OBVIOUS
  <2>1. ASSUME NEW c \in Calls, QueuedHelper(c) PROVE AnsweredInv'
    <3> DEFINE dropped == {queue[i] : i \in (KeptLength + 1)..Len(queue)}
    <3>1. /\ pc[c] = "idle" /\ cancelled' = cancelled \cup dropped
          /\ pc' = [pc EXCEPT ![c] = "waiting"] /\ submitted' = Append(submitted, c)
          /\ result' = result
      BY <2>1 DEF QueuedHelper
    <3>2. KeptLength \in 0..Len(queue) /\ DOMAIN queue = 1..Len(queue) /\ Len(queue) \in Nat
      BY KeptLengthRange DEF TypeOK
    \* Only calls that are still to answer leave the queue.
    <3>3. \A d \in dropped : d \in Calls /\ Pending(d)
      BY <3>2 DEF QueueInv, QueueHoldsLiveCalls, Live, TypeOK
    <3> HIDE DEF dropped
    <3>4. c \notin cancelled /\ c \notin dropped
      BY <3>1, <3>3 DEF QueueInv, CancelledIsAwake, Pending
    <3>5. Last(submitted') = c /\ submitted \in Seq(Calls)
      BY <3>1 DEF Last, TypeOK
    <3>6. \A d \in Calls : result'[d] = "value" => pc'[d] = "settled" /\ d \notin cancelled'
      BY <3>1, <3>3 DEF AnsweredInv, Pending, TypeOK
    <3>7. Last(submitted') \notin cancelled'
      BY <3>1, <3>4, <3>5
    <3> QED
      BY <3>6, <3>7 DEF AnsweredInv, Last
  <2>2. ASSUME NEW c \in Calls, SettleCancelled(c) PROVE AnsweredInv'
    BY <2>2 DEF SettleCancelled, AnsweredInv, TypeOK, Last
  <2>3. ASSUME NEW c \in Calls, HelperSucceeds(c) PROVE AnsweredInv'
    BY <2>3 DEF HelperSucceeds, AnsweredInv, TypeOK, Last
  <2>4. ASSUME NEW c \in Calls, RunHelper(c) \/ HelperFails(c) \/ Retry(c) PROVE AnsweredInv'
    BY <2>4 DEF RunHelper, HelperFails, Retry, AnsweredInv, TypeOK, Last
  <2>5. CASE UNCHANGED vars
    BY <2>5 DEF vars, AnsweredInv, Last
  <2> QED
    BY <2>1, <2>2, <2>3, <2>4, <2>5
       DEF Next, CallStep, GiveUp, HelperExitsCancelled, AllSettled
<1>3. TypeOK /\ QueueInv /\ AnsweredInv => OnlyCurrentAnswers
  <2> SUFFICES ASSUME TypeOK, AnsweredInv, NEW c \in cancelled PROVE result[c] # "value"
    BY DEF OnlyCurrentAnswers, AnsweredInv
  <2> QED
    BY DEF AnsweredInv, TypeOK
<1> QED
  BY <1>1, <1>2, <1>3, TypeCorrect, QueueConsistent, PTL DEF Spec

\* Without a limit no step cancels a call.
LEMMA NoneCancelled ==
    ASSUME TypeOK, cancelled = {}, UnboundedStep
    PROVE  cancelled' = {}
<1>1. (Len(queue) + 1)..Len(queue) = {}
  BY DEF TypeOK
<1> QED
  BY <1>1 DEF UnboundedStep, Submits, Goes, SettleCancelled, RunHelper, HelperSucceeds,
              HelperFails, Retry, vars

\* Without a limit nothing is ever cancelled.
LEMMA NothingCancelled ==
    ASSUME MaxQueued = Undefined
    PROVE  Spec => [](cancelled = {})
<1>1. TypeOK /\ cancelled = {} /\ [Next]_vars => (cancelled = {})'
  BY NextIsStep, NoneCancelled
<1> QED
  BY <1>1, StartIsWell, TypeCorrect, PTL DEF Spec

\* If nothing is cancelled, all that run are live, hence one.
LEMMA OneRuns == TypeOK /\ QueueInv /\ cancelled = {} => OneHelperRunning
BY LiveExclude DEF OneLiveHelper, OneHelperRunning, Live, Pending

\* The 'deliver' queue, which has no limit, runs one helper process at a time:
\* two transactions never race for a sequence number (l.368-372).
THEOREM DeliveriesSerialised ==
    ASSUME MaxQueued = Undefined
    PROVE  Spec => []OneHelperRunning
BY OneRuns, TypeCorrect, QueueConsistent, NothingCancelled, PTL

-----------------------------------------------------------------------------

\* Appending to the second part of a concatenation, and moving the head of the
\* second part to the end of the first.
LEMMA MoveHead ==
    ASSUME NEW S, NEW s \in Seq(S), NEW t \in Seq(S), NEW e \in S
    PROVE  /\ Append(s \o t, e) = s \o Append(t, e)
           /\ t # <<>> => s \o t = Append(s, t[1]) \o Tail(t)
<1>1. Append(s \o t, e) = s \o Append(t, e)
  <2>1. Append(s \o t, e) \in Seq(S) /\ s \o Append(t, e) \in Seq(S)
    OBVIOUS
  <2>2. Len(Append(s \o t, e)) = Len(s \o Append(t, e))
    OBVIOUS
  <2>3. \A i \in 1..Len(Append(s \o t, e)) : Append(s \o t, e)[i] = (s \o Append(t, e))[i]
    OBVIOUS
  <2> QED
    BY <2>1, <2>2, <2>3, SeqEqual
<1>2. ASSUME t # <<>> PROVE s \o t = Append(s, t[1]) \o Tail(t)
  <2>1. /\ t[1] \in S /\ Tail(t) \in Seq(S) /\ Len(Tail(t)) = Len(t) - 1
        /\ \A i \in 1..(Len(t) - 1) : Tail(t)[i] = t[i + 1]
    BY <1>2, HeadTailProperties
  <2> DEFINE u == Append(s, t[1])
  <2>2. /\ u \in Seq(S) /\ Len(u) = Len(s) + 1 /\ u[Len(s) + 1] = t[1]
        /\ \A i \in 1..Len(s) : u[i] = s[i]
    BY <2>1
  <2> HIDE DEF u
  <2>3. /\ s \o t \in Seq(S) /\ Len(s \o t) = Len(s) + Len(t)
        /\ \A i \in 1..(Len(s) + Len(t)) :
              (s \o t)[i] = IF i <= Len(s) THEN s[i] ELSE t[i - Len(s)]
    BY ConcatProperties
  <2>4. /\ u \o Tail(t) \in Seq(S) /\ Len(u \o Tail(t)) = Len(s) + Len(t)
        /\ \A i \in 1..(Len(s) + Len(t)) :
              (u \o Tail(t))[i] = IF i <= Len(s) + 1 THEN u[i] ELSE Tail(t)[i - Len(s) - 1]
    <3>1. /\ u \o Tail(t) \in Seq(S) /\ Len(u \o Tail(t)) = Len(u) + Len(Tail(t))
          /\ \A i \in 1..(Len(u) + Len(Tail(t))) :
                (u \o Tail(t))[i] = IF i <= Len(u) THEN u[i] ELSE Tail(t)[i - Len(u)]
      BY <2>1, <2>2, ConcatProperties
    <3>2. Len(s) \in Nat /\ Len(t) \in Nat
      OBVIOUS
    <3> QED
      BY <2>1, <2>2, <3>1, <3>2
  <2>5. ASSUME NEW i \in 1..(Len(s) + Len(t)) PROVE (s \o t)[i] = (u \o Tail(t))[i]
    <3>1. Len(s) \in Nat /\ Len(t) \in Nat
      OBVIOUS
    <3>2. CASE i <= Len(s)
      BY <2>2, <2>3, <2>4, <3>1, <3>2
    <3>3. CASE i = Len(s) + 1
      BY <2>2, <2>3, <2>4, <3>1, <3>3
    <3>4. CASE i > Len(s) + 1
      <4>1. i - Len(s) - 1 \in 1..(Len(t) - 1)
        BY <3>1, <3>4
      <4>2. Tail(t)[i - Len(s) - 1] = t[i - Len(s)]
        BY <2>1, <3>1, <4>1
      <4> QED
        BY <2>3, <2>4, <3>1, <3>4, <4>2
    <3>5. i <= Len(s) \/ i = Len(s) + 1 \/ i > Len(s) + 1
      BY <3>1
    <3> QED
      BY <3>2, <3>3, <3>4, <3>5
  <2>6. s \o t = u \o Tail(t)
    BY <2>3, <2>4, <2>5, SeqEqual
  <2> QED
    BY <2>6 DEF u
<1> QED
  BY <1>1, <1>2

\* What each action does to an unbounded queue in which nothing is cancelled.
LEMMA UnboundedSubmit ==
    ASSUME NEW c \in Calls, TypeOK, Submits(c, Len(queue))
    PROVE  queue' = Append(queue, c)
<1>1. SubSeq(queue, 1, Len(queue)) = queue
  BY SubSeqFull DEF TypeOK
<1> QED
  BY <1>1 DEF Submits

\* Without a limit the answers come in the order of the calls, through any
\* number of failed attempts.
THEOREM DeliveriesInOrder ==
    ASSUME MaxQueued = Undefined
    PROVE  Spec => []FirstInFirstOut
<1> DEFINE Inv == submitted = answered \o queue
<1>1. Init => Inv
  BY DEF Init
<1>2. TypeOK /\ QueueInv /\ cancelled = {} /\ Inv /\ [Next]_vars => Inv'
  <2> SUFFICES ASSUME TypeOK, QueueInv, cancelled = {}, Inv, UnboundedStep PROVE Inv'
    BY NextIsStep
  <2>1. ASSUME NEW c \in Calls, Submits(c, Len(queue)) PROVE Inv'
    <3>1. queue' = Append(queue, c) /\ submitted' = Append(submitted, c) /\ answered' = answered
      BY <2>1, UnboundedSubmit DEF Submits
    <3>2. Append(answered \o queue, c) = answered \o Append(queue, c)
      <4>1. answered \in Seq(Calls) /\ queue \in Seq(Calls) /\ c \in Calls
        BY DEF TypeOK
      <4> QED
        BY ONLY <4>1, MoveHead
    <3> QED
      BY <3>1, <3>2
  <2>2. ASSUME NEW c \in Calls, HelperSucceeds(c) PROVE Inv'
    <3>1. Live(c) /\ c \in awake /\ LeaveAndWakeNext(c)
      BY <2>2 DEF HelperSucceeds, Live, Pending, QueueInv, RunningIsAwake
    <3>2. queue # <<>> /\ queue[1] = c /\ queue' = Tail(queue)
      BY <3>1, LiveLeaves
    <3>3. submitted' = submitted /\ answered' = Append(answered, c)
      BY <2>2 DEF HelperSucceeds
    <3> QED
      BY <3>2, <3>3, MoveHead DEF TypeOK
  <2> QED
    BY <2>1, <2>2 DEF UnboundedStep, Goes, SettleCancelled, RunHelper, HelperFails, Retry, vars
<1>3. Inv => FirstInFirstOut
  BY DEF FirstInFirstOut
<1> QED
  BY <1>1, <1>2, <1>3, TypeCorrect, QueueConsistent, NothingCancelled, PTL DEF Spec

\* A step without a limit is one of the serial helper, or none of it.
LEMMA StepIsSerial ==
    ASSUME TypeOK, QueueInv, cancelled = {}, UnboundedStep
    PROVE  [Serial!Next]_(Serial!vars)
<1> DEFINE executing == {c \in Calls : pc[c] = "executing"}
<1>0. OneHelperRunning
  BY OneRuns
<1>1. ASSUME NEW c \in Calls, Submits(c, Len(queue)) PROVE Serial!Join(c)
  <2>1. executing' = executing
    BY <1>1 DEF Submits, TypeOK
  <2> QED
    BY <1>1, <2>1, UnboundedSubmit DEF Serial!Join
<1>2. ASSUME NEW c \in Calls, RunHelper(c) PROVE Serial!Begin
  <2>1. Live(c) /\ c \in awake
    BY <1>2 DEF RunHelper, Live, Pending
  <2>2. queue # <<>> /\ queue[1] = c
    BY <2>1 DEF QueueInv, QueueHoldsLiveCalls, OnlyHeadAwake, TypeOK
  <2>3. ASSUME NEW d \in Calls, pc[d] = "executing" PROVE FALSE
    <3>1. Live(d) /\ d \in awake
      BY <2>3 DEF QueueInv, RunningIsAwake, Live, Pending
    <3>2. queue[1] = d
      BY <3>1 DEF QueueInv, QueueHoldsLiveCalls, OnlyHeadAwake
    <3> QED
      BY <1>2, <2>2, <2>3, <3>2 DEF RunHelper
  <2>4. executing = {} /\ executing' = {c}
    BY <1>2, <2>3 DEF RunHelper, TypeOK
  <2> QED
    BY <1>2, <2>2, <2>4 DEF Serial!Begin, RunHelper
<1>3. ASSUME NEW c \in Calls, pc[c] = "executing", pc' = [pc EXCEPT ![c] = "backoff"]
                                                 \/ pc' = [pc EXCEPT ![c] = "settled"]
      PROVE  executing = {c} /\ executing' = {}
  BY <1>0, <1>3 DEF OneHelperRunning, TypeOK
<1>4. ASSUME NEW c \in Calls, HelperSucceeds(c) PROVE Serial!Finish
  <2>1. Live(c) /\ c \in awake /\ LeaveAndWakeNext(c)
    BY <1>4 DEF HelperSucceeds, Live, Pending, QueueInv, RunningIsAwake
  <2>2. queue # <<>> /\ queue[1] = c /\ queue' = Tail(queue)
    BY <2>1, LiveLeaves
  <2>3. executing = {c} /\ executing' = {}
    BY <1>3, <1>4 DEF HelperSucceeds
  <2> QED
    BY <2>2, <2>3 DEF Serial!Finish
<1>5. ASSUME NEW c \in Calls, HelperFails(c) PROVE Serial!Fail
  <2>1. executing = {c} /\ executing' = {}
    BY <1>3, <1>5 DEF HelperFails
  <2> QED
    BY <1>5, <2>1 DEF HelperFails, Serial!Fail
<1>6. ASSUME NEW c \in Calls, Retry(c) PROVE UNCHANGED Serial!vars
  BY <1>6 DEF Retry, Serial!vars, TypeOK
<1>7. CASE UNCHANGED vars
  BY <1>7 DEF vars, Serial!vars
<1>8. ASSUME NEW c \in Calls PROVE ~ SettleCancelled(c)
  BY DEF SettleCancelled
<1> QED
  BY <1>1, <1>2, <1>4, <1>5, <1>6, <1>7, <1>8
     DEF UnboundedStep, Goes, Serial!Next

\* An unbounded queue implements the serial helper: calls join a backlog, one
\* helper at a time works on the oldest, which leaves when it succeeds.
THEOREM UnboundedImplementsSerial ==
    ASSUME MaxQueued = Undefined
    PROVE  Spec => ImplementsSerial
<1>1. Init => Serial!Init
  BY DEF Init, Serial!Init
<1>2. TypeOK /\ QueueInv /\ cancelled = {} /\ [Next]_vars => [Serial!Next]_(Serial!vars)
  BY NextIsStep, StepIsSerial
<1> QED
  BY <1>1, <1>2, TypeCorrect, QueueConsistent, NothingCancelled, PTL
     DEF Spec, ImplementsSerial, Serial!Spec

\* Beside the query of the mailbox, which has a limit, the queue of deliver
\* implements the serial helper: the two never stand in each other's way, as one
\* of them is shown (chain-cosmos-sdk.js deliver).
THEOREM DeliverImplementsSerial == MCSpec => DeliverIsSerial
<1> DEFINE Inv == /\ TypeOK /\ QueueInv /\ name \in {"getMailbox", "deliver"}
                  /\ name = "deliver" => cancelled = {}
<1>1. MCInit => Inv /\ Deliver!Init
  BY StartIsWell DEF MCInit, Init, Deliver!Init
<1>2. ASSUME Inv, [MCNext]_<<vars, name>>
      PROVE  name' = name /\ QueueStep /\ (name = "deliver" => UnboundedStep)
  <2>1. CASE UNCHANGED <<vars, name>>
    BY <2>1 DEF QueueStep, UnboundedStep
  <2>2. CASE name = "getMailbox" /\ Next /\ UNCHANGED name
    BY <1>2, <2>2, NextIsStep
  <2>3. CASE name = "deliver" /\ D!Next /\ UNCHANGED name
    BY <1>2, <2>3, DeliverIsStep
  <2> QED
    BY <1>2, <2>1, <2>2, <2>3 DEF MCNext
<1>3. Inv /\ [MCNext]_<<vars, name>> => Inv'
  BY <1>2, StepKeepsTypes, StepKeepsQueue, NoneCancelled
<1>4. Inv /\ [MCNext]_<<vars, name>> => [Deliver!Next]_(Deliver!vars)
  <2> SUFFICES ASSUME Inv, [MCNext]_<<vars, name>> PROVE [Deliver!Next]_(Deliver!vars)
    OBVIOUS
  <2>1. CASE name = "getMailbox"
    BY <1>2, <2>1 DEF Deliver!vars
  <2>2. CASE name = "deliver"
    <3>1. [Serial!Next]_(Serial!vars)
      BY <1>2, <2>2, StepIsSerial
    <3>2. name' = "deliver"
      BY <1>2, <2>2
    <3> QED
      BY <2>2, <3>1, <3>2 DEF Serial!Next, Serial!Join, Serial!Begin, Serial!Fail, Serial!Finish,
         Serial!vars, Deliver!Next, Deliver!Join, Deliver!Begin, Deliver!Fail, Deliver!Finish,
         Deliver!vars
  <2> QED
    BY <2>1, <2>2
<1> HIDE DEF Inv
<1> QED
  BY <1>1, <1>3, <1>4, PTL DEF MCSpec, DeliverIsSerial, Deliver!Spec

=============================================================================
