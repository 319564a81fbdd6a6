---------------------------- MODULE HelperQueue ----------------------------
(***************************************************************************)
(* One named queue of lib/ag-solo/chain-cosmos-sdk.js: the calls of        *)
(* queuedHelper(name, maxQueued, ...) that shell out to ag-cosmos-helper,  *)
(* one at a time, retrying until the helper gives a usable answer.         *)
(*                                                                         *)
(* JavaScript runs to completion between two awaits, so an action is the   *)
(* code between two of them.  The two uses are 'getMailbox' (maxQueued =   *)
(* 1: a new block supersedes the query of the previous one) and 'deliver'  *)
(* (maxQueued undefined: transactions are never cancelled).                *)
(***************************************************************************)
EXTENDS Integers, SequencesExt

CONSTANTS
    Calls,      \* the calls of queuedHelper made on this queue
    MaxQueued,  \* the maxQueued argument, or Undefined
    Undefined   \* JavaScript's undefined

ASSUME MaxQueuedAssumption ==
    /\ MaxQueued \in Nat \cup {Undefined}
    /\ Undefined \notin Nat

VARIABLES
    queue,      \* queued[name]: the calls not yet finished nor cancelled
    pc,         \* where each call is
    awake,      \* the calls whose `wait` promise is resolved
    cancelled,  \* the calls whose `cancelled` flag is set
    result,     \* what each settled call returned
    submitted,  \* history: the calls in the order they were made
    answered    \* history: the calls that returned a value, in that order

vars == <<queue, pc, awake, cancelled, result, submitted, answered>>

PcValues == {"idle", "waiting", "executing", "backoff", "settled"}
Results == {"none", "value", "default"}

TypeOK ==
    /\ queue \in Seq(Calls)
    /\ pc \in [Calls -> PcValues]
    /\ awake \subseteq Calls
    /\ cancelled \subseteq Calls
    /\ result \in [Calls -> Results]
    /\ submitted \in Seq(Calls)
    /\ answered \in Seq(Calls)

Init ==
    /\ queue = <<>>
    /\ pc = [c \in Calls |-> "idle"]
    /\ awake = {}
    /\ cancelled = {}
    /\ result = [c \in Calls |-> "none"]
    /\ submitted = <<>>
    /\ answered = <<>>

-----------------------------------------------------------------------------

\* How many entries the loop that pops the excess leaves in the queue.
KeptLength ==
    IF MaxQueued = Undefined \/ Len(queue) < MaxQueued THEN Len(queue)
    ELSE IF MaxQueued = 0 THEN 0 ELSE MaxQueued - 1

\* Mutant: a new call goes to the front.
QueuedHelperUnshifts(c) ==
    /\ pc[c] = "idle"
    /\ queue' = <<c>> \o queue
    /\ awake' = awake \cup (IF queue = <<>> THEN {c} ELSE {})
    /\ pc' = [pc EXCEPT ![c] = "waiting"]
    /\ submitted' = Append(submitted, c)
    /\ UNCHANGED <<cancelled, result, answered>>

\* Mutant: excess calls are popped and not cancelled.
QueuedHelperOnlyPops(c) ==
    LET kept == SubSeq(queue, 1, KeptLength)
    IN  /\ pc[c] = "idle"
        /\ queue' = Append(kept, c)
        /\ awake' = awake \cup (IF kept = <<>> THEN {c} ELSE {})
        /\ pc' = [pc EXCEPT ![c] = "waiting"]
        /\ submitted' = Append(submitted, c)
        /\ UNCHANGED <<cancelled, result, answered>>

\* A new call: cancel the excess from the most recent down, join the queue,
\* and wake at once when first in it.
QueuedHelper(c) ==
    LET kept    == SubSeq(queue, 1, KeptLength)
        dropped == {queue[i] : i \in (KeptLength + 1)..Len(queue)}
    IN  /\ pc[c] = "idle"
        /\ queue' = Append(kept, c)
        /\ cancelled' = cancelled \cup dropped
        /\ awake' = awake \cup dropped \cup (IF kept = <<>> THEN {c} ELSE {})
        /\ pc' = [pc EXCEPT ![c] = "waiting"]
        /\ submitted' = Append(submitted, c)
        /\ UNCHANGED <<result, answered>>

\* queue.indexOf, for an entry that is in the queue.
IndexOf(c) == CHOOSE i \in DOMAIN queue : queue[i] = c

\* Mutant: the call that leaves wakes nobody.
LeaveOnly(c) ==
    /\ queue' = IF \E i \in DOMAIN queue : queue[i] = c
                  THEN RemoveAt(queue, IndexOf(c)) ELSE queue
    /\ UNCHANGED awake

\* The finally block: leave the queue if still in it, wake the new head.
LeaveAndWakeNext(c) ==
    /\ queue' = IF \E i \in DOMAIN queue : queue[i] = c
                  THEN RemoveAt(queue, IndexOf(c)) ELSE queue
    /\ awake' = IF queue' # <<>> THEN awake \cup {queue'[1]} ELSE awake

\* A cancelled call returns defaultIfCancelled.
SettleCancelled(c) ==
    /\ c \in cancelled
    /\ pc' = [pc EXCEPT ![c] = "settled"]
    /\ result' = [result EXCEPT ![c] = "default"]
    /\ LeaveAndWakeNext(c)
    /\ UNCHANGED <<cancelled, submitted, answered>>

\* The throwIfCancelled before the helper is spawned finds the call cancelled.
GiveUp(c) ==
    /\ pc[c] = "waiting"
    /\ c \in awake
    /\ SettleCancelled(c)

\* ... or lets it through, and the helper process starts.
RunHelper(c) ==
    /\ pc[c] = "waiting"
    /\ c \in awake
    /\ c \notin cancelled
    /\ pc' = [pc EXCEPT ![c] = "executing"]
    /\ UNCHANGED <<queue, awake, cancelled, result, submitted, answered>>

\* The helper process ends after its call was cancelled: its output is dropped.
HelperExitsCancelled(c) ==
    /\ pc[c] = "executing"
    /\ SettleCancelled(c)

\* Mutant: no cancellation test after the helper has run.
HelperSucceedsUnchecked(c) ==
    /\ pc[c] = "executing"
    /\ pc' = [pc EXCEPT ![c] = "settled"]
    /\ result' = [result EXCEPT ![c] = "value"]
    /\ answered' = Append(answered, c)
    /\ LeaveAndWakeNext(c)
    /\ UNCHANGED <<cancelled, submitted>>

\* The helper exits with an answer that parseReturn accepts.
HelperSucceeds(c) ==
    /\ pc[c] = "executing"
    /\ c \notin cancelled
    /\ pc' = [pc EXCEPT ![c] = "settled"]
    /\ result' = [result EXCEPT ![c] = "value"]
    /\ answered' = Append(answered, c)
    /\ LeaveAndWakeNext(c)
    /\ UNCHANGED <<cancelled, submitted>>

\* The helper fails, or its output does not parse: wait five seconds.
HelperFails(c) ==
    /\ pc[c] = "executing"
    /\ c \notin cancelled
    /\ pc' = [pc EXCEPT ![c] = "backoff"]
    /\ UNCHANGED <<queue, awake, cancelled, result, submitted, answered>>

\* The five seconds are over: try again, from the cancellation test on.
Retry(c) ==
    /\ pc[c] = "backoff"
    /\ pc' = [pc EXCEPT ![c] = "waiting"]
    /\ UNCHANGED <<queue, awake, cancelled, result, submitted, answered>>

CallStep(c) ==
    \/ QueuedHelper(c)
    \/ GiveUp(c)
    \/ RunHelper(c)
    \/ HelperExitsCancelled(c)
    \/ HelperSucceeds(c)
    \/ HelperFails(c)
    \/ Retry(c)

\* Every call made has returned; the solo is then idle until the next one.
AllSettled ==
    /\ \A c \in Calls : pc[c] = "settled"
    /\ UNCHANGED vars

Next == (\E c \in Calls : CallStep(c)) \/ AllSettled

Spec == Init /\ [][Next]_vars

\* Promises and timers run when they can, and a helper process ends.
Scheduled(c) ==
    /\ WF_vars(GiveUp(c) \/ RunHelper(c))
    /\ WF_vars(HelperExitsCancelled(c) \/ HelperSucceeds(c) \/ HelperFails(c))
    /\ WF_vars(Retry(c))

\* In addition, a chain node that is asked again and again finally answers.  A
\* call succeeds once, so that of finitely many calls each has its turn.
SomeHelperSucceeds == \E c \in Calls : HelperSucceeds(c)

FairSpec == Spec /\ SF_vars(SomeHelperSucceeds) /\ \A c \in Calls : Scheduled(c)

-----------------------------------------------------------------------------

Pending(c) == pc[c] \in {"waiting", "executing", "backoff"}
Live(c) == Pending(c) /\ c \notin cancelled

\* The queue holds each live call once, and nothing else.
QueueHoldsLiveCalls ==
    /\ \A i, j \in DOMAIN queue : queue[i] = queue[j] => i = j
    /\ \A c \in Calls : Live(c) <=> \E i \in DOMAIN queue : queue[i] = c

\* Of the live calls the head of the queue, and only it, has been woken:
\* nobody sleeps for ever and nobody jumps the queue.
OnlyHeadAwake ==
    \A i \in DOMAIN queue : queue[i] \in awake <=> i = 1

\* A call is past its wait only after it was woken.
RunningIsAwake ==
    \A c \in Calls : pc[c] \in {"executing", "backoff"} => c \in awake

\* A cancelled call was woken to find that out, and only calls that were made
\* are ever woken.
CancelledIsAwake ==
    /\ cancelled \subseteq awake
    /\ \A c \in awake : pc[c] # "idle"

\* The inductive invariant the proofs use.
QueueInv ==
    /\ QueueHoldsLiveCalls
    /\ OnlyHeadAwake
    /\ RunningIsAwake
    /\ CancelledIsAwake

\* "Only one helper running at a time" (l.225), and "we need to queue our
\* deliver() calls and not allow one to proceed until the others have finished"
\* (l.370-371).  So it is where nothing is cancelled.  A query that is cancelled
\* leaves the queue while its process runs on, and once that is empty the next
\* query starts a process beside it.
OneHelperRunning ==
    \A c, d \in Calls : pc[c] = "executing" /\ pc[d] = "executing" => c = d

\* An unbounded queue is first in, first out: the calls answered, followed by
\* those still queued, are exactly the calls made, in order, through failures
\* and retries.
FirstInFirstOut == MaxQueued = Undefined => submitted = answered \o queue

\* A superseded query never answers: its output is dropped even when the
\* helper had been running, and answered, before the cancellation was seen.  The
\* newest call is never the one superseded, so that the mailbox of the last
\* block is asked for, however fast blocks come (l.126-131, l.160-169).
OnlyCurrentAnswers ==
    /\ \A c \in cancelled : result[c] # "value"
    /\ submitted # <<>> => Last(submitted) \notin cancelled

\* Every call made settles: no wake-up is lost.
EveryCallSettles ==
    \A c \in Calls : pc[c] # "idle" ~> pc[c] = "settled"

-----------------------------------------------------------------------------

\* What an unbounded queue promises.
Serial == INSTANCE SerialHelper WITH
    backlog <- queue,
    active  <- {c \in Calls : pc[c] = "executing"}

\* An unbounded queue implements the serial helper: one at a time, in order.
ImplementsSerial == Serial!Spec

=============================================================================
