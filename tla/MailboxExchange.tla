-------------------------- MODULE MailboxExchange --------------------------
(***************************************************************************)
(* A solo and its chain: connectToChain of lib/ag-solo/chain-cosmos-sdk.js *)
(* between the solo's kernel and the chain's mailbox for it.  The solo     *)
(* sends each message once, in deliver calls that queue for the helper;    *)
(* the chain publishes all that is not acknowledged in a mailbox that the  *)
(* solo reads after each block, from any of several chain nodes.           *)
(*                                                                         *)
(* The kernels, the mailbox devices, the helper's signing and Tendermint   *)
(* are external.  A mailbox device takes numbers above the highest it has  *)
(* seen, whatever it has missed.                                           *)
(***************************************************************************)
EXTENDS Integers, SequencesExt, FiniteSetsExt

CONSTANTS
    MaxMsg,      \* bound: messages in each direction
    MaxFaults,   \* bound: helper failures and lost transactions
    MaxRestarts, \* bound: restarts of the solo
    NoHelper     \* no helper is running

ASSUME ExchangeAssumption == {MaxMsg, MaxFaults, MaxRestarts} \subseteq Nat

VARIABLES
    soloSent,     \* the highest number the solo's kernel has used
    soloOutbox,   \* the lowest number it has not seen acknowledged
    soloGot,      \* the chain's messages its kernel has processed, in order
    writing,      \* deliver calls whose temporary file is being written
    sending,      \* queued['deliver'], the head being worked on
    attempt,      \* the transaction the running helper sent, or NoHelper
    pending,      \* transactions sent and not yet executed or dropped
    seqnum,       \* the sequence number of the solo's account on the chain
    chainSent,
    chainOutbox,
    chainGot,     \* the solo's messages the chain's kernel has processed
    mailboxes,    \* the mailboxes of the committed blocks, oldest first
    faults, restarts,
    harsh         \* whether calls overtake each other, transactions are
                  \* rejected and the solo restarts: it does not change

solo == <<soloSent, soloOutbox, soloGot>>
chain == <<seqnum, chainSent, chainOutbox, chainGot, mailboxes>>
exchangeVars == <<solo, writing, sending, attempt, pending, chain, faults, restarts, harsh>>

Num == 0..MaxMsg
DeliverCalls == [lo : 1..(MaxMsg + 1), hi : Num, ack : Num]   \* messages lo..hi and an ack
Txs == [call : DeliverCalls, seq : Nat]
Mailbox == [lo : 1..(MaxMsg + 1), hi : Num, ack : Num]

ExchangeTypeOK ==
    /\ {soloSent, chainSent} \subseteq Num
    /\ {soloOutbox, chainOutbox} \subseteq 1..(MaxMsg + 1)
    /\ {soloGot, chainGot} \subseteq Seq(Num)
    /\ writing \in Seq(DeliverCalls) /\ sending \in Seq(DeliverCalls)
    /\ attempt \in Txs \cup {NoHelper}
    /\ pending \subseteq Txs
    /\ seqnum \in Nat
    /\ mailboxes \in Seq(Mailbox)
    /\ faults \in 0..MaxFaults /\ restarts \in 0..MaxRestarts
    /\ harsh \in BOOLEAN

Highest(got) == IF got = <<>> THEN 0 ELSE Last(got)
Numbers(lo, hi) == IF hi < lo THEN <<>> ELSE [i \in 1..(hi - lo + 1) |-> lo + i - 1]

\* The messages of lo..hi that a mailbox device takes after those in got.
News(got, lo, hi) == Numbers(Max({lo, Highest(got) + 1}), hi)

ExchangeInit ==
    /\ soloSent = 0 /\ soloOutbox = 1 /\ soloGot = <<>>
    /\ writing = <<>> /\ sending = <<>> /\ attempt = NoHelper /\ pending = {}
    /\ seqnum = 0
    /\ chainSent = 0 /\ chainOutbox = 1 /\ chainGot = <<>>
    /\ mailboxes = <<>>
    /\ faults = 0 /\ restarts = 0
    /\ harsh \in BOOLEAN

-----------------------------------------------------------------------------

\* The solo's kernel has run: deliver() calls the deliverator with the new
\* messages, one or none, and the current ack.
CallDeliver(more, got) ==
    /\ soloSent' = soloSent + more
    /\ writing' = Append(writing, [lo |-> soloSent + 1, hi |-> soloSent + more, ack |-> Highest(got)])

\* A command makes the solo's kernel send a message.
SoloSends ==
    /\ soloSent < MaxMsg
    /\ CallDeliver(1, soloGot)
    /\ UNCHANGED <<soloOutbox, soloGot, sending, attempt, pending, chain, faults, restarts, harsh>>

\* Mutant: calls join in the order in which their files happen to be written.
JoinQueueAnyOrder ==
    \E i \in DOMAIN writing :
        /\ sending' = Append(sending, writing[i])
        /\ writing' = RemoveAt(writing, i)
        /\ UNCHANGED <<solo, attempt, pending, chain, faults, restarts, harsh>>

\* The temporary file of a call is written and closed: the call joins the
\* queue.  File operations of two calls may end in either order.
JoinQueue ==
    \E i \in DOMAIN writing :
        /\ i = 1 \/ harsh
        /\ sending' = Append(sending, writing[i])
        /\ writing' = RemoveAt(writing, i)
        /\ UNCHANGED <<solo, attempt, pending, chain, faults, restarts, harsh>>

\* The helper of the head call signs a transaction with the sequence number
\* the chain shows, and broadcasts it.
SendTx ==
    /\ sending # <<>>
    /\ attempt = NoHelper
    /\ attempt' = [call |-> Head(sending), seq |-> seqnum]
    /\ pending' = pending \cup {attempt'}
    /\ UNCHANGED <<solo, writing, sending, chain, faults, restarts, harsh>>

Execute(t, more) ==
    LET news == News(chainGot, t.call.lo, t.call.hi)
        got == chainGot \o news
        outbox == Max({chainOutbox, t.call.ack + 1})
    IN  /\ chainGot' = got
        /\ chainOutbox' = outbox
        /\ chainSent' = chainSent + more
        /\ mailboxes' = Append(mailboxes, [lo |-> outbox, hi |-> chainSent', ack |-> Highest(got)])

\* A block takes a transaction in.  One with the expected sequence number is
\* executed; the code it returns is 0, or else its writes are dropped.
Block ==
    \E t \in pending :
        /\ t.seq = seqnum
        /\ seqnum' = seqnum + 1
        /\ pending' = {u \in pending : u.seq > seqnum}
        /\ \/ \E more \in 0..1 :
                /\ chainSent + more <= MaxMsg
                /\ Execute(t, more)
                /\ UNCHANGED faults
           \/ /\ harsh
              /\ faults < MaxFaults /\ faults' = faults + 1
              /\ UNCHANGED <<chainSent, chainOutbox, chainGot, mailboxes>>
        /\ UNCHANGED <<solo, writing, sending, attempt, restarts, harsh>>

\* Mutant: the helper returns before its transaction is in a block.
HelperReturnsAtOnce ==
    /\ attempt # NoHelper
    /\ attempt' = NoHelper
    /\ sending' = Tail(sending)
    /\ UNCHANGED <<solo, writing, pending, chain, faults, restarts, harsh>>

\* The helper returns once its transaction was taken by a block, or refused for
\* its sequence number: parseReturn does not look at the code, so the call is
\* done either way and leaves the queue.
HelperReturns ==
    /\ attempt # NoHelper
    /\ attempt \notin pending
    /\ attempt.seq < seqnum
    /\ attempt' = NoHelper
    /\ sending' = Tail(sending)
    /\ UNCHANGED <<solo, writing, pending, chain, faults, restarts, harsh>>

\* Mutant: a call whose helper fails is not tried again.
HelperBreaksForGood ==
    /\ attempt # NoHelper
    /\ faults < MaxFaults /\ faults' = faults + 1
    /\ attempt' = NoHelper
    /\ sending' = Tail(sending)
    /\ pending' \in {pending, pending \ {attempt}}
    /\ UNCHANGED <<solo, writing, chain, restarts, harsh>>

\* The helper fails while its transaction may be on its way or lost: the call
\* is retried, with a transaction of its own.
HelperBreaks ==
    /\ attempt # NoHelper
    /\ faults < MaxFaults /\ faults' = faults + 1
    /\ attempt' = NoHelper
    /\ pending' \in {pending, pending \ {attempt}}
    /\ UNCHANGED <<solo, writing, sending, chain, restarts, harsh>>

\* A mailbox query answers with the mailbox of a committed block, and the solo
\* handles what is new in it: a message or an ack.
ReadMailbox ==
    \E i \in DOMAIN mailboxes :
        LET box == mailboxes[i]
            news == News(soloGot, box.lo, box.hi)
        IN  /\ news # <<>> \/ box.ack + 1 > soloOutbox
            /\ soloGot' = soloGot \o news
            /\ soloOutbox' = Max({soloOutbox, box.ack + 1})
            /\ IF news # <<>>
               THEN \E more \in 0..1 :
                       soloSent + more <= MaxMsg /\ CallDeliver(more, soloGot \o news)
               ELSE UNCHANGED <<soloSent, writing>>
            /\ UNCHANGED <<sending, attempt, pending, chain, faults, restarts, harsh>>

\* The solo restarts from what it has saved: queue and helpers are gone, and
\* all of its outbox is handed over again.
SoloRestart ==
    /\ harsh
    /\ restarts < MaxRestarts /\ restarts' = restarts + 1
    /\ sending' = <<>> /\ attempt' = NoHelper
    /\ writing' = <<[lo |-> soloOutbox, hi |-> soloSent, ack |-> Highest(soloGot)]>>
    /\ UNCHANGED <<solo, pending, chain, faults, harsh>>

ExchangeNext ==
    \/ SoloSends \/ JoinQueue \/ SendTx \/ Block
    \/ HelperReturns \/ HelperBreaks \/ ReadMailbox \/ SoloRestart

ExchangeSpec == ExchangeInit /\ [][ExchangeNext]_exchangeVars

\* The event loop, the helper and the chain go on, and what a mailbox has for
\* the solo is read in the end.
Fairness ==
    /\ WF_exchangeVars(JoinQueue) /\ WF_exchangeVars(SendTx) /\ WF_exchangeVars(HelperReturns)
    /\ WF_exchangeVars(Block) /\ WF_exchangeVars(ReadMailbox)

FairExchange == ExchangeSpec /\ Fairness

-----------------------------------------------------------------------------

\* No message to the chain is skipped.
ChainSkipsNothing == chainGot = Numbers(1, Highest(chainGot))

\* Two calls never race for one sequence number, for which deliver() calls are
\* queued (chain-cosmos-sdk.js l.368-372), unless the solo restarts.
NoSharedSequence ==
    ~harsh => \A t, u \in pending : t.seq = u.seq => t.call = u.call

ToSolo == INSTANCE Channel WITH sent <- chainSent, received <- soloGot
ToChain == INSTANCE Channel WITH
    sent     <- IF harsh THEN 0 ELSE soloSent,
    received <- IF harsh THEN <<>> ELSE chainGot

\* Each direction is a channel, in which messages arrive once, in order and
\* without gap: from the chain, whose mailbox shows its whole outbox, through
\* every fault of the model; from the solo, whose transactions carry only new
\* messages, through helper failures and retries as long as no call overtakes
\* another, no transaction is rejected and the solo does not restart.
BothWaysAreChannels == ToSolo!Spec /\ ToChain!Spec

\* Every message of the chain is processed by the solo in the end, and one of
\* the solo by the chain under the same conditions.
AllArrives ==
    /\ \A n \in 1..MaxMsg : soloSent >= n /\ ~harsh ~> n \in {chainGot[i] : i \in DOMAIN chainGot}
    /\ \A n \in 1..MaxMsg : chainSent >= n ~> n \in {soloGot[i] : i \in DOMAIN soloGot}

=============================================================================
