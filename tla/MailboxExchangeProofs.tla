----------------------- MODULE MailboxExchangeProofs -----------------------
(***************************************************************************)
(* Theorems about MailboxExchange, for any number of messages, faults and  *)
(* restarts.                                                               *)
(***************************************************************************)
EXTENDS MailboxExchange, SequenceTheorems, TLAPS

\* The larger of two numbers, of which Max is defined by CHOOSE.
LEMMA MaxOfTwo ==
    ASSUME NEW a \in Int, NEW b \in Int
    PROVE  Max({a, b}) = IF a >= b THEN a ELSE b
<1> DEFINE m == IF a >= b THEN a ELSE b
<1>1. m \in {a, b} /\ \A y \in {a, b} : m >= y
  OBVIOUS
<1>2. \A x \in {a, b} : (\A y \in {a, b} : x >= y) => x = m
  OBVIOUS
<1> QED
  BY <1>1, <1>2 DEF Max

\* The lowest number without an ack stays a number.
LEMMA AckedType ==
    ASSUME NEW a \in 1..(MaxMsg + 1), NEW ack \in Num
    PROVE  /\ Max({a, ack + 1}) \in 1..(MaxMsg + 1)
           /\ Max({a, ack + 1}) = IF a >= ack + 1 THEN a ELSE ack + 1
<1>1. a \in Int /\ ack + 1 \in 1..(MaxMsg + 1) /\ MaxMsg \in Nat
  BY ExchangeAssumption DEF Num
<1> QED
  BY <1>1, MaxOfTwo

\* What a mailbox lists: the numbers from lo to hi, none if hi is below lo.
LEMMA NumbersListed ==
    ASSUME NEW lo \in Nat \ {0}, NEW hi \in Num
    PROVE  /\ Numbers(lo, hi) \in Seq(Num)
           /\ Len(Numbers(lo, hi)) = IF hi < lo THEN 0 ELSE hi - lo + 1
           /\ \A i \in DOMAIN Numbers(lo, hi) : Numbers(lo, hi)[i] = lo + i - 1
<1>0. hi \in Nat /\ hi <= MaxMsg /\ MaxMsg \in Nat
  BY ExchangeAssumption DEF Num
<1>1. CASE hi < lo
  BY <1>1, <1>0 DEF Numbers
<1>2. CASE ~(hi < lo)
  <2>1. Numbers(lo, hi) = [i \in 1..(hi - lo + 1) |-> lo + i - 1]
    BY <1>2 DEF Numbers
  <2>2. hi - lo + 1 \in Nat /\ \A i \in 1..(hi - lo + 1) : lo + i - 1 \in Num
    BY <1>0, <1>2 DEF Num
  <2>3. [i \in 1..(hi - lo + 1) |-> lo + i - 1] \in Seq(Num)
    BY <2>2, IsASeq
  <2> QED
    BY <2>1, <2>2, <2>3, <1>2
<1> QED
  BY <1>1, <1>2

\* The highest number a mailbox device has seen.
LEMMA HighestType ==
    ASSUME NEW got \in Seq(Num)
    PROVE  Highest(got) \in Num
<1>1. 0 \in Num
  BY ExchangeAssumption DEF Num
<1>2. got # <<>> => Len(got) \in 1..Len(got)
  OBVIOUS
<1> QED
  BY <1>1, <1>2 DEF Highest, Last

\* What a mailbox device takes is above all it has seen.
LEMMA NewsIsNew ==
    ASSUME NEW got \in Seq(Num), NEW lo \in Nat \ {0}, NEW hi \in Num
    PROVE  /\ News(got, lo, hi) \in Seq(Num)
           /\ \A i \in DOMAIN News(got, lo, hi) :
                /\ News(got, lo, hi)[i] > Highest(got)
                /\ \A j \in DOMAIN News(got, lo, hi) :
                      i < j => News(got, lo, hi)[i] < News(got, lo, hi)[j]
<1> DEFINE from == Max({lo, Highest(got) + 1})
<1>0. Highest(got) \in Nat
  BY HighestType DEF Num
<1>1. from \in Nat \ {0} /\ from > Highest(got)
  BY <1>0, MaxOfTwo
<1>2. News(got, lo, hi) = Numbers(from, hi)
  BY DEF News
<1> HIDE DEF from
<1>3. /\ Numbers(from, hi) \in Seq(Num)
      /\ \A i \in DOMAIN Numbers(from, hi) : Numbers(from, hi)[i] = from + i - 1
  BY <1>1, NumbersListed
<1>4. DOMAIN Numbers(from, hi) \subseteq Nat \ {0}
  BY <1>3
<1> QED
  BY <1>0, <1>1, <1>2, <1>3, <1>4

-----------------------------------------------------------------------------

\* A call that the solo's kernel makes carries at most one message and an ack
\* of what the kernel has processed.
LEMMA CallDeliverType ==
    ASSUME ExchangeTypeOK, NEW more \in 0..1, soloSent + more <= MaxMsg,
           NEW got \in Seq(Num), CallDeliver(more, got)
    PROVE  soloSent' \in Num /\ writing' \in Seq(DeliverCalls)
<1>1. soloSent \in Nat /\ MaxMsg \in Nat /\ Highest(got) \in Num
  BY HighestType, ExchangeAssumption DEF ExchangeTypeOK, Num
<1>2. soloSent + more \in Num /\ soloSent + 1 \in 1..(MaxMsg + 1)
  BY <1>1 DEF ExchangeTypeOK, Num
<1> QED
  BY <1>1, <1>2 DEF ExchangeTypeOK, CallDeliver, DeliverCalls

\* A call that joins the queue leaves the others as they are.
LEMMA Joins ==
    ASSUME NEW S, NEW w \in Seq(S), NEW i \in DOMAIN w
    PROVE  /\ RemoveAt(w, i) \in Seq(S)
           /\ \A j \in DOMAIN RemoveAt(w, i) : \E k \in DOMAIN w : RemoveAt(w, i)[j] = w[k]
           /\ i = 1 => RemoveAt(w, i) = Tail(w)
<1> DEFINE left == SubSeq(w, 1, i - 1)
           right == SubSeq(w, i + 1, Len(w))
<1>1. /\ left \in Seq(S) /\ Len(left) = i - 1
      /\ \A j \in 1..(i - 1) : left[j] = w[j]
  OBVIOUS
<1>2. /\ right \in Seq(S) /\ Len(right) = Len(w) - i
      /\ \A j \in 1..(Len(w) - i) : right[j] = w[i + j]
  OBVIOUS
<1>3. RemoveAt(w, i) = left \o right
  BY DEF RemoveAt
<1> HIDE DEF left, right
<1>4. /\ left \o right \in Seq(S) /\ Len(left \o right) = Len(w) - 1
      /\ \A j \in 1..(Len(w) - 1) :
            (left \o right)[j] = IF j < i THEN w[j] ELSE w[j + 1]
  <2>1. /\ left \o right \in Seq(S) /\ Len(left \o right) = Len(left) + Len(right)
        /\ \A j \in 1..(Len(left) + Len(right)) :
              (left \o right)[j] = IF j <= Len(left) THEN left[j] ELSE right[j - Len(left)]
    BY <1>1, <1>2, ConcatProperties
  <2>2. i \in 1..Len(w) /\ Len(w) \in Nat
    OBVIOUS
  <2>3. Len(left) + Len(right) = Len(w) - 1
    BY <1>1, <1>2, <2>2
  <2>4. ASSUME NEW j \in 1..(Len(w) - 1)
        PROVE  (left \o right)[j] = IF j < i THEN w[j] ELSE w[j + 1]
    <3>1. CASE j < i
      <4>1. j <= Len(left) /\ j \in 1..(i - 1)
        BY <1>1, <2>2, <3>1
      <4> QED
        BY <1>1, <2>1, <2>3, <3>1, <4>1
    <3>2. CASE ~(j < i)
      <4>1. ~(j <= Len(left)) /\ j - Len(left) \in 1..(Len(w) - i) /\ i + (j - Len(left)) = j + 1
        BY <1>1, <2>2, <3>2
      <4> QED
        BY <1>2, <2>1, <2>3, <3>2, <4>1
    <3> QED
      BY <3>1, <3>2
  <2> QED
    BY <2>1, <2>3, <2>4
<1>5. i = 1 => left \o right = Tail(w)
  <2> SUFFICES ASSUME i = 1 PROVE left \o right = Tail(w)
    OBVIOUS
  <2>1. /\ Tail(w) \in Seq(S) /\ Len(Tail(w)) = Len(w) - 1
        /\ \A j \in 1..(Len(w) - 1) : Tail(w)[j] = w[j + 1]
    BY HeadTailProperties
  <2>2. \A j \in 1..(Len(w) - 1) : (left \o right)[j] = Tail(w)[j]
    BY <1>4, <2>1
  <2> QED
    BY <1>4, <2>1, <2>2, SeqEqual
<1>6. \A j \in 1..(Len(w) - 1) : j \in DOMAIN w /\ j + 1 \in DOMAIN w
  OBVIOUS
<1>7. \A j \in DOMAIN (left \o right) : \E k \in DOMAIN w : (left \o right)[j] = w[k]
  <2>1. DOMAIN (left \o right) = 1..(Len(w) - 1)
    BY <1>4
  <2> QED
    BY <1>4, <1>6, <2>1
<1> QED
  BY <1>3, <1>4, <1>5, <1>7

\* The state of the exchange keeps its types through every fault of the model.
THEOREM TypeCorrect == ExchangeSpec => []ExchangeTypeOK
<1>1. ExchangeInit => ExchangeTypeOK
  BY ExchangeAssumption DEF ExchangeInit, ExchangeTypeOK, Num
<1>2. ExchangeTypeOK /\ [ExchangeNext]_exchangeVars => ExchangeTypeOK'
  <2> SUFFICES ASSUME ExchangeTypeOK, [ExchangeNext]_exchangeVars PROVE ExchangeTypeOK'
    OBVIOUS
  <2>0. MaxMsg \in Nat /\ soloSent \in Nat /\ soloGot \in Seq(Num) /\ chainGot \in Seq(Num)
    BY ExchangeAssumption DEF ExchangeTypeOK, Num
  <2>1. CASE SoloSends
    <3>1. soloSent + 1 <= MaxMsg
      BY <2>0, <2>1 DEF SoloSends
    <3>2. soloSent' \in Num /\ writing' \in Seq(DeliverCalls)
      BY <2>0, <2>1, <3>1, CallDeliverType DEF SoloSends
    <3> QED
      BY <2>1, <3>2 DEF SoloSends, ExchangeTypeOK, chain
  <2>2. CASE JoinQueue
    <3>1. PICK i \in DOMAIN writing :
            sending' = Append(sending, writing[i]) /\ writing' = RemoveAt(writing, i)
      BY <2>2 DEF JoinQueue
    <3>2. sending' \in Seq(DeliverCalls) /\ writing' \in Seq(DeliverCalls)
      BY <3>1, Joins DEF ExchangeTypeOK
    <3> QED
      BY <2>2, <3>2 DEF JoinQueue, ExchangeTypeOK, solo, chain
  <2>3. CASE SendTx
    <3>1. attempt' \in Txs
      BY <2>3 DEF SendTx, ExchangeTypeOK, Txs
    <3> QED
      BY <2>3, <3>1 DEF SendTx, ExchangeTypeOK, solo, chain
  <2>4. CASE Block
    <3>1. PICK t \in pending :
            /\ seqnum' = seqnum + 1
            /\ pending' = {u \in pending : u.seq > seqnum}
            /\ \/ \E more \in 0..1 :
                    chainSent + more <= MaxMsg /\ Execute(t, more) /\ UNCHANGED faults
               \/ /\ faults < MaxFaults /\ faults' = faults + 1
                  /\ UNCHANGED <<chainSent, chainOutbox, chainGot, mailboxes>>
      BY <2>4 DEF Block
    <3>2. /\ t.call.lo \in 1..(MaxMsg + 1) /\ t.call.hi \in Num /\ t.call.ack \in Num
      BY <3>1 DEF ExchangeTypeOK, Txs, DeliverCalls
    <3>3. ASSUME NEW more \in 0..1, chainSent + more <= MaxMsg, Execute(t, more)
          PROVE  /\ chainSent' \in Num /\ chainOutbox' \in 1..(MaxMsg + 1)
                 /\ chainGot' \in Seq(Num) /\ mailboxes' \in Seq(Mailbox)
      <4>1. t.call.lo \in Nat \ {0}
        BY <2>0, <3>2
      <4>2. chainGot \o News(chainGot, t.call.lo, t.call.hi) \in Seq(Num)
        BY <2>0, <3>2, <4>1, NewsIsNew
      <4>3. chainSent + more \in Num
        BY <2>0, <3>3 DEF ExchangeTypeOK, Num
      <4>4. Max({chainOutbox, t.call.ack + 1}) \in 1..(MaxMsg + 1)
        BY <3>2, AckedType DEF ExchangeTypeOK
      <4>5. chainGot' \in Seq(Num) /\ Highest(chainGot') \in Num
        BY <3>3, <4>2, HighestType DEF Execute
      <4> QED
        BY <3>3, <4>3, <4>4, <4>5 DEF Execute, ExchangeTypeOK, Mailbox
    <3>4. faults < MaxFaults => faults + 1 \in 0..MaxFaults
      BY ExchangeAssumption DEF ExchangeTypeOK
    <3> QED
      BY <2>4, <3>1, <3>3, <3>4, SMTT(30) DEF Block, ExchangeTypeOK, solo
  <2>5. CASE HelperReturns
    <3>1. sending # <<>> => Tail(sending) \in Seq(DeliverCalls)
      BY DEF ExchangeTypeOK
    <3>2. sending = <<>> => Tail(sending) = <<>>
      OBVIOUS
    <3> QED
      BY <2>5, <3>1, <3>2 DEF HelperReturns, ExchangeTypeOK, solo, chain
  <2>6. CASE HelperBreaks
    BY <2>6, ExchangeAssumption DEF HelperBreaks, ExchangeTypeOK, solo, chain
  <2>7. CASE ReadMailbox
    <3>1. PICK i \in DOMAIN mailboxes :
            LET box == mailboxes[i]
                news == News(soloGot, box.lo, box.hi)
            IN  /\ soloGot' = soloGot \o news
                /\ soloOutbox' = Max({soloOutbox, box.ack + 1})
                /\ IF news # <<>>
                   THEN \E more \in 0..1 :
                          soloSent + more <= MaxMsg /\ CallDeliver(more, soloGot \o news)
                   ELSE UNCHANGED <<soloSent, writing>>
      BY <2>7 DEF ReadMailbox
    <3> DEFINE box == mailboxes[i]
    <3>a. box \in Mailbox
      BY DEF ExchangeTypeOK
    <3>2. box.lo \in 1..(MaxMsg + 1) /\ box.hi \in Num /\ box.ack \in Num
      BY <3>a DEF Mailbox
    <3> HIDE DEF box
    <3>3. soloGot \o News(soloGot, box.lo, box.hi) \in Seq(Num)
      <4>1. box.lo \in Nat \ {0}
        BY <2>0, <3>2
      <4>2. News(soloGot, box.lo, box.hi) \in Seq(Num)
        BY <2>0, <3>2, <4>1, NewsIsNew
      <4> QED
        BY <2>0, <4>2
    <3>4. Max({soloOutbox, box.ack + 1}) \in 1..(MaxMsg + 1)
      BY <3>2, AckedType DEF ExchangeTypeOK
    <3>5. soloSent' \in Num /\ writing' \in Seq(DeliverCalls)
      BY <3>1, <3>3, CallDeliverType DEF ExchangeTypeOK, box
    <3> QED
      BY <2>7, <3>1, <3>3, <3>4, <3>5 DEF ReadMailbox, ExchangeTypeOK, chain, box
  <2>8. CASE SoloRestart
    <3>1. Highest(soloGot) \in Num
      BY <2>0, HighestType
    <3> QED
      BY <2>8, <3>1, ExchangeAssumption DEF SoloRestart, ExchangeTypeOK, solo, chain, DeliverCalls
  <2>9. CASE UNCHANGED exchangeVars
    BY <2>9 DEF exchangeVars, ExchangeTypeOK, solo, chain
  <2> QED
    BY <2>1, <2>2, <2>3, <2>4, <2>5, <2>6, <2>7, <2>8, <2>9 DEF ExchangeNext
<1> QED
  BY <1>1, <1>2, PTL DEF ExchangeSpec

-----------------------------------------------------------------------------

\* Every transaction under way has the number the chain expects next, and once
\* it was executed none is left.  Without overtaking and restarts they all
\* are attempts of the call at the head of the queue.
SequenceInv ==
    /\ \A t \in pending : t.seq = seqnum
    /\ attempt # NoHelper =>
         /\ attempt.seq <= seqnum
         /\ attempt.seq < seqnum => pending = {}
    /\ ~harsh => \A t \in pending : sending # <<>> /\ t.call = Head(sending)

Counted(got) == \A i \in DOMAIN got : got[i] = i

\* The way to the solo: it has processed the first so many messages of the
\* chain, whose outbox and mailboxes start no later than the next one, since no
\* call carries an ack of more.
ToSoloInv ==
    /\ Counted(soloGot) /\ Len(soloGot) <= chainSent
    /\ chainOutbox <= Len(soloGot) + 1
    /\ \A i \in DOMAIN writing : writing[i].ack <= Len(soloGot)
    /\ \A i \in DOMAIN sending : sending[i].ack <= Len(soloGot)
    /\ \A t \in pending : t.call.ack <= Len(soloGot)
    /\ \A i \in DOMAIN mailboxes :
         mailboxes[i].lo <= Len(soloGot) + 1 /\ mailboxes[i].hi <= chainSent

\* Consecutive calls, each of one message or none: from is how many messages
\* the receiver has, which may have the one of the first call; to is the last.
Consecutive(calls, from, to) ==
    /\ \A i \in DOMAIN calls : calls[i].lo <= calls[i].hi + 1 /\ calls[i].hi <= to
    /\ \A i \in 1..(Len(calls) - 1) : calls[i + 1].lo = calls[i].hi + 1
    /\ IF calls = <<>> THEN from = to
       ELSE /\ calls[1].lo <= from + 1 /\ from <= calls[1].hi
            /\ calls[Len(calls)].hi = to

\* The way to the chain: what it has processed goes on with the calls that are
\* queued and being written, and with the head alone once that was executed.
ToChainInv ==
    /\ Counted(chainGot)
    /\ Consecutive(sending \o writing, Len(chainGot), soloSent)
    /\ attempt # NoHelper =>
         /\ sending # <<>>
         /\ attempt.seq < seqnum => Len(chainGot) = sending[1].hi

-----------------------------------------------------------------------------

\* deliver() calls one helper at a time, and a helper stays until its
\* transaction is in a block.
LEMMA SequencesConsistent == ExchangeSpec => []SequenceInv
<1>1. ExchangeInit => SequenceInv
  BY DEF ExchangeInit, SequenceInv
<1>2. ExchangeTypeOK /\ SequenceInv /\ [ExchangeNext]_exchangeVars => SequenceInv'
  <2> SUFFICES ASSUME ExchangeTypeOK, SequenceInv, [ExchangeNext]_exchangeVars PROVE SequenceInv'
    OBVIOUS
  <2>1. CASE JoinQueue
    <3>1. PICK i \in DOMAIN writing : sending' = Append(sending, writing[i])
      BY <2>1 DEF JoinQueue
    <3>2. writing[i] \in DeliverCalls
      BY DEF ExchangeTypeOK
    <3>3. sending # <<>> => sending' # <<>> /\ Head(sending') = Head(sending)
      BY <3>1, <3>2 DEF ExchangeTypeOK
    <3> QED
      BY <2>1, <3>3 DEF JoinQueue, SequenceInv, chain
  <2>2. CASE SendTx
    <3>1. /\ attempt' = [call |-> Head(sending), seq |-> seqnum]
          /\ pending' = pending \cup {attempt'}
          /\ sending # <<>> /\ UNCHANGED <<sending, seqnum, harsh>>
      BY <2>2 DEF SendTx, chain
    <3>2. attempt'.seq = seqnum /\ attempt'.call = Head(sending) /\ seqnum \in Nat
      BY <3>1 DEF ExchangeTypeOK
    <3>3. \A t \in pending' : t.seq = seqnum /\ (~harsh => t.call = Head(sending))
      BY <3>1, <3>2 DEF SequenceInv
    <3> QED
      BY <3>1, <3>2, <3>3 DEF SequenceInv
  <2>3. CASE Block
    <3>1. /\ seqnum' = seqnum + 1
          /\ pending' = {u \in pending : u.seq > seqnum}
          /\ UNCHANGED <<sending, attempt, harsh>>
      BY <2>3 DEF Block
    <3>2. pending' = {}
      BY <3>1 DEF SequenceInv, ExchangeTypeOK
    <3>3. attempt # NoHelper => attempt.seq \in Nat
      BY DEF ExchangeTypeOK, Txs
    <3>4. seqnum \in Nat
      BY DEF ExchangeTypeOK
    <3>5. attempt # NoHelper => attempt.seq < seqnum'
      <4>1. \A a, b \in Nat : a <= b => a < b + 1
        OBVIOUS
      <4>2. attempt # NoHelper => attempt.seq <= seqnum
        BY DEF SequenceInv
      <4> QED
        BY <3>1, <3>3, <3>4, <4>1, <4>2
    <3>6. attempt # NoHelper => attempt.seq <= seqnum'
      <4>1. \A a, b \in Nat : a <= b => a <= b + 1
        OBVIOUS
      <4>2. attempt # NoHelper => attempt.seq <= seqnum
        BY DEF SequenceInv
      <4> QED
        BY <3>1, <3>3, <3>4, <4>1, <4>2
    <3> QED
      BY <3>1, <3>2, <3>5, <3>6 DEF SequenceInv
  <2>4. CASE HelperReturns
    BY <2>4 DEF HelperReturns, SequenceInv, chain
  <2>5. CASE HelperBreaks
    BY <2>5 DEF HelperBreaks, SequenceInv, chain
  <2>6. CASE SoloRestart
    BY <2>6 DEF SoloRestart, SequenceInv, chain
  <2> QED
    BY <2>1, <2>2, <2>3, <2>4, <2>5, <2>6
       DEF ExchangeNext, SoloSends, ReadMailbox, exchangeVars, chain, SequenceInv
<1> QED
  BY <1>1, <1>2, TypeCorrect, PTL DEF ExchangeSpec

\* Two different calls never race for one sequence number unless the solo
\* restarts, which is what queueing deliver() is for (l.368-372).
THEOREM SequencesNeverRace == ExchangeSpec => []NoSharedSequence
<1>1. SequenceInv => NoSharedSequence
  BY DEF SequenceInv, NoSharedSequence
<1> QED
  BY <1>1, SequencesConsistent, PTL

-----------------------------------------------------------------------------

\* An end that has processed the first so many messages goes on with the next
\* ones when a list comes that starts no later.
LEMMA CountedNews ==
    ASSUME NEW got \in Seq(Num), Counted(got),
           NEW lo \in 1..(Len(got) + 1), NEW hi \in Num
    PROVE  /\ Highest(got) = Len(got)
           /\ News(got, lo, hi) = <<>> <=> hi <= Len(got)
           /\ got \o News(got, lo, hi) \in Seq(Num)
           /\ Counted(got \o News(got, lo, hi))
           /\ Len(got \o News(got, lo, hi)) = IF hi > Len(got) THEN hi ELSE Len(got)
<1> DEFINE n == Len(got)
           news == News(got, lo, hi)
<1>0. n \in Nat /\ lo \in Nat /\ hi \in Nat /\ lo <= n + 1
  BY DEF Num
<1>1. Highest(got) = n
  <2>1. got # <<>> => n \in DOMAIN got
    OBVIOUS
  <2>2. got = <<>> => n = 0
    OBVIOUS
  <2> QED
    BY <2>1, <2>2 DEF Highest, Last, Counted
<1>2. Max({lo, n + 1}) = n + 1
  BY <1>0, MaxOfTwo
<1>3. news = Numbers(n + 1, hi)
  BY <1>1, <1>2 DEF News
<1>4. /\ news \in Seq(Num)
      /\ Len(news) = IF hi > n THEN hi - n ELSE 0
      /\ \A i \in DOMAIN news : news[i] = n + i
  <2>1. n + 1 \in Nat \ {0}
    BY <1>0
  <2>2. /\ Numbers(n + 1, hi) \in Seq(Num)
        /\ Len(Numbers(n + 1, hi)) = IF hi < n + 1 THEN 0 ELSE hi - (n + 1) + 1
        /\ \A i \in DOMAIN Numbers(n + 1, hi) : Numbers(n + 1, hi)[i] = n + 1 + i - 1
    BY <2>1, NumbersListed
  <2>3. DOMAIN Numbers(n + 1, hi) \subseteq Nat
    BY <2>2
  <2> QED
    BY <1>0, <1>3, <2>2, <2>3
<1> HIDE DEF news
<1>5. /\ got \o news \in Seq(Num) /\ Len(got \o news) = n + Len(news)
      /\ \A i \in 1..(n + Len(news)) :
            (got \o news)[i] = IF i <= n THEN got[i] ELSE news[i - n]
  BY <1>4, ConcatProperties
<1>6. ASSUME NEW i \in DOMAIN (got \o news) PROVE (got \o news)[i] = i
  <2>1. i \in 1..(n + Len(news)) /\ Len(news) \in Nat
    BY <1>4, <1>5
  <2>2. CASE i <= n
    <3>1. i \in DOMAIN got
      BY <2>1, <2>2
    <3> QED
      BY <1>5, <2>1, <2>2, <3>1 DEF Counted
  <2>3. CASE ~(i <= n)
    <3>1. i - n \in DOMAIN news
      BY <1>0, <1>4, <2>1, <2>3
    <3>2. (got \o news)[i] = n + (i - n)
      BY <1>4, <1>5, <2>1, <2>3, <3>1
    <3> QED
      BY <1>0, <2>1, <3>2
  <2> QED
    BY <2>2, <2>3
<1>7. news = <<>> <=> hi <= n
  BY <1>0, <1>4
<1> QED
  BY <1>0, <1>1, <1>4, <1>5, <1>6, <1>7 DEF news, Counted

\* What a step of the chain's block does to the way to the solo.
LEMMA BlockKeepsToSolo ==
    ASSUME ExchangeTypeOK, ToSoloInv, Block
    PROVE  ToSoloInv' /\ chainSent <= chainSent'
<1>1. PICK t \in pending :
        /\ pending' = {u \in pending : u.seq > seqnum}
        /\ \/ \E more \in 0..1 : Execute(t, more)
           \/ UNCHANGED <<chainSent, chainOutbox, chainGot, mailboxes>>
  BY DEF Block
<1>2. UNCHANGED <<soloGot, writing, sending>>
  BY DEF Block, solo
<1>3. chainSent \in Nat /\ Len(soloGot) \in Nat /\ chainOutbox \in 1..(MaxMsg + 1)
  BY DEF ExchangeTypeOK, Num
<1>4. CASE UNCHANGED <<chainSent, chainOutbox, chainGot, mailboxes>>
  BY <1>1, <1>2, <1>3, <1>4 DEF ToSoloInv, Counted
<1>5. ASSUME NEW more \in 0..1, Execute(t, more)
      PROVE  ToSoloInv' /\ chainSent <= chainSent'
  <2>1. t.call.ack \in Num /\ t.call.ack <= Len(soloGot)
    BY DEF ExchangeTypeOK, Txs, DeliverCalls, ToSoloInv
  <2> DEFINE outbox == Max({chainOutbox, t.call.ack + 1})
  <2>2. outbox <= Len(soloGot) + 1
    BY <1>3, <2>1, AckedType DEF ToSoloInv, Num
  <2>3. chainOutbox' = outbox /\ chainSent' = chainSent + more
    BY <1>5 DEF Execute
  <2>4. \E a : mailboxes' = Append(mailboxes, [lo |-> outbox, hi |-> chainSent', ack |-> a])
    BY <1>5 DEF Execute
  <2> HIDE DEF outbox
  <2>5. ASSUME NEW i \in DOMAIN mailboxes'
        PROVE  mailboxes'[i].lo <= Len(soloGot) + 1 /\ mailboxes'[i].hi <= chainSent'
    <3>0. PICK a : mailboxes' = Append(mailboxes, [lo |-> outbox, hi |-> chainSent', ack |-> a])
      BY <2>4
    <3>1. CASE i \in DOMAIN mailboxes
      <4>1. mailboxes'[i] = mailboxes[i] /\ mailboxes[i] \in Mailbox
        BY <3>0, <3>1 DEF ExchangeTypeOK
      <4>2. mailboxes[i].hi \in Nat
        BY <4>1 DEF Mailbox, Num
      <4> QED
        BY <1>3, <2>3, <3>1, <4>1, <4>2 DEF ToSoloInv
    <3>2. CASE i = Len(mailboxes) + 1
      <4>1. mailboxes'[i] = [lo |-> outbox, hi |-> chainSent', ack |-> a]
        BY <3>0, <3>2 DEF ExchangeTypeOK
      <4> QED
        BY <1>3, <2>2, <2>3, <4>1
    <3>3. i \in DOMAIN mailboxes \/ i = Len(mailboxes) + 1
      BY <3>0 DEF ExchangeTypeOK
    <3> QED
      BY <3>1, <3>2, <3>3
  <2> QED
    BY <1>1, <1>2, <1>3, <2>2, <2>3, <2>5 DEF ToSoloInv, Counted
<1> QED
  BY <1>1, <1>4, <1>5

\* A call made by a kernel that has processed got acks no more than that.
LEMMA CallDeliverAcks ==
    ASSUME ExchangeTypeOK, NEW more \in 0..1, NEW got \in Seq(Num), Counted(got),
           Len(soloGot) <= Len(got),
           \A i \in DOMAIN writing : writing[i].ack <= Len(soloGot),
           CallDeliver(more, got)
    PROVE  \A i \in DOMAIN writing' : writing'[i].ack <= Len(got)
<1>1. Highest(got) = Len(got)
  <2>1. got # <<>> => Len(got) \in DOMAIN got
    OBVIOUS
  <2>2. got = <<>> => Len(got) = 0
    OBVIOUS
  <2> QED
    BY <2>1, <2>2 DEF Highest, Last, Counted
<1>2. writing' = Append(writing, [lo |-> soloSent + 1, hi |-> soloSent + more, ack |-> Len(got)])
  BY <1>1 DEF CallDeliver
<1>3. Len(soloGot) \in Nat /\ Len(got) \in Nat /\ soloGot \in Seq(Num)
  BY DEF ExchangeTypeOK
<1>4. ASSUME NEW i \in DOMAIN writing PROVE writing'[i].ack <= Len(got)
  <2>1. writing'[i] = writing[i] /\ writing[i] \in DeliverCalls
    BY <1>2 DEF ExchangeTypeOK
  <2>2. writing[i].ack \in Nat
    BY <2>1 DEF DeliverCalls, Num
  <2> QED
    BY <1>3, <2>1, <2>2
<1> PICK c : c = [lo |-> soloSent + 1, hi |-> soloSent + more, ack |-> Len(got)]
  OBVIOUS
<1>w. writing \in Seq(DeliverCalls) /\ Len(writing) \in Nat /\ DOMAIN writing = 1..Len(writing)
  BY DEF ExchangeTypeOK
<1>5. writing'[Len(writing) + 1].ack <= Len(got)
  <2>1. writing'[Len(writing) + 1] = c
    BY <1>2, <1>w
  <2> QED
    BY <1>3, <2>1
<1>6. DOMAIN writing' = DOMAIN writing \cup {Len(writing) + 1}
  <2>1. writing' = Append(writing, c) /\ DOMAIN writing' = 1..(Len(writing) + 1)
    BY <1>2, <1>w
  <2>2. \A n \in Nat : 1..(n + 1) = (1..n) \cup {n + 1}
    OBVIOUS
  <2> QED
    BY <1>w, <2>1, <2>2
<1> QED
  BY <1>4, <1>5, <1>6

\* A read, however old the mailbox, adds the next messages of the chain.
LEMMA ReadKeepsToSolo ==
    ASSUME ExchangeTypeOK, ToSoloInv, ReadMailbox
    PROVE  /\ ToSoloInv'
           /\ chainSent' = chainSent
           /\ soloGot' = soloGot \/ Len(soloGot) < Len(soloGot')
<1>1. PICK k \in DOMAIN mailboxes :
        /\ soloGot' = soloGot \o News(soloGot, mailboxes[k].lo, mailboxes[k].hi)
        /\ IF News(soloGot, mailboxes[k].lo, mailboxes[k].hi) # <<>>
           THEN \E more \in 0..1 : CallDeliver(more, soloGot')
           ELSE UNCHANGED <<soloSent, writing>>
  BY DEF ReadMailbox
<1>2. UNCHANGED <<sending, pending, chainSent, chainOutbox, mailboxes>>
  BY DEF ReadMailbox, chain
<1> DEFINE lo == mailboxes[k].lo
           hi == mailboxes[k].hi
           n == Len(soloGot)
<1>3. /\ n \in Nat /\ chainSent \in Nat /\ soloGot \in Seq(Num)
      /\ chainOutbox \in Nat
  BY DEF ExchangeTypeOK, Num
<1>4. lo \in 1..(n + 1) /\ hi \in Num /\ hi <= chainSent
  <2>1. mailboxes[k] \in Mailbox
    BY DEF ExchangeTypeOK
  <2>2. lo \in 1..(MaxMsg + 1) /\ hi \in Num
    BY <2>1 DEF Mailbox
  <2> QED
    BY <1>3, <2>2, ExchangeAssumption DEF ToSoloInv
<1> HIDE DEF lo, hi
<1>5. /\ soloGot' \in Seq(Num) /\ Counted(soloGot')
      /\ Len(soloGot') = IF hi > n THEN hi ELSE n
      /\ News(soloGot, lo, hi) = <<>> <=> hi <= n
  BY <1>1, <1>3, <1>4, CountedNews DEF ToSoloInv, lo, hi
<1>6. n <= Len(soloGot') /\ Len(soloGot') <= chainSent /\ Len(soloGot') \in Nat
  BY <1>3, <1>4, <1>5 DEF ToSoloInv, Num
<1>7. \A i \in DOMAIN writing' : writing'[i].ack <= Len(soloGot')
  <2>1. CASE News(soloGot, lo, hi) # <<>>
    BY <1>1, <1>5, <1>6, <2>1, CallDeliverAcks DEF ToSoloInv, lo, hi
  <2>2. CASE News(soloGot, lo, hi) = <<>>
    <3>1. writing' = writing /\ Len(soloGot') = n
      BY <1>1, <1>3, <1>4, <1>5, <2>2 DEF lo, hi, Num
    <3> QED
      BY <3>1 DEF ToSoloInv
  <2> QED
    BY <2>1, <2>2
<1>8. \A i \in DOMAIN sending : sending[i].ack <= Len(soloGot')
  <2>1. \A i \in DOMAIN sending : sending[i] \in DeliverCalls
    BY DEF ExchangeTypeOK
  <2>2. \A i \in DOMAIN sending : sending[i].ack \in Nat
    BY <2>1 DEF DeliverCalls, Num
  <2> QED
    BY <1>3, <1>6, <2>2 DEF ToSoloInv
<1>9. \A t \in pending : t.call.ack <= Len(soloGot')
  <2>1. \A t \in pending : t.call.ack \in Nat
    BY DEF ExchangeTypeOK, Txs, DeliverCalls, Num
  <2> QED
    BY <1>3, <1>6, <2>1 DEF ToSoloInv
<1>10. \A i \in DOMAIN mailboxes :
          mailboxes[i].lo <= Len(soloGot') + 1 /\ mailboxes[i].hi <= chainSent
  <2>1. \A i \in DOMAIN mailboxes : mailboxes[i] \in Mailbox
    BY DEF ExchangeTypeOK
  <2>2. \A i \in DOMAIN mailboxes : mailboxes[i].lo \in Nat
    BY <2>1, ExchangeAssumption DEF Mailbox
  <2> QED
    BY <1>3, <1>6, <2>2 DEF ToSoloInv
<1>11. ToSoloInv'
  BY <1>2, <1>3, <1>5, <1>6, <1>7, <1>8, <1>9, <1>10 DEF ToSoloInv, Counted
<1>12. soloGot' = soloGot \/ n < Len(soloGot')
  <2>1. CASE hi <= n
    BY <1>1, <1>3, <1>5, <2>1 DEF lo, hi
  <2>2. CASE hi > n
    BY <1>5, <2>2
  <2> QED
    BY <1>3, <1>4, <2>1, <2>2 DEF Num
<1> QED
  BY <1>2, <1>11, <1>12

\* No step of the solo, its queue or its helper touches the way to it.
LEMMA ToSoloConsistent == ExchangeSpec => []ToSoloInv
<1>1. ExchangeInit => ToSoloInv
  BY DEF ExchangeInit, ToSoloInv, Counted
<1>2. ExchangeTypeOK /\ ToSoloInv /\ [ExchangeNext]_exchangeVars => ToSoloInv'
  <2> SUFFICES ASSUME ExchangeTypeOK, ToSoloInv, [ExchangeNext]_exchangeVars PROVE ToSoloInv'
    OBVIOUS
  <2>1. CASE SoloSends
    <3>1. \A i \in DOMAIN writing' : writing'[i].ack <= Len(soloGot)
      BY <2>1, CallDeliverAcks DEF SoloSends, ExchangeTypeOK, ToSoloInv
    <3> QED
      BY <2>1, <3>1 DEF SoloSends, ToSoloInv, Counted, chain
  <2>2. CASE JoinQueue
    <3>1. PICK k \in DOMAIN writing :
            sending' = Append(sending, writing[k]) /\ writing' = RemoveAt(writing, k)
      BY <2>2 DEF JoinQueue
    <3>2. \A i \in DOMAIN writing' : \E j \in DOMAIN writing : writing'[i] = writing[j]
      BY <3>1, Joins DEF ExchangeTypeOK
    <3>3. \A i \in DOMAIN sending' : \/ i \in DOMAIN sending /\ sending'[i] = sending[i]
                                   \/ sending'[i] = writing[k]
      BY <3>1 DEF ExchangeTypeOK
    <3>4. \A i \in DOMAIN sending' : sending'[i].ack <= Len(soloGot)
      BY <3>3 DEF ToSoloInv
    <3>5. \A i \in DOMAIN writing' : writing'[i].ack <= Len(soloGot)
      BY <3>2 DEF ToSoloInv
    <3> QED
      BY <2>2, <3>4, <3>5 DEF JoinQueue, ToSoloInv, Counted, solo, chain
  <2>3. CASE SendTx
    <3>1. sending # <<>> /\ 1 \in DOMAIN sending /\ Head(sending) = sending[1]
      BY <2>3 DEF SendTx, ExchangeTypeOK
    <3>2. pending' = pending \cup {[call |-> sending[1], seq |-> seqnum]}
      BY <2>3, <3>1 DEF SendTx
    <3>3. \A t \in pending' : t.call.ack <= Len(soloGot)
      BY <3>1, <3>2 DEF ToSoloInv
    <3> QED
      BY <2>3, <3>3 DEF SendTx, ToSoloInv, Counted, solo, chain
  <2>4. CASE Block
    BY <2>4, BlockKeepsToSolo
  <2>5. CASE HelperReturns
    <3>1. CASE sending = <<>>
      <4>1. Tail(sending) = <<>>
        BY <3>1
      <4> QED
        BY <2>5, <4>1, <3>1 DEF HelperReturns, ToSoloInv, Counted, solo, chain
    <3>2. CASE sending # <<>>
      <4>1. \A i \in DOMAIN Tail(sending) : Tail(sending)[i] = sending[i + 1] /\ i + 1 \in DOMAIN sending
        BY <3>2 DEF ExchangeTypeOK
      <4> QED
        BY <2>5, <4>1 DEF HelperReturns, ToSoloInv, Counted, solo, chain
    <3> QED
      BY <3>1, <3>2
  <2>6. CASE HelperBreaks
    BY <2>6 DEF HelperBreaks, ToSoloInv, Counted, solo, chain
  <2>7. CASE ReadMailbox
    BY <2>7, ReadKeepsToSolo
  <2>8. CASE SoloRestart
    <3>1. Highest(soloGot) = Len(soloGot)
      <4>1. soloGot # <<>> => Len(soloGot) \in DOMAIN soloGot
        BY DEF ExchangeTypeOK
      <4> QED
        BY <4>1 DEF Highest, Last, ToSoloInv, Counted
    <3>2. writing' = <<[lo |-> soloOutbox, hi |-> soloSent, ack |-> Len(soloGot)]>>
      BY <2>8, <3>1 DEF SoloRestart
    <3>3. \A i \in DOMAIN writing' : writing'[i].ack <= Len(soloGot)
      BY <3>2 DEF ExchangeTypeOK
    <3> QED
      BY <2>8, <3>3 DEF SoloRestart, ToSoloInv, Counted, solo, chain
  <2>9. CASE UNCHANGED exchangeVars
    BY <2>9 DEF exchangeVars, ToSoloInv, Counted, solo, chain
  <2> QED
    BY <2>1, <2>2, <2>3, <2>4, <2>5, <2>6, <2>7, <2>8, <2>9 DEF ExchangeNext
<1> QED
  BY <1>1, <1>2, TypeCorrect, PTL DEF ExchangeSpec

\* What the chain's kernel sends arrives at the solo's in order, each message
\* once and none skipped, although the solo polls, reads lagging nodes,
\* restarts, and its acks are late, lost, repeated or out of order.
THEOREM ToSoloIsChannel == ExchangeSpec => ToSolo!Spec
<1>1. ExchangeInit => ToSolo!Init
  BY DEF ExchangeInit, ToSolo!Init
<1>2. ExchangeTypeOK /\ ExchangeTypeOK' /\ ToSoloInv /\ [ExchangeNext]_exchangeVars => [ToSolo!Send \/ ToSolo!Receive]_(ToSolo!vars)
  <2> SUFFICES ASSUME ExchangeTypeOK, ExchangeTypeOK', ToSoloInv, [ExchangeNext]_exchangeVars
               PROVE  [ToSolo!Send \/ ToSolo!Receive]_(ToSolo!vars)
    OBVIOUS
  <2>0. chainSent \in Nat /\ chainSent' \in Nat
    BY DEF ExchangeTypeOK, Num
  <2>1. CASE Block
    <3>1. chainSent <= chainSent' /\ soloGot' = soloGot
      BY <2>1, BlockKeepsToSolo DEF Block, solo
    <3>2. chainSent' > chainSent \/ chainSent' = chainSent
      BY <2>0, <3>1
    <3> QED
      BY <3>1, <3>2 DEF ToSolo!Send, ToSolo!vars
  <2>2. CASE ReadMailbox
    <3>1. ToSoloInv' /\ chainSent' = chainSent
      BY <2>2, ReadKeepsToSolo
    <3>2. CASE soloGot' = soloGot
      BY <3>1, <3>2 DEF ToSolo!vars
    <3>3. CASE Len(soloGot) < Len(soloGot')
      <4> DEFINE k == Len(soloGot')
      <4>1. k \in (Len(soloGot) + 1)..chainSent
        BY <3>1, <3>3 DEF ToSoloInv, ExchangeTypeOK, Num
      <4>2. soloGot' = [i \in 1..k |-> i]
        <5>1. soloGot' \in Seq(Num)
          BY DEF ExchangeTypeOK
        <5>2. soloGot' = [i \in 1..k |-> soloGot'[i]]
          BY <5>1
        <5> QED
          BY <3>1, <5>1, <5>2 DEF ToSoloInv, Counted
      <4>3. chainSent' >= chainSent
        BY <2>0, <3>1
      <4> QED
        BY <4>1, <4>2, <4>3 DEF ToSolo!Receive
    <3> QED
      BY <2>2, <3>2, <3>3, ReadKeepsToSolo
  <2> QED
    BY <2>1, <2>2 DEF ExchangeNext, SoloSends, JoinQueue, SendTx, HelperReturns, HelperBreaks,
                      SoloRestart, exchangeVars, solo, chain, ToSolo!vars
<1> QED
  BY <1>1, <1>2, TypeCorrect, ToSoloConsistent, PTL DEF ExchangeSpec, ToSolo!Spec

-----------------------------------------------------------------------------

\* A sequence is its head before its tail.
LEMMA HeadAndTail ==
    ASSUME NEW S, NEW s \in Seq(S)
    PROVE  /\ s # <<>> => s[1] \in S /\ Tail(s) \in Seq(S) /\ s = <<s[1]>> \o Tail(s)
           /\ \A e \in S : Tail(<<e>> \o s) = s
<1>1. ASSUME s # <<>>
      PROVE  s[1] \in S /\ Tail(s) \in Seq(S) /\ s = <<s[1]>> \o Tail(s)
  <2>1. /\ s[1] \in S /\ Tail(s) \in Seq(S) /\ Len(Tail(s)) = Len(s) - 1
        /\ \A i \in 1..Len(Tail(s)) : Tail(s)[i] = s[i + 1]
    BY <1>1, HeadTailProperties
  <2> DEFINE h == <<s[1]>>
             r == Tail(s)
  <2>2. h \in Seq(S) /\ Len(h) = 1 /\ h[1] = s[1] /\ r \in Seq(S)
    BY <2>1
  <2> HIDE DEF h, r
  <2>3. /\ h \o r \in Seq(S) /\ Len(h \o r) = 1 + Len(r)
        /\ \A i \in 1..(1 + Len(r)) :
              (h \o r)[i] = IF i <= 1 THEN h[i] ELSE r[i - 1]
    <3>1. /\ h \o r \in Seq(S) /\ Len(h \o r) = Len(h) + Len(r)
          /\ \A i \in 1..(Len(h) + Len(r)) :
                (h \o r)[i] = IF i <= Len(h) THEN h[i] ELSE r[i - Len(h)]
      BY <2>2, ConcatProperties
    <3> QED
      BY <2>2, <3>1
  <2>4. ASSUME NEW i \in 1..Len(s) PROVE s[i] = (h \o r)[i]
    <3>1. CASE i = 1
      BY <2>1, <2>2, <2>3, <3>1 DEF r
    <3>2. CASE i # 1
      <4>1. i - 1 \in 1..Len(r) /\ i - 1 + 1 = i
        BY <2>1, <3>2 DEF r
      <4> QED
        BY <2>1, <2>3, <3>2, <4>1 DEF r
    <3> QED
      BY <3>1, <3>2
  <2>5. s = h \o r
    BY <2>1, <2>3, <2>4, SeqEqual DEF r
  <2> QED
    BY <2>1, <2>5 DEF h, r
<1>2. ASSUME NEW e \in S PROVE Tail(<<e>> \o s) = s
  <2> DEFINE h == <<e>>
             t == h \o s
  <2>1. h \in Seq(S) /\ Len(h) = 1
    OBVIOUS
  <2> HIDE DEF h
  <2>2. /\ t \in Seq(S) /\ Len(t) = 1 + Len(s)
        /\ \A i \in 1..(1 + Len(s)) : t[i] = IF i <= 1 THEN h[i] ELSE s[i - 1]
    <3>1. /\ h \o s \in Seq(S) /\ Len(h \o s) = Len(h) + Len(s)
          /\ \A i \in 1..(Len(h) + Len(s)) :
                (h \o s)[i] = IF i <= Len(h) THEN h[i] ELSE s[i - Len(h)]
      BY <2>1, ConcatProperties
    <3> QED
      BY <2>1, <3>1
  <2> HIDE DEF t
  <2>3. t # <<>>
    BY <2>2
  <2>4. /\ Tail(t) \in Seq(S) /\ Len(Tail(t)) = Len(s)
        /\ \A i \in 1..Len(s) : Tail(t)[i] = t[i + 1]
    BY <2>2, <2>3, HeadTailProperties
  <2>5. \A i \in 1..Len(s) : Tail(t)[i] = s[i]
    BY <2>2, <2>4
  <2>6. Tail(t) = s
    BY <2>4, <2>5, SeqEqual
  <2> QED
    BY <2>6 DEF h, t
<1> QED
  BY <1>1, <1>2

\* What the queue and the calls being written amount to together: a call that
\* joins moves over, a new one is the last, one that is done was the first.
LEMMA Backlog ==
    ASSUME NEW S, NEW q \in Seq(S), NEW w \in Seq(S), NEW e \in S
    PROVE  /\ w # <<>> => Append(q, w[1]) \o Tail(w) = q \o w
           /\ q \o Append(w, e) = Append(q \o w, e)
           /\ q # <<>> => /\ Tail(q) \o w = Tail(q \o w)
                          /\ q \o w # <<>> /\ (q \o w)[1] = q[1]
<1>1. ASSUME w # <<>> PROVE Append(q, w[1]) \o Tail(w) = q \o w
  <2>1. w[1] \in S /\ Tail(w) \in Seq(S) /\ w = <<w[1]>> \o Tail(w)
    BY <1>1, HeadAndTail
  <2>2. <<w[1]>> \in Seq(S) /\ Append(q, w[1]) = q \o <<w[1]>>
    BY <2>1, AppendIsConcat
  <2>3. (q \o <<w[1]>>) \o Tail(w) = q \o (<<w[1]>> \o Tail(w))
    BY <2>1, <2>2, ConcatAssociative
  <2> QED
    BY <2>1, <2>2, <2>3
<1>2. q \o Append(w, e) = Append(q \o w, e)
  <2>1. q \o w \in Seq(S) /\ <<e>> \in Seq(S)
    OBVIOUS
  <2>2. Append(w, e) = w \o <<e>> /\ Append(q \o w, e) = (q \o w) \o <<e>>
    BY <2>1, AppendIsConcat
  <2> QED
    BY <2>1, <2>2, ConcatAssociative
<1>3. ASSUME q # <<>>
      PROVE  Tail(q) \o w = Tail(q \o w) /\ q \o w # <<>> /\ (q \o w)[1] = q[1]
  <2>1. q[1] \in S /\ Tail(q) \in Seq(S) /\ q = <<q[1]>> \o Tail(q)
    BY <1>3, HeadAndTail
  <2>2. <<q[1]>> \in Seq(S) /\ Tail(q) \o w \in Seq(S)
    BY <2>1
  <2>3. q \o w = <<q[1]>> \o (Tail(q) \o w)
    BY <2>1, <2>2, ConcatAssociative
  <2>4. Tail(q \o w) = Tail(q) \o w
    BY <2>1, <2>2, <2>3, HeadAndTail
  <2>5. q \o w # <<>> /\ (q \o w)[1] = q[1]
    <3>1. Len(q) >= 1 /\ 1 \in 1..(Len(q) + Len(w))
      BY <1>3
    <3> QED
      BY <3>1, ConcatProperties
  <2> QED
    BY <2>4, <2>5
<1> QED
  BY <1>1, <1>2, <1>3

\* Consecutive calls stay so when one is added that starts where they end, and
\* when the first is done and goes.
LEMMA ConsecutiveCalls ==
    ASSUME NEW calls \in Seq(DeliverCalls), NEW from \in Nat, NEW to \in Nat,
           Consecutive(calls, from, to)
    PROVE  /\ \A c \in DeliverCalls : c.lo = to + 1 /\ c.hi \in {to, to + 1} =>
                Consecutive(Append(calls, c), from, c.hi)
           /\ calls # <<>> =>
                /\ Consecutive(calls, calls[1].hi, to)
                /\ from = calls[1].hi => Consecutive(Tail(calls), from, to)
<1>0. \A i \in DOMAIN calls : calls[i].lo \in Nat /\ calls[i].hi \in Nat
  <2>1. \A i \in DOMAIN calls : calls[i] \in DeliverCalls
    OBVIOUS
  <2> QED
    BY <2>1, ExchangeAssumption, SMTT(30) DEF DeliverCalls, Num
<1>1. ASSUME NEW c \in DeliverCalls, c.lo = to + 1, c.hi \in {to, to + 1}
      PROVE  Consecutive(Append(calls, c), from, c.hi)
  <2> DEFINE d == Append(calls, c)
             n == Len(calls)
  <2>1. /\ d \in Seq(DeliverCalls) /\ Len(d) = n + 1 /\ d[n + 1] = c /\ d # <<>>
        /\ \A i \in 1..n : d[i] = calls[i]
    BY AppendProperties
  <2> HIDE DEF d
  <2>2. \A i \in 1..(n + 1) : d[i].lo <= d[i].hi + 1 /\ d[i].hi <= c.hi
    <3>1. ASSUME NEW i \in 1..n PROVE d[i].lo <= d[i].hi + 1 /\ d[i].hi <= c.hi
      <4>1. i \in DOMAIN calls /\ d[i] = calls[i]
        BY <2>1
      <4>2. calls[i].hi \in Nat /\ calls[i].lo <= calls[i].hi + 1 /\ calls[i].hi <= to
        BY <1>0, <4>1 DEF Consecutive
      <4> QED
        BY <1>1, <4>1, <4>2
    <3>2. d[n + 1].lo <= d[n + 1].hi + 1 /\ d[n + 1].hi <= c.hi
      BY <1>1, <2>1
    <3>3. \A i \in 1..(n + 1) : i \in 1..n \/ i = n + 1
      OBVIOUS
    <3> QED
      BY <3>1, <3>2, <3>3
  <2>3. ASSUME NEW i \in 1..n PROVE d[i + 1].lo = d[i].hi + 1
    <3>1. CASE i = n
      <4>1. calls # <<>> /\ calls[n].hi = to
        BY <3>1 DEF Consecutive
      <4> QED
        BY <1>1, <2>1, <3>1, <4>1
    <3>2. CASE i # n
      <4>1. i \in 1..(n - 1) /\ i + 1 \in 1..n
        BY <3>2
      <4> QED
        BY <2>1, <4>1 DEF Consecutive
    <3> QED
      BY <3>1, <3>2
  <2>4. d[1].lo <= from + 1 /\ from <= d[1].hi
    <3>1. CASE calls = <<>>
      BY <1>1, <2>1, <3>1 DEF Consecutive
    <3>2. CASE calls # <<>>
      BY <2>1, <3>2 DEF Consecutive
    <3> QED
      BY <3>1, <3>2
  <2>5. Consecutive(d, from, c.hi)
    BY <2>1, <2>2, <2>3, <2>4 DEF Consecutive
  <2> QED
    BY <2>5 DEF d
<1>2. ASSUME calls # <<>> PROVE Consecutive(calls, calls[1].hi, to)
  BY <1>0, <1>2 DEF Consecutive
<1>3. ASSUME calls # <<>>, from = calls[1].hi PROVE Consecutive(Tail(calls), from, to)
  <2> DEFINE d == Tail(calls)
             n == Len(calls) - 1
  <2>1. d \in Seq(DeliverCalls) /\ Len(d) = n /\ \A i \in 1..n : d[i] = calls[i + 1]
    BY <1>3, HeadTailProperties
  <2>2. n \in Nat /\ 1 \in DOMAIN calls /\ \A i \in 1..n : i + 1 \in DOMAIN calls
    BY <1>3
  <2> HIDE DEF d
  <2>3. \A i \in 1..n : d[i].lo <= d[i].hi + 1 /\ d[i].hi <= to
    BY <2>1, <2>2 DEF Consecutive
  <2>4. \A i \in 1..(n - 1) : d[i + 1].lo = d[i].hi + 1
    BY <2>1, <2>2 DEF Consecutive
  <2>5. ASSUME n = 0 PROVE Consecutive(d, from, to)
    <3>1. d = <<>> /\ Len(calls) = 1 /\ calls[1].hi = to
      BY <1>3, <2>1, <2>2, <2>5 DEF Consecutive
    <3>2. from = to
      BY <1>3, <3>1
    <3>3. DOMAIN d = {} /\ 1..(Len(d) - 1) = {}
      BY <2>1, <2>5
    <3> QED
      BY <3>1, <3>2, <3>3 DEF Consecutive
  <2>6. ASSUME n # 0 PROVE Consecutive(d, from, to)
    <3>1. d # <<>> /\ 1 \in 1..n /\ n \in 1..n
      BY <2>1, <2>2, <2>6
    <3>2. d[1] = calls[2] /\ d[n] = calls[n + 1] /\ calls[2].lo = calls[1].hi + 1
      BY <2>1, <2>2, <3>1 DEF Consecutive
    <3>3. d[n].hi = to
      BY <1>3, <2>2, <3>2 DEF Consecutive
    <3>4. d[1].lo <= from + 1 /\ from <= d[1].hi
      <4>1. d[1].lo = from + 1 /\ d[1].hi \in Nat /\ d[1].lo <= d[1].hi + 1
        BY <1>0, <1>3, <2>2, <2>3, <3>1, <3>2
      <4> QED
        BY <4>1
    <3>5. DOMAIN d = 1..n /\ Len(d) = n
      BY <2>1
    <3> HIDE DEF n
    <3> QED
      BY <2>3, <2>4, <3>1, <3>3, <3>4, <3>5 DEF Consecutive
  <2>7. Consecutive(d, from, to)
    BY <2>5, <2>6
  <2> QED
    BY <2>7 DEF d
<1> QED
  BY <1>1, <1>2, <1>3

\* A call made by the solo's kernel goes on where the last one ended.
LEMMA CallDeliverConsecutive ==
    ASSUME ExchangeTypeOK, NEW more \in 0..1, soloSent + more <= MaxMsg,
           NEW got \in Seq(Num), CallDeliver(more, got),
           Consecutive(sending \o writing, Len(chainGot), soloSent)
    PROVE  /\ Consecutive(sending \o writing', Len(chainGot), soloSent')
           /\ soloSent' \in Nat /\ soloSent <= soloSent'
<1>1. soloSent \in Nat /\ MaxMsg \in Nat /\ Highest(got) \in Num /\ Len(chainGot) \in Nat
  BY HighestType, ExchangeAssumption DEF ExchangeTypeOK, Num
<1> DEFINE c == [lo |-> soloSent + 1, hi |-> soloSent + more, ack |-> Highest(got)]
<1>2. c \in DeliverCalls
  BY <1>1 DEF DeliverCalls, Num
<1>3. c.lo = soloSent + 1 /\ c.hi = soloSent + more /\ c.hi \in {soloSent, soloSent + 1}
  BY <1>1
<1>4. writing' = Append(writing, c) /\ soloSent' = c.hi
  BY <1>3 DEF CallDeliver
<1> HIDE DEF c
<1>5. sending \o writing \in Seq(DeliverCalls)
  BY DEF ExchangeTypeOK
<1>6. Consecutive(Append(sending \o writing, c), Len(chainGot), c.hi)
  BY <1>1, <1>2, <1>3, <1>5, ConsecutiveCalls
<1>7. sending \o Append(writing, c) = Append(sending \o writing, c)
  BY <1>2, Backlog, SMTT(30) DEF ExchangeTypeOK
<1> QED
  BY <1>1, <1>3, <1>4, <1>6, <1>7

\* What a block makes of the head call, the only one that is under way.
LEMMA BlockKeepsToChain ==
    ASSUME ExchangeTypeOK, SequenceInv, ~harsh, ToChainInv, Block
    PROVE  /\ ToChainInv'
           /\ chainGot' = chainGot \/ Len(chainGot) < Len(chainGot')
           /\ Len(chainGot') <= soloSent
<1>1. PICK t \in pending :
        \E more \in 0..1 : Execute(t, more)
  BY DEF Block
<1> DEFINE n == Len(chainGot)
           calls == sending \o writing
           c == t.call
<1>2. c.lo \in 1..(MaxMsg + 1) /\ c.hi \in Num /\ c.hi \in Nat
  BY DEF ExchangeTypeOK, Txs, DeliverCalls, Num
<1>3. sending # <<>> /\ c = sending[1]
  BY DEF SequenceInv, ExchangeTypeOK
<1>4. calls \in Seq(DeliverCalls) /\ calls # <<>> /\ calls[1] = c
  <2>1. sending \in Seq(DeliverCalls) /\ writing \in Seq(DeliverCalls) /\ sending[1] \in DeliverCalls
    BY <1>3 DEF ExchangeTypeOK
  <2> QED
    BY <1>3, <2>1, Backlog
<1> HIDE DEF calls, c
<1>5. /\ Consecutive(calls, n, soloSent)
      /\ c.lo <= n + 1 /\ n <= c.hi /\ c.hi <= soloSent
  <2>1. Consecutive(calls, n, soloSent)
    BY DEF ToChainInv, calls
  <2>2. 1 \in DOMAIN calls
    BY <1>4
  <2> QED
    BY <1>4, <2>1, <2>2 DEF Consecutive
<1>6. n \in Nat /\ soloSent \in Nat /\ chainGot \in Seq(Num) /\ c.lo \in 1..(n + 1)
  BY <1>2, <1>5, ExchangeAssumption DEF ExchangeTypeOK, Num
<1>7. chainGot' = chainGot \o News(chainGot, c.lo, c.hi)
  BY <1>1 DEF Execute, c
<1>8. /\ Counted(chainGot') /\ Len(chainGot') = c.hi
      /\ News(chainGot, c.lo, c.hi) = <<>> <=> c.hi <= n
  <2>1. Counted(chainGot)
    BY DEF ToChainInv
  <2>2. /\ News(chainGot, c.lo, c.hi) = <<>> <=> c.hi <= n
        /\ Counted(chainGot \o News(chainGot, c.lo, c.hi))
        /\ Len(chainGot \o News(chainGot, c.lo, c.hi)) = IF c.hi > n THEN c.hi ELSE n
    BY <1>2, <1>6, <2>1, CountedNews
  <2>3. Counted(chainGot')
    BY <1>7, <2>2
  <2> QED
    BY <1>2, <1>5, <1>6, <1>7, <2>2, <2>3
<1>9. Consecutive(calls, c.hi, soloSent)
  BY <1>4, <1>5, <1>6, ConsecutiveCalls
<1>10. UNCHANGED <<sending, writing, soloSent, attempt>>
  BY DEF Block, solo
<1>11. ToChainInv'
  BY <1>3, <1>8, <1>9, <1>10 DEF ToChainInv, Counted, calls, c
<1>12. chainGot' = chainGot \/ n < Len(chainGot')
  BY <1>2, <1>5, <1>6, <1>7, <1>8
<1> QED
  BY <1>5, <1>8, <1>11, <1>12

\* The calls stay consecutive while none overtakes another, the solo stays up
\* and the chain executes what it takes into a block.
LEMMA ToChainConsistent == ExchangeSpec => [](~harsh => ToChainInv)
<1>1. ExchangeInit => ToChainInv
  <2> SUFFICES ASSUME ExchangeInit PROVE ToChainInv
    OBVIOUS
  <2>1. sending \o writing = <<>>
    BY DEF ExchangeInit
  <2> QED
    BY <2>1 DEF ExchangeInit, ToChainInv, Counted, Consecutive
<1>2. ExchangeTypeOK /\ SequenceInv /\ (~harsh => ToChainInv) /\ [ExchangeNext]_exchangeVars => (~harsh => ToChainInv)'
  <2> SUFFICES ASSUME ExchangeTypeOK, SequenceInv, ~harsh => ToChainInv, [ExchangeNext]_exchangeVars, ~harsh'
               PROVE  ToChainInv'
    OBVIOUS
  <2>0. ~harsh /\ ToChainInv
    <3>1. harsh' = harsh
      BY DEF ExchangeNext, SoloSends, JoinQueue, SendTx, Block, HelperReturns, HelperBreaks,
             ReadMailbox, SoloRestart, exchangeVars
    <3> QED
      BY <3>1
  <2>1. CASE SoloSends
    <3>1. Consecutive(sending \o writing', Len(chainGot), soloSent')
      <4>1. soloSent + 1 <= MaxMsg /\ CallDeliver(1, soloGot) /\ soloGot \in Seq(Num)
        BY <2>1, ExchangeAssumption, SMTT(30) DEF SoloSends, ExchangeTypeOK, Num
      <4> QED
        BY <2>0, <4>1, CallDeliverConsecutive DEF ToChainInv
    <3> QED
      BY <2>0, <2>1, <3>1 DEF SoloSends, ToChainInv, Counted, chain
  <2>2. CASE JoinQueue
    <3>1. /\ writing # <<>> /\ 1 \in DOMAIN writing
          /\ sending' = Append(sending, writing[1]) /\ writing' = RemoveAt(writing, 1)
      BY <2>0, <2>2 DEF JoinQueue, ExchangeTypeOK
    <3>2. /\ writing' = Tail(writing) /\ writing[1] \in DeliverCalls
          /\ sending \in Seq(DeliverCalls) /\ writing \in Seq(DeliverCalls)
      BY <3>1, Joins, SMTT(30) DEF ExchangeTypeOK
    <3>3. sending' \o writing' = sending \o writing
      <4>1. Append(sending, writing[1]) \o Tail(writing) = sending \o writing
        BY <3>1, <3>2, Backlog
      <4> QED
        BY <3>1, <3>2, <4>1
    <3>4. sending # <<>> => sending' # <<>> /\ sending'[1] = sending[1]
      <4>1. Append(sending, writing[1]) # <<>>
        BY <3>2, AppendProperties
      <4>2. sending # <<>> => 1 \in 1..Len(sending)
        BY <3>2
      <4>3. sending # <<>> => Append(sending, writing[1])[1] = sending[1]
        BY <3>2, <4>2, AppendProperties
      <4> QED
        BY <3>1, <4>1, <4>3
    <3> QED
      BY <2>0, <2>2, <3>3, <3>4 DEF JoinQueue, ToChainInv, Counted, solo, chain
  <2>3. CASE SendTx
    <3>1. attempt'.seq = seqnum /\ seqnum \in Nat
      BY <2>3 DEF SendTx, ExchangeTypeOK
    <3> QED
      BY <2>0, <2>3, <3>1 DEF SendTx, ToChainInv, Counted, solo, chain
  <2>4. CASE Block
    BY <2>0, <2>4, BlockKeepsToChain
  <2>5. CASE HelperReturns
    <3>1. sending # <<>> /\ Len(chainGot) = sending[1].hi
      BY <2>0, <2>5 DEF HelperReturns, ToChainInv
    <3> DEFINE calls == sending \o writing
    <3>2. /\ sending[1] \in DeliverCalls /\ sending \in Seq(DeliverCalls) /\ writing \in Seq(DeliverCalls)
          /\ Len(chainGot) \in Nat /\ soloSent \in Nat
      BY <3>1 DEF ExchangeTypeOK, Num
    <3>3. Tail(sending) \o writing = Tail(calls) /\ calls # <<>> /\ calls[1] = sending[1]
      BY <3>1, <3>2, Backlog
    <3>4. calls \in Seq(DeliverCalls) /\ Consecutive(calls, Len(chainGot), soloSent)
      BY <2>0, <3>2 DEF ToChainInv
    <3> HIDE DEF calls
    <3>5. Consecutive(Tail(calls), Len(chainGot), soloSent)
      BY <3>1, <3>2, <3>3, <3>4, ConsecutiveCalls
    <3> QED
      BY <2>0, <2>5, <3>3, <3>5 DEF HelperReturns, ToChainInv, Counted, solo, chain
  <2>6. CASE HelperBreaks
    BY <2>0, <2>6 DEF HelperBreaks, ToChainInv, Counted, solo, chain
  <2>7. CASE ReadMailbox
    <3>1. UNCHANGED <<sending, attempt, seqnum, chainGot>>
      BY <2>7 DEF ReadMailbox, chain
    <3>2. PICK k \in DOMAIN mailboxes :
            IF News(soloGot, mailboxes[k].lo, mailboxes[k].hi) # <<>>
            THEN \E more \in 0..1 :
                   /\ soloSent + more <= MaxMsg
                   /\ CallDeliver(more, soloGot \o News(soloGot, mailboxes[k].lo, mailboxes[k].hi))
            ELSE UNCHANGED <<soloSent, writing>>
      BY <2>7 DEF ReadMailbox
    <3>3. soloGot \o News(soloGot, mailboxes[k].lo, mailboxes[k].hi) \in Seq(Num)
      <4>1. mailboxes[k] \in Mailbox
        BY DEF ExchangeTypeOK
      <4>2. mailboxes[k].lo \in Nat \ {0} /\ mailboxes[k].hi \in Num
        BY <4>1, ExchangeAssumption DEF Mailbox
      <4>3. soloGot \in Seq(Num) /\ News(soloGot, mailboxes[k].lo, mailboxes[k].hi) \in Seq(Num)
        BY <4>2, NewsIsNew DEF ExchangeTypeOK
      <4> QED
        BY <4>3
    <3>4. Consecutive(sending \o writing', Len(chainGot), soloSent')
      BY <2>0, <3>2, <3>3, CallDeliverConsecutive DEF ToChainInv
    <3> QED
      BY <2>0, <3>1, <3>4 DEF ToChainInv, Counted
  <2>8. CASE SoloRestart
    BY <2>0, <2>8 DEF SoloRestart
  <2>9. CASE UNCHANGED exchangeVars
    BY <2>0, <2>9 DEF exchangeVars, ToChainInv, Counted, solo, chain
  <2> QED
    BY <2>1, <2>2, <2>3, <2>4, <2>5, <2>6, <2>7, <2>8, <2>9 DEF ExchangeNext
<1> QED
  BY <1>1, <1>2, TypeCorrect, SequencesConsistent, PTL DEF ExchangeSpec

\* What the solo's kernel sends is processed by the chain's in order, once
\* and without a gap, through failing helpers, lost transactions and retries,
\* as long as no call overtakes another, none is rejected and the solo stays up.
THEOREM ToChainIsChannel == ExchangeSpec => ToChain!Spec
<1>1. ExchangeInit => ToChain!Init
  BY DEF ExchangeInit, ToChain!Init
<1>2. ExchangeTypeOK /\ ExchangeTypeOK' /\ SequenceInv /\ (~harsh => ToChainInv) /\ [ExchangeNext]_exchangeVars
        => [ToChain!Send \/ ToChain!Receive]_(ToChain!vars)
  <2> SUFFICES ASSUME ExchangeTypeOK, ExchangeTypeOK', SequenceInv, ~harsh => ToChainInv, [ExchangeNext]_exchangeVars
               PROVE  [ToChain!Send \/ ToChain!Receive]_(ToChain!vars)
    OBVIOUS
  <2>1. harsh' = harsh
    BY DEF ExchangeNext, SoloSends, JoinQueue, SendTx, Block, HelperReturns, HelperBreaks,
           ReadMailbox, SoloRestart, exchangeVars
  <2>2. CASE harsh
    BY <2>1, <2>2 DEF ToChain!vars
  <2>3. CASE ~harsh
    <3>1. soloSent \in Nat /\ soloSent' \in Nat
      BY DEF ExchangeTypeOK, Num
    <3>2. ASSUME soloSent <= soloSent', chainGot' = chainGot
          PROVE  [ToChain!Send \/ ToChain!Receive]_(ToChain!vars)
      <4>1. soloSent' > soloSent \/ soloSent' = soloSent
        BY <3>1, <3>2
      <4> QED
        BY <2>1, <2>3, <3>2, <4>1 DEF ToChain!Send, ToChain!vars
    <3>3. CASE SoloSends
      <4>1. soloSent' = soloSent + 1 /\ chainGot' = chainGot
        BY <3>3 DEF SoloSends, CallDeliver, chain
      <4> QED
        BY <3>1, <3>2, <4>1
    <3>4. CASE ReadMailbox
      <4>1. soloSent' = soloSent \/ (\E more \in 0..1 : soloSent' = soloSent + more)
        BY <3>4 DEF ReadMailbox, CallDeliver
      <4> QED
        BY <3>1, <3>2, <3>4, <4>1 DEF ReadMailbox, chain
    <3>5. CASE Block
      <4>1. /\ ToChainInv' /\ Len(chainGot') <= soloSent
            /\ chainGot' = chainGot \/ Len(chainGot) < Len(chainGot')
        BY <2>3, <3>5, BlockKeepsToChain
      <4>2. soloSent' = soloSent
        BY <3>5 DEF Block, solo
      <4>3. CASE chainGot' = chainGot
        BY <3>1, <3>2, <4>2, <4>3
      <4>4. CASE Len(chainGot) < Len(chainGot')
        <5> DEFINE k == Len(chainGot')
        <5>1. chainGot \in Seq(Num) /\ chainGot' \in Seq(Num)
          BY DEF ExchangeTypeOK
        <5>2. k \in (Len(chainGot) + 1)..soloSent
          BY <3>1, <4>1, <4>4, <5>1
        <5>3. chainGot' = [i \in 1..k |-> chainGot'[i]]
          BY <5>1
        <5>4. chainGot' = [i \in 1..k |-> i]
          BY <4>1, <5>1, <5>3 DEF ToChainInv, Counted
        <5>5. soloSent' >= soloSent
          BY <3>1, <4>2
        <5> HIDE DEF k
        <5> QED
          BY <2>1, <2>3, <5>2, <5>4, <5>5 DEF ToChain!Receive
      <4> QED
        BY <4>1, <4>3, <4>4
    <3>6. CASE UNCHANGED <<soloSent, chainGot>>
      BY <3>1, <3>2, <3>6
    <3> QED
      BY <3>3, <3>4, <3>5, <3>6
         DEF ExchangeNext, JoinQueue, SendTx, HelperReturns, HelperBreaks, SoloRestart, exchangeVars, solo, chain
  <2> QED
    BY <2>2, <2>3
<1> QED
  BY <1>1, <1>2, TypeCorrect, SequencesConsistent, ToChainConsistent, PTL DEF ExchangeSpec, ToChain!Spec

\* Both directions are channels: the whole of what the exchange promises.
THEOREM ExchangeImplementsChannels == ExchangeSpec => BothWaysAreChannels
  BY ToSoloIsChannel, ToChainIsChannel, PTL DEF BothWaysAreChannels

=============================================================================
