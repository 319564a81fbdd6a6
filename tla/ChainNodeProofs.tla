-------------------------- MODULE ChainNodeProofs --------------------------
(***************************************************************************)
(* Theorems about ChainNode, for any peers, any pattern of forwarding and  *)
(* any number of transactions, crashes and failed writes.                  *)
(***************************************************************************)
EXTENDS ChainNode, FiniteSetTheorems, TLAPS

\* The messages of peers that made kernel k write to p: as many as it sent.
WrittenTo(k, p) == {m \in Peers \X (1..MaxIn) : p \in Fwd[m[1]] /\ m[2] <= k.delivered[m[1]]}
Counted(k) == \A p \in Peers : k.sent[p] = Cardinality(WrittenTo(k, p))

CountedInv == /\ kernel # Missing => Counted(kernel)
              /\ file \notin {Missing, Torn} => Counted(file)

\* How far a call has come tells which of the node's parts are there.
StageInv ==
    /\ chainStage \in {"called", "saving", "ready"} => lastPort \in ports
    /\ chainStage \in {"saving", "ready", "done"} => kernel # Missing
    /\ chainStage \in {"saving", "ready"} => sPort = lastPort
    /\ chainStage = "called" => cache = deliver
    /\ kernel = Missing \/ (chainStage = "saving" /\ saver = "launch") => deliver = store

\* An ack in a transaction was shown by the committed store.
Shown(t) ==
    \/ t.ack = 0
    \/ store.peer[t.peer] # Missing /\ t.ack \in store.peer[t.peer].outbox
ShownTxs == {t \in Txs : Shown(t)}
TxInv ==
    /\ chainStage # "idle" => tx \in ShownTxs
    /\ block \in Seq(ShownTxs)
    /\ replay \in Seq(ShownTxs)

\* The two forms of the mailbox in a store agree: a peer's entry is that of the
\* mailbox, and is missing only while nothing was ever sent or acked.
Consistent(s) ==
    \A p \in Peers :
        /\ s.peer[p] # Missing => s.mailbox # Missing /\ s.peer[p] = s.mailbox[p]
        /\ s.peer[p] = Missing => s.mailbox \in {Missing, EmptyMailbox}

FormsInv ==
    /\ Consistent(store) /\ Consistent(deliver)
    /\ chainStage \in {"ready", "done"} => Consistent(cache)
    /\ chainStage = "saving" /\ saver = "launch" =>
         /\ cache = deliver
         /\ mbs = IF cache.mailbox = Missing THEN EmptyMailbox ELSE cache.mailbox
    /\ chainStage = "saving" /\ saver = "inbound" => \A p \in Peers : cache.peer[p] = mbs[p]

\* A store is not ahead of the mailbox in memory, which is not ahead of the
\* kernel; and it has dropped no outbound message the kernel still waits for.
Behind(s) ==
    \A p \in Peers :
        /\ s.mailbox # Missing => s.mailbox[p].ack <= mbs[p].ack
        /\ s.peer[p] # Missing =>
             \A n \in s.peer[p].outbox : n > kernel.acked[p] => n \in mbs[p].outbox

BehindInv ==
    /\ kernel # Missing =>
         /\ \A p \in Peers : mbs[p].ack <= kernel.delivered[p]
         /\ Behind(store) /\ Behind(deliver)
         /\ chainStage \in {"ready", "done"} => Behind(cache)
    /\ store.mailbox # Missing => deliver.mailbox # Missing
    /\ chainStage \in {"ready", "saving", "done"} /\ deliver.mailbox # Missing => cache.mailbox # Missing

\* The acks of the stores only rise.
AcksRise(s, r) ==
    s.mailbox # Missing => \A p \in Peers : s.mailbox[p].ack <= r.mailbox[p].ack

RisingInv ==
    /\ AcksRise(store, deliver)
    /\ chainStage \in {"ready", "saving", "done"} => AcksRise(deliver, cache)

\* The state file is the kernel in memory, or what a launch will find: a
\* kernel that is not behind the committed store.
FileInv ==
    /\ file = Missing => kernel = Missing /\ store.mailbox = Missing
    /\ file \notin {Missing, Torn} =>
         /\ kernel \in {Missing, file}
         /\ store.mailbox # Missing =>
              \A p \in Peers : store.mailbox[p].ack <= file.delivered[p]

\* A store shows each peer its entry of the mailbox in memory.
ShowsMemory(s) ==
    \A p \in Peers :
        \/ s.peer[p] = mbs[p]
        \/ s.peer[p] = Missing /\ mbs = EmptyMailbox

ShownInv ==
    kernel # Missing /\ ~dirty =>
        /\ chainStage \in {"idle", "called"} => ShowsMemory(deliver)
        /\ chainStage \in {"ready", "done"} => ShowsMemory(cache)
        /\ chainStage # "error"

StoreInv == ~lost => FormsInv /\ BehindInv /\ RisingInv /\ FileInv /\ ShownInv

\* Until a crash, the mailbox is the one the kernel stands for, in memory and,
\* unless a transaction failed, in the store.
UntilCrash ==
    /\ kernel = Missing => file \in {Missing, Torn} /\ deliver.mailbox = Missing
    /\ chainStage = "saving" /\ saver = "launch" => file = Torn /\ deliver.mailbox = Missing
    /\ kernel # Missing =>
         /\ mbs = Implied(kernel)
         /\ ~dirty =>
              /\ chainStage \in {"idle", "called"} => deliver.mailbox = mbs
              /\ chainStage \in {"ready", "done"} => cache.mailbox = mbs
              /\ chainStage # "error"

UntilCrashInv == chainCrashes = 0 /\ ~lost => UntilCrash

-----------------------------------------------------------------------------

\* The larger of two numbers, of which Max is defined by CHOOSE.
LEMMA MaxOfTwo ==
    ASSUME NEW a \in Int, NEW b \in Int
    PROVE  Max({a, b}) = IF a >= b THEN a ELSE b
<1> DEFINE m == IF a >= b THEN a ELSE b
<1>1. m \in {a, b} /\ \A y \in {a, b} : m >= y
  OBVIOUS
<1>2. \A x \in {a, b} : (\A y \in {a, b} : x >= y) => x = m
  OBVIOUS
<1> QED
  BY <1>1, <1>2 DEF Max

\* The bound on what a peer is sent is a number.
LEMMA MaxSentType == MaxSent \in Nat /\ MaxIn \in Nat /\ MaxIn * Cardinality(Peers) = MaxSent
<1>1. Cardinality(Peers) \in Nat
  BY ChainAssumption, FS_CardinalityType
<1>2. MaxIn \in Nat
  BY ChainAssumption
<1> QED
  BY <1>1, <1>2 DEF MaxSent

\* What a transaction makes of the kernel: the sender's numbers rise to those
\* of the transaction, and each new message is answered once to each peer the
\* kernel writes to.
LEMMA KernelAfterFields ==
    ASSUME kernel \in Kernels, tx \in Txs
    PROVE  /\ KernelAfter = [delivered |-> KernelAfter.delivered,
                             acked |-> KernelAfter.acked,
                             sent |-> KernelAfter.sent]
           /\ KernelAfter.delivered \in [Peers -> 0..MaxIn]
           /\ KernelAfter.acked \in [Peers -> 0..MaxSent]
           /\ KernelAfter.sent \in [Peers -> Nat]
           /\ \A p \in Peers :
                /\ kernel.delivered[p] <= KernelAfter.delivered[p]
                /\ kernel.acked[p] <= KernelAfter.acked[p]
                /\ p # tx.peer => /\ KernelAfter.delivered[p] = kernel.delivered[p]
                                  /\ KernelAfter.acked[p] = kernel.acked[p]
                /\ KernelAfter.sent[p] =
                     kernel.sent[p] + IF p \in Fwd[tx.peer]
                                      THEN KernelAfter.delivered[tx.peer] - kernel.delivered[tx.peer]
                                      ELSE 0
           /\ KernelAfter.delivered[tx.peer] >= tx.hi
           /\ KernelAfter.acked[tx.peer] >= tx.ack
<1> DEFINE q == tx.peer
           d == Max({kernel.delivered[q], tx.hi})
           a == Max({kernel.acked[q], tx.ack})
           fresh == Max({0, tx.hi - kernel.delivered[q]})
<1>1. /\ q \in Peers /\ tx.hi \in 0..MaxIn /\ tx.ack \in 0..MaxSent
      /\ kernel.delivered \in [Peers -> 0..MaxIn]
      /\ kernel.acked \in [Peers -> 0..MaxSent]
      /\ kernel.sent \in [Peers -> 0..MaxSent]
      /\ MaxIn \in Nat /\ MaxSent \in Nat
  BY MaxSentType DEF Txs, Kernels
<1>2. kernel.delivered[q] \in 0..MaxIn /\ kernel.acked[q] \in 0..MaxSent
  BY <1>1
<1>3. d \in 0..MaxIn /\ d >= kernel.delivered[q] /\ d >= tx.hi
  BY <1>1, <1>2, MaxOfTwo
<1>4. a \in 0..MaxSent /\ a >= kernel.acked[q] /\ a >= tx.ack
  BY <1>1, <1>2, MaxOfTwo
<1>5. fresh \in Nat /\ fresh = d - kernel.delivered[q]
  <2>1. tx.hi - kernel.delivered[q] \in Int
    BY <1>1, <1>2
  <2>2. fresh = IF 0 >= tx.hi - kernel.delivered[q] THEN 0 ELSE tx.hi - kernel.delivered[q]
    BY <2>1, MaxOfTwo
  <2>3. d = IF kernel.delivered[q] >= tx.hi THEN kernel.delivered[q] ELSE tx.hi
    BY <1>1, <1>2, MaxOfTwo
  <2> HIDE DEF fresh, d
  <2> QED
    BY <1>1, <1>2, <2>2, <2>3
<1>6. KernelAfter = [delivered |-> [kernel.delivered EXCEPT ![q] = d],
                     acked |-> [kernel.acked EXCEPT ![q] = a],
                     sent |-> [p \in Peers |-> kernel.sent[p] + IF p \in Fwd[q] THEN fresh ELSE 0]]
  BY DEF KernelAfter
<1> HIDE DEF d, a, fresh, q
<1>7. /\ KernelAfter.delivered = [kernel.delivered EXCEPT ![q] = d]
      /\ KernelAfter.acked = [kernel.acked EXCEPT ![q] = a]
      /\ KernelAfter.sent = [p \in Peers |-> kernel.sent[p] + IF p \in Fwd[q] THEN fresh ELSE 0]
  BY <1>6
<1>8. \A p \in Peers : /\ kernel.sent[p] \in Nat /\ kernel.delivered[p] \in Nat
                       /\ kernel.acked[p] \in Nat
  BY <1>1
<1>9. KernelAfter.sent \in [Peers -> Nat]
  BY <1>5, <1>7, <1>8
<1>10. /\ KernelAfter.delivered \in [Peers -> 0..MaxIn]
       /\ KernelAfter.acked \in [Peers -> 0..MaxSent]
       /\ KernelAfter.delivered[q] = d /\ KernelAfter.acked[q] = a
  BY <1>1, <1>3, <1>4, <1>7
<1>11. ASSUME NEW p \in Peers
       PROVE  /\ kernel.delivered[p] <= KernelAfter.delivered[p]
              /\ kernel.acked[p] <= KernelAfter.acked[p]
              /\ p # q => /\ KernelAfter.delivered[p] = kernel.delivered[p]
                          /\ KernelAfter.acked[p] = kernel.acked[p]
              /\ KernelAfter.sent[p] =
                   kernel.sent[p] + IF p \in Fwd[q] THEN d - kernel.delivered[q] ELSE 0
  BY <1>1, <1>3, <1>4, <1>5, <1>7, <1>8
<1> QED
  BY <1>3, <1>4, <1>6, <1>7, <1>9, <1>10, <1>11 DEF q

\* There are finitely many messages that made the kernel write to a peer, and
\* no more than the bound.
LEMMA CountedBounded ==
    ASSUME NEW k, NEW p \in Peers
    PROVE  /\ IsFiniteSet(WrittenTo(k, p))
           /\ Cardinality(WrittenTo(k, p)) \in 0..MaxSent
<1> DEFINE all == Peers \X (1..MaxIn)
<1>1. IsFiniteSet(Peers) /\ IsFiniteSet(1..MaxIn) /\ Cardinality(1..MaxIn) = MaxIn
  BY MaxSentType, ChainAssumption, FS_Interval
<1>2. IsFiniteSet(all) /\ Cardinality(all) = Cardinality(Peers) * MaxIn
  BY <1>1, FS_Product
<1>3. Cardinality(Peers) \in Nat
  BY <1>1, FS_CardinalityType
<1>4. Cardinality(all) = MaxSent
  BY <1>2, <1>3, MaxSentType
<1>5. WrittenTo(k, p) \subseteq all
  BY DEF WrittenTo
<1>6. /\ IsFiniteSet(WrittenTo(k, p))
      /\ Cardinality(WrittenTo(k, p)) <= Cardinality(all)
  BY <1>2, <1>5, FS_Subset
<1>7. Cardinality(WrittenTo(k, p)) \in Nat
  BY <1>6, FS_CardinalityType
<1> QED
  BY <1>4, <1>6, <1>7, MaxSentType

\* A run of the kernel keeps the count.
LEMMA CountedAfter ==
    ASSUME kernel \in Kernels, tx \in Txs, Counted(kernel)
    PROVE  Counted(KernelAfter)
<1> SUFFICES ASSUME NEW p \in Peers
             PROVE  KernelAfter.sent[p] = Cardinality(WrittenTo(KernelAfter, p))
  BY DEF Counted
<1> DEFINE q == tx.peer
           old == kernel.delivered[q]
           d == KernelAfter.delivered[q]
           new == {q} \X ((old + 1)..d)
<1>1. q \in Peers /\ old \in Nat /\ d \in Nat /\ old <= d /\ d <= MaxIn /\ MaxIn \in Nat
  <2>1. q \in Peers
    BY DEF Txs
  <2>2. old \in 0..MaxIn /\ d \in 0..MaxIn /\ old <= d
    BY <2>1, KernelAfterFields DEF Kernels
  <2> QED
    BY <2>1, <2>2, MaxSentType
<1>2. \A r \in Peers : /\ r # q => KernelAfter.delivered[r] = kernel.delivered[r]
                       /\ kernel.delivered[r] \in Nat
  BY <1>1, KernelAfterFields DEF Kernels
<1>3. kernel.sent[p] = Cardinality(WrittenTo(kernel, p))
  BY DEF Counted
<1>4. KernelAfter.sent[p] = kernel.sent[p] + IF p \in Fwd[q] THEN d - old ELSE 0
  BY KernelAfterFields
<1> HIDE DEF d, q
<1>5. CASE p \notin Fwd[q]
  <2>1. WrittenTo(KernelAfter, p) = WrittenTo(kernel, p)
    BY <1>2, <1>5 DEF WrittenTo
  <2>2. kernel.sent[p] \in Nat
    BY <1>3, CountedBounded
  <2> QED
    BY <1>3, <1>4, <1>5, <2>1, <2>2
<1>6. CASE p \in Fwd[q]
  <2>1. WrittenTo(KernelAfter, p) = WrittenTo(kernel, p) \cup new
    <3>1. ASSUME NEW r \in Peers, NEW n \in 1..MaxIn
          PROVE  <<r, n>> \in WrittenTo(KernelAfter, p) <=> <<r, n>> \in WrittenTo(kernel, p) \cup new
      <4>1. CASE r = q
        BY <1>1, <1>6, <4>1 DEF WrittenTo, d
      <4>2. CASE r # q
        BY <1>2, <4>2 DEF WrittenTo
      <4> QED
        BY <4>1, <4>2
    <3>2. new \subseteq Peers \X (1..MaxIn)
      BY <1>1
    <3>3. /\ WrittenTo(KernelAfter, p) \subseteq Peers \X (1..MaxIn)
          /\ WrittenTo(kernel, p) \subseteq Peers \X (1..MaxIn)
      BY DEF WrittenTo
    <3> QED
      BY <3>1, <3>2, <3>3
  <2>2. WrittenTo(kernel, p) \cap new = {}
    BY <1>1 DEF WrittenTo
  <2>3. IsFiniteSet(new) /\ Cardinality(new) = d - old
    <3>1. IsFiniteSet({q}) /\ Cardinality({q}) = 1
      BY FS_Singleton
    <3>2. IsFiniteSet((old + 1)..d) /\ Cardinality((old + 1)..d) = d - old
      <4>1. old + 1 \in Int /\ d \in Int
        BY <1>1
      <4>2. /\ IsFiniteSet((old + 1)..d)
            /\ Cardinality((old + 1)..d) = IF old + 1 > d THEN 0 ELSE d - (old + 1) + 1
        BY <4>1, FS_Interval
      <4> HIDE DEF old
      <4> QED
        BY <1>1, <4>2
    <3>3. IsFiniteSet(new) /\ Cardinality(new) = Cardinality({q}) * Cardinality((old + 1)..d)
      BY <3>1, <3>2, FS_Product
    <3> HIDE DEF new, old
    <3> QED
      BY <1>1, <3>1, <3>2, <3>3
  <2>4. IsFiniteSet(WrittenTo(kernel, p)) /\ Cardinality(WrittenTo(kernel, p)) \in Nat
    BY CountedBounded
  <2>5. Cardinality(WrittenTo(kernel, p) \cup new)
          = Cardinality(WrittenTo(kernel, p)) + Cardinality(new) - Cardinality(WrittenTo(kernel, p) \cap new)
    BY <2>3, <2>4, FS_Union
  <2>6. Cardinality(WrittenTo(kernel, p) \cap new) = 0
    BY <2>2, FS_EmptySet
  <2> HIDE DEF new, old
  <2> QED
    BY <1>1, <1>3, <1>4, <1>6, <2>1, <2>3, <2>4, <2>5, <2>6
<1> QED
  BY <1>5, <1>6

\* What a transaction makes of the kernel and of the mailbox stays of its type.
LEMMA AfterTypes ==
    ASSUME kernel \in Kernels, mbs \in Mailboxes, tx \in Txs, Counted(kernel)
    PROVE  KernelAfter \in Kernels /\ MailboxAfter \in Mailboxes
<1>1. ASSUME NEW p \in Peers PROVE KernelAfter.sent[p] \in 0..MaxSent
  <2>1. KernelAfter.sent[p] = Cardinality(WrittenTo(KernelAfter, p))
    BY CountedAfter DEF Counted
  <2> QED
    BY <2>1, CountedBounded
<1>2. KernelAfter \in Kernels
  BY <1>1, KernelAfterFields DEF Kernels
<1>3. ASSUME NEW p \in Peers
      PROVE  /\ {n \in mbs[p].outbox \cup ((kernel.sent[p] + 1)..KernelAfter.sent[p]) :
                   n > KernelAfter.acked[p]} \in SUBSET (1..MaxSent)
             /\ (IF p = tx.peer THEN KernelAfter.delivered[p] ELSE mbs[p].ack) \in 0..MaxIn
  <2>1. mbs[p] \in Entries
    BY DEF Mailboxes
  <2>2. mbs[p].outbox \in SUBSET (1..MaxSent) /\ mbs[p].ack \in 0..MaxIn
    BY <2>1 DEF Entries
  <2>3. kernel.sent[p] \in 0..MaxSent /\ KernelAfter.sent[p] \in 0..MaxSent
    BY <1>1 DEF Kernels
  <2>4. (kernel.sent[p] + 1)..KernelAfter.sent[p] \in SUBSET (1..MaxSent)
    BY <2>3, MaxSentType
  <2>5. KernelAfter.delivered[p] \in 0..MaxIn
    BY KernelAfterFields
  <2> QED
    BY <2>2, <2>4, <2>5
<1>4. MailboxAfter =
        [p \in Peers |->
           [outbox |-> {n \in mbs[p].outbox \cup ((kernel.sent[p] + 1)..KernelAfter.sent[p]) :
                          n > KernelAfter.acked[p]},
            ack |-> IF p = tx.peer THEN KernelAfter.delivered[p] ELSE mbs[p].ack]]
  BY DEF MailboxAfter
<1> QED
  BY <1>2, <1>3, <1>4 DEF Mailboxes, Entries

\* A transaction of a solo acks what the committed store shows it; one that is
\* executed again is the next of the block.
LEMMA TransactionStarts ==
    ASSUME TypeOK, (replay = <<>> /\ Submit) \/ Replay
    PROVE  \E t \in Txs : /\ HandleMsgDeliverInbound(t)
                          /\ replay = <<>> => Shown(t)
                          /\ replay # <<>> => t = Head(replay)
<1>1. CASE Replay
  <2>1. replay # <<>> /\ replay \in Seq(Txs)
    BY <1>1 DEF Replay, TypeOK
  <2>2. Head(replay) \in Txs
    BY <2>1
  <2> QED
    BY <1>1, <2>1, <2>2 DEF Replay
<1>2. CASE replay = <<>> /\ Submit
  <2>1. PICK p \in Peers, hi \in 0..MaxIn :
          \E ack \in {0} \cup UNION {store.peer[q].outbox : q \in {r \in {p} : store.peer[r] # Missing}} :
            HandleMsgDeliverInbound([peer |-> p, hi |-> hi, ack |-> ack])
    BY <1>2 DEF Submit
  <2>2. PICK ack \in {0} \cup UNION {store.peer[q].outbox : q \in {r \in {p} : store.peer[r] # Missing}} :
          HandleMsgDeliverInbound([peer |-> p, hi |-> hi, ack |-> ack])
    BY <2>1
  <2>3. ack = 0 \/ (store.peer[p] # Missing /\ ack \in store.peer[p].outbox)
    BY <2>2
  <2>4. ack \in 0..MaxSent
    <3>1. CASE ack = 0
      BY <3>1, MaxSentType
    <3>2. CASE store.peer[p] # Missing /\ ack \in store.peer[p].outbox
      <4>1. store.peer[p] \in Entries
        BY <3>2 DEF TypeOK, Stores
      <4> QED
        BY <3>2, <4>1, MaxSentType DEF Entries
    <3> QED
      BY <2>3, <3>1, <3>2
  <2> DEFINE t == [peer |-> p, hi |-> hi, ack |-> ack]
  <2>5. t \in Txs /\ t.peer = p /\ t.ack = ack
    BY <2>1, <2>4 DEF Txs
  <2>6. Shown(t)
    BY <2>3, <2>5 DEF Shown
  <2> QED
    BY <1>2, <2>2, <2>5, <2>6
<1> QED
  BY <1>1, <1>2

\* The fresh states are of their types.
LEMMA EmptyTypes ==
    /\ EmptyKernel \in Kernels /\ Counted(EmptyKernel)
    /\ EmptyMailbox \in Mailboxes /\ EmptyStore \in Stores
<1>1. 0 \in 0..MaxIn /\ 0 \in 0..MaxSent
  BY MaxSentType
<1>2. EmptyKernel \in Kernels
  BY <1>1 DEF EmptyKernel, Kernels
<1>3. ASSUME NEW p \in Peers PROVE EmptyKernel.sent[p] = Cardinality(WrittenTo(EmptyKernel, p))
  <2>1. WrittenTo(EmptyKernel, p) = {}
    BY DEF WrittenTo, EmptyKernel
  <2> QED
    BY <2>1, FS_EmptySet DEF EmptyKernel
<1>4. EmptyMailbox \in Mailboxes
  BY <1>1 DEF EmptyMailbox, Mailboxes, Entries
<1>5. EmptyStore \in Stores
  BY DEF EmptyStore, Stores
<1> QED
  BY <1>2, <1>3, <1>4, <1>5 DEF Counted

\* The inductive invariant of the types: what bounds the messages sent is that
\* each answers a message received.
TypeInv == TypeOK /\ CountedInv

\* A step keeps the types.
LEMMA TypeStep ==
    ASSUME TypeInv, StageInv, [ChainNext]_chainVars
    PROVE  TypeInv'
<1>0. /\ TypeOK /\ CountedInv
      /\ store \in Stores /\ deliver \in Stores /\ cache \in Stores
  BY DEF TypeInv, TypeOK
<1>1. CASE (replay = <<>> /\ Submit) \/ Replay
  <2>1. PICK t \in Txs : HandleMsgDeliverInbound(t)
    BY <1>0, <1>1, TransactionStarts
  <2>2. replay' \in Seq(Txs)
    <3>1. replay \in Seq(Txs)
      BY <1>0 DEF TypeOK
    <3> QED
      BY <2>1, <3>1 DEF HandleMsgDeliverInbound
  <2>3. lastPort' \in 0..MaxTx /\ ports' \subseteq 1..MaxTx
    <3>1. lastPort \in 0..MaxTx /\ lastPort < MaxTx /\ ports \subseteq 1..MaxTx /\ MaxTx \in Nat
      BY <1>0, <2>1, ChainAssumption DEF TypeOK, HandleMsgDeliverInbound
    <3> QED
      BY <2>1, <3>1 DEF HandleMsgDeliverInbound
  <2> QED
    BY <1>0, <2>1, <2>2, <2>3
    DEF TypeInv, TypeOK, CountedInv, HandleMsgDeliverInbound, memory, disks, mishaps
<1>2. CASE Launch
  <2>1. mbs' \in Mailboxes
    BY <1>0, <1>2, EmptyTypes DEF Launch, Stores
  <2>2. kernel' \in Kernels /\ Counted(kernel')
    BY <1>0, <1>2, EmptyTypes DEF Launch, TypeOK, CountedInv
  <2>3. sPort' \in 0..MaxTx /\ lost' \in BOOLEAN
    BY <1>0, <1>2 DEF Launch, TypeOK
  <2> QED
    BY <1>0, <1>2, <2>1, <2>2, <2>3 DEF Launch, TypeInv, TypeOK, CountedInv
<1>3. CASE Reuse
  BY <1>0, <1>3 DEF Reuse, TypeInv, TypeOK, CountedInv, disks, mishaps
<1>4. CASE Stale
  BY <1>0, <1>4 DEF Stale, TypeInv, TypeOK, CountedInv, memory, disks, mishaps
<1>5. ASSUME DeliverInbound, kernel # Missing PROVE TypeInv'
  <2>1. kernel \in Kernels /\ Counted(kernel) /\ mbs \in Mailboxes /\ tx \in Txs
    BY <1>0, <1>5 DEF TypeOK, CountedInv
  <2>2. KernelAfter \in Kernels /\ MailboxAfter \in Mailboxes /\ Counted(KernelAfter)
    BY <2>1, AfterTypes, CountedAfter
  <2>3. cache' \in Stores
    <3>1. [p \in Peers |-> MailboxAfter[p]] \in [Peers -> Entries \cup {Missing}]
      BY <2>2 DEF Mailboxes
    <3>2. [cache EXCEPT !.peer = [p \in Peers |-> MailboxAfter[p]]] \in Stores
      BY <1>0, <3>1 DEF Stores
    <3> QED
      BY <1>0, <1>5, <3>2 DEF DeliverInbound
  <2>4. kernel' = KernelAfter /\ mbs' = MailboxAfter /\ file' = Torn
    BY <1>5 DEF DeliverInbound
  <2>5. CountedInv'
    BY <2>2, <2>4 DEF CountedInv
  <2> QED
    BY <1>0, <1>5, <2>2, <2>3, <2>4, <2>5 DEF DeliverInbound, TypeInv, TypeOK, mishaps
<1>6. ASSUME SaveChainState, kernel # Missing PROVE TypeInv'
  <2>1. kernel \in Kernels
    BY <1>0, <1>6 DEF TypeOK
  <2>2. cache' \in Stores
    <3>1. mbs \in Mailboxes
      BY <1>0 DEF TypeOK
    <3> QED
      BY <1>0, <1>6, <3>1 DEF SaveChainState, Stores
  <2>3. dirty' \in BOOLEAN
    BY <1>0, <1>6 DEF SaveChainState, TypeOK
  <2>4. CountedInv'
    BY <1>0, <1>6 DEF SaveChainState, CountedInv, memory
  <2> QED
    BY <1>0, <1>6, <2>1, <2>2, <2>3, <2>4 DEF SaveChainState, TypeInv, TypeOK, memory
<1>7. CASE SaveFails
  <2>1. fails' \in 0..MaxFail
    BY <1>0, <1>7, ChainAssumption DEF SaveFails, TypeOK
  <2>2. dirty' \in BOOLEAN
    BY <1>0, <1>7 DEF SaveFails, TypeOK
  <2> QED
    BY <1>0, <1>7, <2>1, <2>2 DEF SaveFails, TypeInv, TypeOK, CountedInv, disks
<1>8. CASE Return
  <2>1. block' \in Seq(Txs)
    <3>1. block \in Seq(Txs) /\ tx \in Txs
      BY <1>0 DEF TypeOK
    <3> QED
      BY <1>8, <3>1 DEF Return
  <2> QED
    BY <1>0, <1>8, <2>1 DEF Return, TypeInv, TypeOK, CountedInv, memory, disks, mishaps
<1>9. CASE Commit
  BY <1>0, <1>9 DEF Commit, TypeInv, TypeOK, CountedInv, memory, mishaps
<1>10. CASE NodeCrashes
  <2>1. replay' \in Seq(Txs)
    <3>1. block \in Seq(Txs) /\ replay \in Seq(Txs) /\ tx \in Txs
      BY <1>0 DEF TypeOK
    <3>2. (IF chainStage = "idle" THEN <<>> ELSE <<tx>>) \in Seq(Txs)
      BY <3>1
    <3>3. \A s, t, u \in Seq(Txs) : s \o t \o u \in Seq(Txs)
      OBVIOUS
    <3> QED
      BY <1>10, <3>1, <3>2, <3>3 DEF NodeCrashes
  <2>2. chainCrashes' \in 0..MaxCrash /\ lastPort' \in 0..MaxTx /\ sPort' \in 0..MaxTx
    BY <1>0, <1>10, ChainAssumption DEF NodeCrashes, TypeOK
  <2> QED
    BY <1>0, <1>10, <2>1, <2>2, EmptyTypes DEF NodeCrashes, TypeInv, TypeOK, CountedInv, disks
<1>11. CASE UNCHANGED chainVars
  BY <1>0, <1>11 DEF chainVars, TypeInv, TypeOK, CountedInv
<1> QED
  <2>1. DeliverInbound \/ SaveChainState => kernel # Missing
    BY DEF StageInv, DeliverInbound, SaveChainState
  <2> QED
    BY <1>1, <1>2, <1>3, <1>4, <1>5, <1>6, <1>7, <1>8, <1>9, <1>10, <1>11, <2>1 DEF ChainNext

\* A call that has a kernel keeps it until its end, and the port it registered.
LEMMA StageStep ==
    ASSUME TypeInv, StageInv, [ChainNext]_chainVars
    PROVE  StageInv'
<1>0. TypeOK /\ CountedInv
  BY DEF TypeInv
<1>1. CASE (replay = <<>> /\ Submit) \/ Replay
  <2>1. PICK t \in Txs : HandleMsgDeliverInbound(t)
    BY <1>0, <1>1, TransactionStarts
  <2> QED
    BY <2>1 DEF HandleMsgDeliverInbound, memory, disks, mishaps, StageInv
<1>2. CASE Launch
  <2>1. kernel' # Missing
    <3>1. kernel' \in Kernels
      BY <1>0, <1>2, EmptyTypes DEF Launch, TypeOK
    <3> QED
      BY <3>1, MissingAssumption
  <2> QED
    BY <1>2, <2>1 DEF Launch, StageInv
<1>3. CASE Reuse \/ Stale
  BY <1>3 DEF Reuse, Stale, memory, disks, mishaps, StageInv
<1>4. CASE DeliverInbound
  <2>1. kernel \in Kernels /\ Counted(kernel) /\ mbs \in Mailboxes /\ tx \in Txs
    BY <1>0, <1>4 DEF TypeOK, CountedInv, DeliverInbound, StageInv
  <2>2. kernel' \in Kernels
    BY <1>4, <2>1, AfterTypes DEF DeliverInbound
  <2>3. kernel' # Missing
    BY <2>2, MissingAssumption
  <2> QED
    BY <1>4, <2>3 DEF DeliverInbound, mishaps, StageInv
<1>5. CASE SaveChainState
  BY <1>5 DEF SaveChainState, memory, StageInv
<1>6. CASE SaveFails \/ Return
  BY <1>6 DEF SaveFails, Return, memory, disks, mishaps, StageInv
<1>8. CASE Commit \/ NodeCrashes
  BY <1>8 DEF Commit, NodeCrashes, memory, disks, mishaps, StageInv
<1>7. CASE UNCHANGED chainVars
  BY <1>7 DEF chainVars, StageInv
<1> QED
  BY <1>1, <1>2, <1>3, <1>4, <1>5, <1>6, <1>7, <1>8 DEF ChainNext

\* Every variable stays within its type: no peer is sent more than one message
\* for each that all peers together can send, and no step leaves the bounds.
THEOREM TypeCorrect == ChainSpec => []TypeOK
<1>1. ChainInit => TypeInv /\ StageInv
  <2>1. SUFFICES ASSUME ChainInit PROVE TypeInv /\ StageInv
    OBVIOUS
  <2>2. tx \in Txs
    <3>1. (CHOOSE p \in Peers : TRUE) \in Peers
      BY ChainAssumption
    <3> QED
      BY <2>1, <3>1, MaxSentType DEF ChainInit, Txs
  <2>3. /\ lastPort \in 0..MaxTx /\ sPort \in 0..MaxTx
        /\ chainCrashes \in 0..MaxCrash /\ fails \in 0..MaxFail
    BY <2>1, ChainAssumption DEF ChainInit
  <2>4. block \in Seq(Txs) /\ replay \in Seq(Txs)
    BY <2>1 DEF ChainInit
  <2>5. TypeOK
    BY <2>1, <2>2, <2>3, <2>4, EmptyTypes DEF ChainInit, TypeOK
  <2> QED
    BY <2>1, <2>5 DEF ChainInit, TypeInv, CountedInv, StageInv
<1>2. TypeInv => TypeOK
  BY DEF TypeInv
<1> QED
  BY <1>1, <1>2, TypeStep, StageStep, PTL DEF ChainSpec

\* The count of messages and the stages of a call are always right.
LEMMA TypesAndStages == ChainSpec => [](TypeInv /\ StageInv)
<1>1. ChainInit => CountedInv /\ StageInv
  BY DEF ChainInit, CountedInv, StageInv
<1>2. TypeOK /\ CountedInv => TypeInv
  BY DEF TypeInv
<1> QED
  BY <1>1, <1>2, TypeCorrect, TypeStep, StageStep, PTL DEF ChainSpec

-----------------------------------------------------------------------------

\* Only a commit changes what a solo was shown, and it ends the block.
LEMMA TxStep ==
    ASSUME TypeInv, TxInv, [ChainNext]_chainVars
    PROVE  TxInv'
<1>0. TypeOK
  BY DEF TypeInv
<1>1. ASSUME UNCHANGED <<store, replay>>, chainStage' # "idle" => chainStage # "idle" /\ tx' = tx,
             block' = block \/ (block' = Append(block, tx) /\ chainStage # "idle")
      PROVE  TxInv'
  <2>1. ShownTxs' = ShownTxs
    BY <1>1 DEF ShownTxs, Shown
  <2>2. chainStage # "idle" => Append(block, tx) \in Seq(ShownTxs)
    BY DEF TxInv
  <2> QED
    BY <1>1, <2>1, <2>2 DEF TxInv
<1>2. CASE (replay = <<>> /\ Submit) \/ Replay
  <2>1. PICK t \in Txs : /\ HandleMsgDeliverInbound(t)
                         /\ replay = <<>> => Shown(t)
                         /\ replay # <<>> => t = Head(replay)
    BY <1>0, <1>2, TransactionStarts
  <2>2. ShownTxs' = ShownTxs
    BY <2>1 DEF ShownTxs, Shown, HandleMsgDeliverInbound, disks
  <2>3. replay # <<>> => Head(replay) \in ShownTxs /\ Tail(replay) \in Seq(ShownTxs)
    BY DEF TxInv
  <2>4. t \in ShownTxs
    BY <2>1, <2>3 DEF ShownTxs
  <2>5. replay' \in Seq(ShownTxs)
    BY <2>1, <2>3 DEF HandleMsgDeliverInbound
  <2> QED
    BY <2>1, <2>2, <2>4, <2>5 DEF TxInv, HandleMsgDeliverInbound
<1>3. CASE Launch \/ Reuse \/ Stale \/ DeliverInbound \/ SaveChainState \/ SaveFails \/ Return
  BY <1>1, <1>3 DEF Launch, Reuse, Stale, DeliverInbound, SaveChainState, SaveFails, Return,
                    disks, memory, mishaps
<1>4. CASE Commit
  BY <1>4 DEF Commit, TxInv
<1>5. CASE NodeCrashes
  <2>1. ShownTxs' = ShownTxs
    BY <1>5 DEF ShownTxs, Shown, NodeCrashes, disks
  <2>2. (IF chainStage = "idle" THEN <<>> ELSE <<tx>>) \in Seq(ShownTxs)
    BY DEF TxInv
  <2>3. \A s, t, u \in Seq(ShownTxs) : s \o t \o u \in Seq(ShownTxs)
    OBVIOUS
  <2>4. replay' \in Seq(ShownTxs)
    BY <1>5, <2>2, <2>3 DEF NodeCrashes, TxInv
  <2> QED
    BY <1>5, <2>1, <2>4 DEF NodeCrashes, TxInv
<1>6. CASE UNCHANGED chainVars
  BY <1>1, <1>6 DEF chainVars
<1> QED
  BY <1>2, <1>3, <1>4, <1>5, <1>6 DEF ChainNext

\* The numbers in a store, and in the mailbox in memory.
LEMMA StoreNumbers ==
    ASSUME TypeOK, NEW p \in Peers
    PROVE  /\ \A s \in {store, deliver, cache} :
                /\ s.mailbox # Missing => s.mailbox \in Mailboxes /\ s.mailbox[p].ack \in Nat
                /\ s.peer[p] # Missing => /\ s.peer[p] \in Entries
                                          /\ \A n \in s.peer[p].outbox : n \in Nat
           /\ mbs[p] \in Entries /\ mbs[p].ack \in Nat /\ mbs[p] # Missing /\ mbs # Missing
           /\ \A n \in mbs[p].outbox : n \in Nat
<1>1. \A e \in Entries : e.ack \in Nat /\ \A n \in e.outbox : n \in Nat
  BY MaxSentType DEF Entries
<1>2. \A m \in Mailboxes : m[p] \in Entries
  BY DEF Mailboxes
<1>3. \A s \in {store, deliver, cache} : s \in Stores
  BY DEF TypeOK
<1>4. \A s \in Stores : /\ s.mailbox # Missing => s.mailbox \in Mailboxes
                        /\ s.peer[p] # Missing => s.peer[p] \in Entries
  BY DEF Stores
<1>5. mbs \in Mailboxes /\ Missing \notin Mailboxes \cup Entries
  BY MissingAssumption DEF TypeOK
<1> QED
  BY <1>1, <1>2, <1>3, <1>4, <1>5

\* Whatever is new to the kernel changes the mailbox: a new message its ack,
\* and an ack, which was shown and not yet used, its messages.
LEMMA NewsChangesMailbox ==
    ASSUME TypeOK, TxInv, kernel # Missing, chainStage = "ready", IsNews,
           \A p \in Peers : mbs[p].ack <= kernel.delivered[p],
           Behind(store)
    PROVE  MailboxAfter # mbs
<1> DEFINE q == tx.peer
<1>1. kernel \in Kernels /\ tx \in Txs /\ q \in Peers
  BY DEF TypeOK, Txs
<1>2. /\ kernel.delivered[q] \in Nat /\ kernel.acked[q] \in Nat
      /\ tx.hi \in Nat /\ tx.ack \in Nat
      /\ KernelAfter.delivered[q] \in Nat /\ KernelAfter.acked[q] \in Nat
      /\ KernelAfter.delivered[q] >= tx.hi /\ KernelAfter.acked[q] >= tx.ack
  BY <1>1, KernelAfterFields, MaxSentType DEF Kernels, Txs
<1>3. mbs[q].ack \in Nat /\ mbs[q].ack <= kernel.delivered[q]
  BY <1>1, StoreNumbers
<1>4. /\ MailboxAfter[q].ack = KernelAfter.delivered[q]
      /\ \A n \in MailboxAfter[q].outbox : n > KernelAfter.acked[q]
  BY <1>1 DEF MailboxAfter
<1>5. CASE tx.hi > kernel.delivered[q]
  BY <1>2, <1>3, <1>4, <1>5
<1>6. CASE tx.ack > kernel.acked[q]
  <2>1. Shown(tx) /\ tx.ack # 0
    BY <1>2, <1>6 DEF TxInv, ShownTxs
  <2>2. store.peer[q] # Missing /\ tx.ack \in store.peer[q].outbox
    BY <2>1 DEF Shown
  <2>3. tx.ack \in mbs[q].outbox
    BY <1>1, <1>6, <2>2 DEF Behind
  <2>4. tx.ack \notin MailboxAfter[q].outbox
    BY <1>2, <1>4
  <2> QED
    BY <2>3, <2>4
<1> QED
  BY <1>5, <1>6 DEF IsNews

\* The invariants of the stores, of the types and of the transactions together.
NodeInv == TypeInv /\ StageInv /\ TxInv

\* What is asked of the stores in a life where no file was torn.
Kept == FormsInv /\ BehindInv /\ RisingInv /\ FileInv /\ ShownInv

\* The launch takes its mailbox from the store and its kernel from a file that
\* is not behind it.
LEMMA LaunchKeeps ==
    ASSUME NodeInv, Kept, Launch, file # Torn
    PROVE  Kept'
<1>0. TypeOK /\ TypeOK'
  BY TypeStep DEF ChainNext, NodeInv, TypeInv
<1>1. /\ chainStage = "called" /\ kernel = Missing /\ cache = deliver /\ deliver = store
      /\ UNCHANGED <<store, deliver, cache>>
      /\ chainStage' = "saving" /\ saver' = "launch" /\ file' = Torn
      /\ kernel' = IF file = Missing THEN EmptyKernel ELSE file
  BY DEF Launch, NodeInv, StageInv, Kept
<1>2. mbs' = IF cache.mailbox = Missing THEN EmptyMailbox ELSE cache.mailbox
  BY DEF Launch, NodeInv, StageInv, Reaches
<1>3. FormsInv'
  BY <1>1, <1>2 DEF FormsInv, Kept, Consistent
<1>4. \A p \in Peers : mbs'[p].ack <= kernel'.delivered[p]
  <2> SUFFICES ASSUME NEW p \in Peers PROVE mbs'[p].ack <= kernel'.delivered[p]
    OBVIOUS
  <2>1. EmptyMailbox[p].ack = 0 /\ EmptyKernel.delivered[p] = 0
    BY DEF EmptyMailbox, EmptyKernel
  <2>2. CASE file = Missing
    BY <1>1, <1>2, <2>1, <2>2 DEF Kept, FileInv
  <2>3. CASE file # Missing
    <3>1. file \in Kernels
      BY <1>0, <2>3 DEF TypeOK
    <3>2. file.delivered[p] \in Nat
      BY <3>1, MaxSentType DEF Kernels
    <3>3. CASE store.mailbox = Missing
      BY <1>1, <1>2, <2>1, <2>3, <3>2, <3>3
    <3>4. CASE store.mailbox # Missing
      BY <1>1, <1>2, <2>3, <3>4 DEF Kept, FileInv
    <3> QED
      BY <3>3, <3>4
  <2> QED
    BY <2>2, <2>3
<1>5. Behind(store)'
  <2> SUFFICES ASSUME NEW p \in Peers
               PROVE  /\ store.mailbox # Missing => store.mailbox[p].ack <= mbs'[p].ack
                      /\ store.peer[p] # Missing => store.peer[p].outbox \subseteq mbs'[p].outbox
    BY <1>1 DEF Behind
  <2>1. store.mailbox # Missing => mbs' = store.mailbox /\ store.mailbox[p].ack \in Nat
    BY <1>0, <1>1, <1>2, StoreNumbers
  <2>2. store.peer[p] # Missing => store.mailbox # Missing /\ store.peer[p] = store.mailbox[p]
    BY DEF Kept, FormsInv, Consistent
  <2> QED
    BY <2>1, <2>2
<1>6. BehindInv'
  BY <1>1, <1>4, <1>5 DEF BehindInv, Kept
<1>7. RisingInv'
  <2>1. store.mailbox # Missing => \A p \in Peers : store.mailbox[p].ack <= store.mailbox[p].ack
    BY <1>0, StoreNumbers
  <2> QED
    BY <1>1, <2>1 DEF RisingInv, AcksRise
<1>8. FileInv' /\ ShownInv'
  BY <1>1, MissingAssumption DEF FileInv, ShownInv
<1> QED
  BY <1>3, <1>6, <1>7, <1>8 DEF Kept

\* A run of the kernel with news puts every peer's entry into the store.
LEMMA DeliverKeeps ==
    ASSUME NodeInv, Kept, DeliverInbound
    PROVE  Kept'
<1>0. TypeOK /\ chainStage = "ready" /\ kernel # Missing /\ sPort = lastPort /\ lastPort \in ports
  BY DEF NodeInv, TypeInv, StageInv, DeliverInbound
<1>1. /\ UNCHANGED <<store, deliver>>
      /\ chainStage' = "saving" /\ saver' = "inbound" /\ file' = Torn
      /\ kernel' = KernelAfter /\ mbs' = MailboxAfter
  BY DEF DeliverInbound
<1>2. kernel \in Kernels /\ tx \in Txs /\ tx.peer \in Peers /\ mbs \in Mailboxes
  BY <1>0 DEF TypeOK, Txs
<1>3. \A p \in Peers : mbs[p].ack <= kernel.delivered[p]
  BY <1>0 DEF Kept, BehindInv
<1>4. Behind(store) /\ Behind(deliver)
  BY <1>0 DEF Kept, BehindInv
<1>5. MailboxAfter # mbs
  BY <1>0, <1>3, <1>4, NewsChangesMailbox DEF NodeInv, DeliverInbound
<1>6. cache' = [cache EXCEPT !.peer = [p \in Peers |-> MailboxAfter[p]]]
  BY <1>0, <1>5 DEF DeliverInbound, Reaches
<1>7. cache'.mailbox = cache.mailbox /\ cache'.peer = [p \in Peers |-> MailboxAfter[p]]
  BY <1>0, <1>6 DEF TypeOK, Stores
<1>8. FormsInv'
  BY <1>0, <1>1, <1>7 DEF FormsInv, Kept, Consistent
<1>9. ASSUME NEW p \in Peers
      PROVE  /\ kernel.delivered[p] \in Nat /\ KernelAfter.delivered[p] \in Nat
             /\ kernel.delivered[p] <= KernelAfter.delivered[p]
             /\ kernel.acked[p] \in Nat /\ KernelAfter.acked[p] \in Nat
             /\ kernel.acked[p] <= KernelAfter.acked[p]
             /\ MailboxAfter[p].ack = IF p = tx.peer THEN KernelAfter.delivered[p] ELSE mbs[p].ack
             /\ \A n \in mbs[p].outbox : n > KernelAfter.acked[p] => n \in MailboxAfter[p].outbox
  <2>1. /\ kernel.delivered[p] \in 0..MaxIn /\ KernelAfter.delivered[p] \in 0..MaxIn
        /\ kernel.acked[p] \in 0..MaxSent /\ KernelAfter.acked[p] \in 0..MaxSent
    BY <1>2, KernelAfterFields DEF Kernels
  <2>2. kernel.delivered[p] <= KernelAfter.delivered[p] /\ kernel.acked[p] <= KernelAfter.acked[p]
    BY <1>2, KernelAfterFields
  <2>3. /\ MailboxAfter[p].ack = IF p = tx.peer THEN KernelAfter.delivered[p] ELSE mbs[p].ack
        /\ \A n \in mbs[p].outbox : n > KernelAfter.acked[p] => n \in MailboxAfter[p].outbox
    BY DEF MailboxAfter
  <2> QED
    BY <2>1, <2>2, <2>3, MaxSentType
<1>10. ASSUME NEW p \in Peers
       PROVE  /\ mbs[p].ack <= MailboxAfter[p].ack
              /\ MailboxAfter[p].ack <= KernelAfter.delivered[p]
              /\ mbs[p].ack \in Nat /\ MailboxAfter[p].ack \in Nat
  <2>1. mbs[p].ack \in Nat /\ mbs[p].ack <= kernel.delivered[p]
    BY <1>0, <1>3, StoreNumbers
  <2> QED
    BY <1>9, <2>1
<1>11. ASSUME NEW s \in {store, deliver}, Behind(s)
       PROVE  \A p \in Peers :
                /\ s.mailbox # Missing => s.mailbox[p].ack <= MailboxAfter[p].ack
                /\ s.peer[p] # Missing =>
                     \A n \in s.peer[p].outbox : n > KernelAfter.acked[p] => n \in MailboxAfter[p].outbox
  <2> SUFFICES ASSUME NEW p \in Peers
               PROVE  /\ s.mailbox # Missing => s.mailbox[p].ack <= MailboxAfter[p].ack
                      /\ s.peer[p] # Missing =>
                           \A n \in s.peer[p].outbox :
                              n > KernelAfter.acked[p] => n \in MailboxAfter[p].outbox
    OBVIOUS
  <2>1. /\ s.mailbox # Missing => s.mailbox[p].ack \in Nat
        /\ s.peer[p] # Missing => \A n \in s.peer[p].outbox : n \in Nat
    BY <1>0, StoreNumbers
  <2>2. /\ s.mailbox # Missing => s.mailbox[p].ack <= mbs[p].ack
        /\ s.peer[p] # Missing =>
             \A n \in s.peer[p].outbox : n > kernel.acked[p] => n \in mbs[p].outbox
    BY <1>11 DEF Behind
  <2>3. s.mailbox # Missing => s.mailbox[p].ack <= MailboxAfter[p].ack
    BY <1>10, <2>1, <2>2
  <2>4. ASSUME s.peer[p] # Missing, NEW n \in s.peer[p].outbox, n > KernelAfter.acked[p]
        PROVE  n \in MailboxAfter[p].outbox
    <3>1. n > kernel.acked[p]
      BY <1>9, <2>1, <2>4
    <3> QED
      BY <1>9, <2>2, <2>4, <3>1
  <2> QED
    BY <2>3, <2>4
<1>12. Behind(store)' /\ Behind(deliver)'
  BY <1>1, <1>4, <1>11 DEF Behind
<1>13. BehindInv'
  BY <1>0, <1>1, <1>7, <1>10, <1>12 DEF BehindInv, Kept
<1>14. RisingInv'
  BY <1>0, <1>1, <1>7 DEF RisingInv, AcksRise, Kept
<1>15. FileInv' /\ ShownInv'
  BY <1>1, MissingAssumption DEF FileInv, ShownInv
<1> QED
  BY <1>8, <1>13, <1>14, <1>15 DEF Kept

\* A saved kernel brings the mailbox of the store up to the memory's.
LEMMA SaveKeeps ==
    ASSUME NodeInv, Kept, SaveChainState
    PROVE  Kept'
<1>0. TypeOK /\ chainStage = "saving" /\ kernel # Missing /\ sPort = lastPort /\ lastPort \in ports
  BY DEF NodeInv, TypeInv, StageInv, SaveChainState
<1>1. /\ UNCHANGED <<store, deliver, kernel, mbs, saver>>
      /\ chainStage' = IF saver = "launch" THEN "ready" ELSE "done"
      /\ file' = kernel
      /\ dirty' = (dirty /\ saver = "launch")
      /\ saver \in {"launch", "inbound"}
  BY <1>0 DEF SaveChainState, memory, TypeOK
<1>2. cache' = [cache EXCEPT !.mailbox = mbs]
  BY <1>0 DEF SaveChainState, Reaches
<1>3. cache'.mailbox = mbs /\ cache'.peer = cache.peer
  BY <1>0, <1>2 DEF TypeOK, Stores
<1>4. \A p \in Peers : /\ mbs[p].ack \in Nat /\ mbs[p] # Missing /\ mbs # Missing
  BY <1>0, StoreNumbers
<1>5. \A p \in Peers :
        \/ cache.peer[p] = mbs[p]
        \/ cache.peer[p] = Missing /\ mbs = EmptyMailbox
  <2>1. CASE saver = "inbound"
    BY <1>0, <2>1 DEF Kept, FormsInv
  <2>2. CASE saver = "launch"
    BY <1>0, <2>2 DEF Kept, FormsInv, Consistent
  <2> QED
    BY <1>1, <2>1, <2>2
<1>6. mbs # Missing
  BY <1>0, MissingAssumption DEF TypeOK
<1>7. Consistent(cache)'
  BY <1>3, <1>4, <1>5, <1>6 DEF Consistent
<1>8. FormsInv'
  BY <1>1, <1>7 DEF FormsInv, Kept, Consistent
<1>9. Behind(cache)'
  <2> SUFFICES ASSUME NEW p \in Peers, cache.peer[p] # Missing,
                      NEW n \in cache.peer[p].outbox
               PROVE  n \in mbs[p].outbox
    BY <1>1, <1>3, <1>4 DEF Behind
  <2> QED
    BY <1>5
<1>10. BehindInv'
  BY <1>0, <1>1, <1>3, <1>6, <1>9 DEF BehindInv, Behind, Kept
<1>11. RisingInv'
  BY <1>0, <1>1, <1>3 DEF RisingInv, AcksRise, BehindInv, Behind, Kept
<1>12. FileInv'
  <2>1. kernel \in Kernels
    BY <1>0 DEF TypeOK
  <2>2. ASSUME store.mailbox # Missing, NEW p \in Peers
        PROVE  store.mailbox[p].ack <= kernel.delivered[p]
    <3>1. store.mailbox[p].ack \in Nat /\ kernel.delivered[p] \in Nat
      BY <1>0, <2>1, <2>2, StoreNumbers, MaxSentType DEF Kernels
    <3>2. store.mailbox[p].ack <= mbs[p].ack /\ mbs[p].ack <= kernel.delivered[p]
      BY <1>0, <2>2 DEF Kept, BehindInv, Behind
    <3> QED
      BY <1>4, <3>1, <3>2
  <2> QED
    BY <1>0, <1>1, <2>2 DEF FileInv
<1>13. ShownInv'
  BY <1>1, <1>3, <1>5 DEF ShownInv, ShowsMemory
<1> QED
  BY <1>8, <1>10, <1>11, <1>12, <1>13 DEF Kept

\* No other step puts the stores and the memory at odds.
LEMMA StoreStep ==
    ASSUME NodeInv, StoreInv, [ChainNext]_chainVars
    PROVE  StoreInv'
<1>0. TypeOK
  BY DEF NodeInv, TypeInv
<1>1. lost => lost'
  <2>1. CASE (replay = <<>> /\ Submit) \/ Replay
    <3>1. PICK t \in Txs : HandleMsgDeliverInbound(t)
      BY <1>0, <2>1, TransactionStarts
    <3> QED
      BY <3>1 DEF HandleMsgDeliverInbound, mishaps
  <2>2. CASE ~((replay = <<>> /\ Submit) \/ Replay)
    BY <2>2 DEF ChainNext, Launch, Reuse, Stale, DeliverInbound, SaveChainState, SaveFails, Return, Commit,
                NodeCrashes, mishaps, chainVars
  <2> QED
    BY <2>1, <2>2
<1>2. SUFFICES ASSUME ~lost' PROVE Kept'
  BY DEF StoreInv, Kept
<1>3. Kept
  BY <1>1, <1>2 DEF StoreInv, Kept
<1>4. \A p \in Peers : \A s \in {store, deliver, cache} :
        s.mailbox # Missing => s.mailbox[p].ack \in Nat
  BY <1>0, StoreNumbers
<1>5. CASE (replay = <<>> /\ Submit) \/ Replay
  <2>1. PICK t \in Txs : HandleMsgDeliverInbound(t)
    BY <1>0, <1>5, TransactionStarts
  <2>2. /\ chainStage = "idle" /\ chainStage' = "called" /\ cache' = deliver
        /\ UNCHANGED <<kernel, mbs, file, store, deliver, lost, dirty>>
    BY <2>1 DEF HandleMsgDeliverInbound, memory, disks, mishaps
  <2> QED
    BY <1>3, <2>2 DEF Kept, FormsInv, BehindInv, RisingInv, FileInv, ShownInv,
                      Consistent, Behind, AcksRise, ShowsMemory
<1>6. CASE Launch
  <2>1. file # Torn
    BY <1>2, <1>6 DEF Launch
  <2> QED
    BY <1>3, <1>6, <2>1, LaunchKeeps
<1>7. CASE Reuse
  <2>1. /\ chainStage = "called" /\ chainStage' = "ready" /\ cache = deliver
        /\ UNCHANGED <<kernel, mbs, file, store, deliver, cache, lost, dirty>>
    BY <1>7 DEF Reuse, disks, mishaps, NodeInv, StageInv
  <2>2. RisingInv'
    BY <1>3, <1>4, <2>1 DEF Kept, RisingInv, AcksRise
  <2> QED
    BY <1>3, <2>1, <2>2 DEF Kept, FormsInv, BehindInv, FileInv, ShownInv,
                            Consistent, Behind, ShowsMemory
<1>8. CASE Stale
  <2>1. /\ chainStage = "ready" /\ chainStage' = "done"
        /\ UNCHANGED <<kernel, mbs, file, store, deliver, cache, lost, dirty>>
    BY <1>8 DEF Stale, memory, disks, mishaps
  <2> QED
    BY <1>3, <2>1 DEF Kept, FormsInv, BehindInv, RisingInv, FileInv, ShownInv,
                      Consistent, Behind, AcksRise, ShowsMemory
<1>9. CASE DeliverInbound
  BY <1>3, <1>9, DeliverKeeps
<1>10. CASE SaveChainState
  BY <1>3, <1>10, SaveKeeps
<1>11. CASE SaveFails
  <2>1. /\ chainStage = "saving" /\ chainStage' = "error"
        /\ saver \in {"launch", "inbound"}
        /\ kernel' = IF saver = "launch" THEN Missing ELSE kernel
        /\ dirty' = (dirty \/ saver = "inbound")
        /\ UNCHANGED <<mbs, file, store, deliver, cache, lost>>
    BY <1>0, <1>11 DEF SaveFails, disks, TypeOK
  <2> QED
    BY <1>3, <2>1 DEF Kept, FormsInv, BehindInv, RisingInv, FileInv, ShownInv,
                      Consistent, Behind, AcksRise
<1>12. CASE Return
  <2>1. /\ chainStage \in {"done", "error"} /\ chainStage' = "idle"
        /\ deliver' = IF chainStage = "done" THEN cache ELSE deliver
        /\ UNCHANGED <<kernel, mbs, file, store, cache, lost, dirty>>
    BY <1>12 DEF Return, memory, disks, mishaps
  <2>2. CASE chainStage = "done"
    <3>1. FormsInv'
      BY <1>3, <2>1, <2>2 DEF Kept, FormsInv, Consistent
    <3>2. BehindInv'
      BY <1>3, <2>1, <2>2 DEF Kept, BehindInv, Behind
    <3>3. RisingInv'
      <4>1. ASSUME store.mailbox # Missing, NEW p \in Peers
            PROVE  store.mailbox[p].ack <= cache.mailbox[p].ack
        <5>1. deliver.mailbox # Missing /\ cache.mailbox # Missing
          BY <1>3, <2>2, <4>1 DEF Kept, BehindInv
        <5>2. /\ store.mailbox[p].ack <= deliver.mailbox[p].ack
              /\ deliver.mailbox[p].ack <= cache.mailbox[p].ack
          BY <1>3, <2>2, <4>1, <5>1 DEF Kept, RisingInv, AcksRise
        <5>3. /\ store.mailbox[p].ack \in Nat /\ deliver.mailbox[p].ack \in Nat
              /\ cache.mailbox[p].ack \in Nat
          BY <1>4, <4>1, <5>1
        <5> QED
          BY <5>2, <5>3
      <4> QED
        BY <2>1, <2>2, <4>1 DEF RisingInv, AcksRise
    <3>4. FileInv' /\ ShownInv'
      BY <1>3, <2>1, <2>2 DEF Kept, FileInv, ShownInv, ShowsMemory
    <3> QED
      BY <3>1, <3>2, <3>3, <3>4 DEF Kept
  <2>3. CASE chainStage = "error"
    BY <1>3, <2>1, <2>3 DEF Kept, FormsInv, BehindInv, RisingInv, FileInv, ShownInv,
                            Consistent, Behind, AcksRise, ShowsMemory
  <2> QED
    BY <2>1, <2>2, <2>3
<1>13. CASE Commit
  <2>1. /\ chainStage = "idle" /\ store' = deliver
        /\ UNCHANGED <<kernel, mbs, file, chainStage, deliver, cache, lost, dirty>>
    BY <1>13 DEF Commit, memory, mishaps
  <2>2. FormsInv'
    BY <1>3, <2>1 DEF Kept, FormsInv, Consistent
  <2>3. BehindInv'
    BY <1>3, <2>1 DEF Kept, BehindInv, Behind
  <2>4. RisingInv'
    BY <1>4, <2>1 DEF RisingInv, AcksRise
  <2>5. FileInv'
    <3>1. kernel = Missing => store' = store
      BY <2>1 DEF NodeInv, StageInv
    <3>2. ASSUME kernel # Missing, file \notin {Missing, Torn}, deliver.mailbox # Missing,
                 NEW p \in Peers
          PROVE  deliver.mailbox[p].ack <= file.delivered[p]
      <4>1. file = kernel
        BY <1>3, <3>2 DEF Kept, FileInv
      <4>2. deliver.mailbox[p].ack <= mbs[p].ack /\ mbs[p].ack <= kernel.delivered[p]
        BY <1>3, <3>2 DEF Kept, BehindInv, Behind
      <4>3. deliver.mailbox[p].ack \in Nat /\ mbs[p].ack \in Nat /\ kernel.delivered[p] \in Nat
        <5>1. kernel \in Kernels
          BY <1>0, <3>2 DEF TypeOK
        <5> QED
          BY <1>0, <3>2, <5>1, StoreNumbers, MaxSentType DEF Kernels
      <4> QED
        BY <4>1, <4>2, <4>3
    <3> QED
      BY <1>3, <2>1, <3>1, <3>2 DEF Kept, FileInv
  <2>6. ShownInv'
    BY <1>3, <2>1 DEF Kept, ShownInv, ShowsMemory
  <2> QED
    BY <2>2, <2>3, <2>4, <2>5, <2>6 DEF Kept
<1>14. CASE NodeCrashes
  <2>1. /\ kernel' = Missing /\ chainStage' = "idle" /\ deliver' = store
        /\ UNCHANGED <<file, store, lost>>
    BY <1>14 DEF NodeCrashes, disks
  <2> QED
    BY <1>3, <1>4, <2>1 DEF Kept, FormsInv, BehindInv, RisingInv, FileInv, ShownInv,
                            Consistent, Behind, AcksRise
<1>15. CASE UNCHANGED chainVars
  BY <1>3, <1>15 DEF chainVars, Kept, FormsInv, BehindInv, RisingInv, FileInv, ShownInv,
                     Consistent, Behind, AcksRise, ShowsMemory
<1> QED
  BY <1>5, <1>6, <1>7, <1>8, <1>9, <1>10, <1>11, <1>12, <1>13, <1>14, <1>15 DEF ChainNext

\* The invariants of the stores hold from the start.
LEMMA StoreStart == ChainInit => TxInv /\ StoreInv
<1> SUFFICES ASSUME ChainInit PROVE TxInv /\ StoreInv
  OBVIOUS
<1>1. block \in Seq(ShownTxs) /\ replay \in Seq(ShownTxs)
  BY DEF ChainInit
<1>2. store = EmptyStore /\ EmptyStore.mailbox = Missing /\ \A p \in Peers : EmptyStore.peer[p] = Missing
  BY DEF ChainInit, EmptyStore
<1> QED
  BY <1>1, <1>2 DEF ChainInit, TxInv, StoreInv, FormsInv, BehindInv, RisingInv, FileInv, ShownInv,
                    Consistent, AcksRise

\* They hold in every state.
LEMMA StoresConsistent == ChainSpec => [](NodeInv /\ StoreInv)
<1>1. TypeInv /\ StageInv /\ TxInv <=> NodeInv
  BY DEF NodeInv
<1> QED
  BY <1>1, StoreStart, TypesAndStages, TxStep, StoreStep, PTL DEF ChainSpec

\* What a solo reads of its own mailbox is what the node's mailbox state holds for
\* it, whichever peer's transaction changed that, and the two forms of the mailbox
\* in the store never disagree, through crashes and failed writes (launch-chain.js
\* l.75-83 and l.96-115).  It is the mailbox of the kernel only until the first
\* crash: that is StoreMatchesUntilCrash.
THEOREM StoreAlwaysShowsMailbox == ChainSpec => []StoreShowsMailbox
<1>1. NodeInv /\ StoreInv => StoreShowsMailbox
  BY DEF StoreInv, FormsInv, Consistent, ShownInv, ShowsMemory, StoreShowsMailbox, Settled
<1> QED
  BY <1>1, StoresConsistent, PTL

\* An ack that a committed block showed never falls back in a later block, also
\* when the node crashed in between and executed a block again: the state file
\* of a launch is not behind the committed store, and may be ahead of it.
THEOREM CommittedAcksRise == ChainSpec => CommittedAckMonotone
<1>1. ASSUME NodeInv, StoreInv, [ChainNext]_chainVars, ~lost', store.mailbox # Missing
      PROVE  /\ store'.mailbox # Missing
             /\ \A p \in Peers : store.mailbox[p].ack <= store'.mailbox[p].ack
  <2>0. TypeOK
    BY <1>1 DEF NodeInv, TypeInv
  <2>1. store' = store \/ (Commit /\ store' = deliver /\ lost' = lost)
    <3>1. CASE (replay = <<>> /\ Submit) \/ Replay
      <4>1. PICK t \in Txs : HandleMsgDeliverInbound(t)
        BY <2>0, <3>1, TransactionStarts
      <4> QED
        BY <4>1 DEF HandleMsgDeliverInbound, disks
    <3>2. CASE ~((replay = <<>> /\ Submit) \/ Replay)
      BY <1>1, <3>2 DEF ChainNext, Launch, Reuse, Stale, DeliverInbound, SaveChainState, SaveFails, Return,
                        Commit, NodeCrashes, mishaps, disks, chainVars
    <3> QED
      BY <3>1, <3>2
  <2>2. \A p \in Peers : store.mailbox[p].ack \in Nat
    BY <1>1, <2>0, StoreNumbers
  <2> QED
    BY <1>1, <2>1, <2>2 DEF StoreInv, BehindInv, RisingInv, AcksRise
<1>2. NodeInv /\ StoreInv /\ [ChainNext]_chainVars =>
        [~lost' /\ store.mailbox # Missing =>
            /\ store'.mailbox # Missing
            /\ \A p \in Peers : store.mailbox[p].ack <= store'.mailbox[p].ack]_chainVars
  BY <1>1
<1> QED
  BY <1>2, StoresConsistent, PTL DEF ChainSpec, CommittedAckMonotone

-----------------------------------------------------------------------------

\* A run of the kernel leaves the mailbox that its new state stands for.
LEMMA RunImpliesMailbox ==
    ASSUME TypeOK, kernel # Missing, mbs = Implied(kernel)
    PROVE  MailboxAfter = Implied(KernelAfter)
<1>1. kernel \in Kernels /\ tx \in Txs
  BY DEF TypeOK
<1>2. ASSUME NEW p \in Peers
      PROVE  /\ {n \in mbs[p].outbox \cup ((kernel.sent[p] + 1)..KernelAfter.sent[p]) :
                   n > KernelAfter.acked[p]} = (KernelAfter.acked[p] + 1)..KernelAfter.sent[p]
             /\ (IF p = tx.peer THEN KernelAfter.delivered[p] ELSE mbs[p].ack)
                  = KernelAfter.delivered[p]
  <2>1. /\ mbs[p].outbox = (kernel.acked[p] + 1)..kernel.sent[p]
        /\ mbs[p].ack = kernel.delivered[p]
    BY DEF Implied
  <2>2. /\ kernel.acked[p] \in Nat /\ KernelAfter.acked[p] \in Nat
        /\ kernel.sent[p] \in Nat /\ KernelAfter.sent[p] \in Nat
    BY <1>1, KernelAfterFields, MaxSentType DEF Kernels
  <2>3. kernel.acked[p] <= KernelAfter.acked[p] /\ kernel.sent[p] <= KernelAfter.sent[p]
    <3>1. kernel.delivered[tx.peer] \in Nat /\ KernelAfter.delivered[tx.peer] \in Nat
      BY <1>1, KernelAfterFields, MaxSentType DEF Kernels, Txs
    <3>2. kernel.delivered[tx.peer] <= KernelAfter.delivered[tx.peer]
      BY <1>1, KernelAfterFields DEF Txs
    <3>3. KernelAfter.sent[p] =
            kernel.sent[p] + IF p \in Fwd[tx.peer]
                             THEN KernelAfter.delivered[tx.peer] - kernel.delivered[tx.peer]
                             ELSE 0
      BY <1>1, KernelAfterFields
    <3>4. kernel.acked[p] <= KernelAfter.acked[p]
      BY <1>1, KernelAfterFields
    <3> QED
      BY <2>2, <3>1, <3>2, <3>3, <3>4
  <2>4. p # tx.peer => KernelAfter.delivered[p] = kernel.delivered[p]
    BY <1>1, KernelAfterFields
  <2>5. ASSUME NEW n
        PROVE  (n \in mbs[p].outbox \cup ((kernel.sent[p] + 1)..KernelAfter.sent[p])
                  /\ n > KernelAfter.acked[p])
                 <=> n \in (KernelAfter.acked[p] + 1)..KernelAfter.sent[p]
    BY <2>1, <2>2, <2>3
  <2> QED
    BY <2>1, <2>4, <2>5
<1>3. MailboxAfter =
        [p \in Peers |->
           [outbox |-> {n \in mbs[p].outbox \cup ((kernel.sent[p] + 1)..KernelAfter.sent[p]) :
                          n > KernelAfter.acked[p]},
            ack |-> IF p = tx.peer THEN KernelAfter.delivered[p] ELSE mbs[p].ack]]
  BY DEF MailboxAfter
<1>4. Implied(KernelAfter) =
        [p \in Peers |-> [outbox |-> (KernelAfter.acked[p] + 1)..KernelAfter.sent[p],
                          ack |-> KernelAfter.delivered[p]]]
  BY DEF Implied
<1> QED
  BY <1>2, <1>3, <1>4

\* The mailbox follows the kernel as long as the kernel of every launch is an
\* empty one.
LEMMA UntilCrashStep ==
    ASSUME NodeInv, UntilCrashInv, [ChainNext]_chainVars
    PROVE  UntilCrashInv'
<1>0. TypeOK /\ StageInv
  BY DEF NodeInv, TypeInv
<1>1. (chainCrashes' = 0 => chainCrashes = 0 /\ ~NodeCrashes) /\ (~lost' => ~lost)
  <2>1. CASE (replay = <<>> /\ Submit) \/ Replay
    <3>1. PICK t \in Txs : HandleMsgDeliverInbound(t)
      BY <1>0, <2>1, TransactionStarts
    <3>2. chainCrashes' = chainCrashes /\ chainStage' = "called" /\ lost' = lost
      BY <3>1 DEF HandleMsgDeliverInbound, mishaps
    <3> QED
      BY <3>2 DEF NodeCrashes
  <2>2. CASE NodeCrashes
    <3>1. chainCrashes \in Nat /\ chainCrashes' = chainCrashes + 1 /\ lost' = lost
      BY <1>0, <2>2, ChainAssumption DEF NodeCrashes, TypeOK
    <3> QED
      BY <3>1
  <2>3. CASE ~((replay = <<>> /\ Submit) \/ Replay) /\ ~NodeCrashes
    <3>1. chainCrashes' = chainCrashes
      BY <2>3 DEF ChainNext, Launch, Reuse, Stale, DeliverInbound, SaveChainState, SaveFails, Return, Commit,
                  mishaps, chainVars
    <3>2. lost => lost'
      BY <2>3 DEF ChainNext, Launch, Reuse, Stale, DeliverInbound, SaveChainState, SaveFails, Return, Commit,
                  mishaps, chainVars
    <3> QED
      BY <2>3, <3>1, <3>2
  <2> QED
    BY <2>1, <2>2, <2>3
<1>2. SUFFICES ASSUME chainCrashes' = 0, ~lost' PROVE UntilCrash'
  BY DEF UntilCrashInv
<1>3. UntilCrash /\ ~NodeCrashes
  BY <1>1, <1>2 DEF UntilCrashInv
<1>5. CASE (replay = <<>> /\ Submit) \/ Replay
  <2>1. PICK t \in Txs : HandleMsgDeliverInbound(t)
    BY <1>0, <1>5, TransactionStarts
  <2>2. /\ chainStage = "idle" /\ chainStage' = "called"
        /\ UNCHANGED <<kernel, mbs, file, deliver, dirty>>
    BY <2>1 DEF HandleMsgDeliverInbound, memory, disks, mishaps
  <2> QED
    BY <1>3, <2>2 DEF UntilCrash, Implied
<1>6. CASE Launch
  <2>1. file = Missing /\ kernel = Missing /\ cache.mailbox = Missing
    BY <1>0, <1>2, <1>3, <1>6 DEF Launch, UntilCrash, StageInv
  <2>2. /\ kernel' = EmptyKernel /\ mbs' = EmptyMailbox /\ file' = Torn
        /\ chainStage' = "saving" /\ deliver' = deliver
    BY <1>6, <2>1 DEF Launch
  <2>3. EmptyMailbox = Implied(EmptyKernel)
    BY DEF EmptyMailbox, Implied, EmptyKernel
  <2>4. EmptyKernel # Missing
    BY EmptyTypes, MissingAssumption
  <2> QED
    BY <1>3, <2>1, <2>2, <2>3, <2>4 DEF UntilCrash
<1>7. CASE Reuse
  <2>1. /\ chainStage = "called" /\ chainStage' = "ready" /\ cache = deliver
        /\ UNCHANGED <<kernel, mbs, file, deliver, cache, dirty>>
    BY <1>0, <1>7 DEF Reuse, disks, mishaps, StageInv
  <2> QED
    BY <1>3, <2>1 DEF UntilCrash, Implied
<1>8. CASE Stale
  <2>1. /\ chainStage = "ready" /\ chainStage' = "done"
        /\ UNCHANGED <<kernel, mbs, file, deliver, cache, dirty>>
    BY <1>8 DEF Stale, memory, disks, mishaps
  <2> QED
    BY <1>3, <2>1 DEF UntilCrash, Implied
<1>9. CASE DeliverInbound
  <2>1. kernel # Missing
    BY <1>0, <1>9 DEF StageInv, DeliverInbound
  <2>2. kernel' = KernelAfter /\ mbs' = MailboxAfter /\ chainStage' = "saving" /\ saver' = "inbound"
    BY <1>9 DEF DeliverInbound
  <2>3. MailboxAfter = Implied(KernelAfter)
    BY <1>0, <1>3, <2>1, RunImpliesMailbox DEF UntilCrash
  <2>4. KernelAfter # Missing
    BY <1>0, <2>1, AfterTypes, MissingAssumption DEF TypeOK, NodeInv, TypeInv, CountedInv
  <2> QED
    BY <2>2, <2>3, <2>4 DEF UntilCrash
<1>10. CASE SaveChainState
  <2>1. /\ chainStage = "saving" /\ chainStage' \in {"ready", "done"}
        /\ kernel # Missing /\ UNCHANGED <<kernel, mbs, deliver>>
    BY <1>0, <1>10 DEF SaveChainState, memory, StageInv
  <2>2. cache'.mailbox = mbs
    <3>1. cache' = [cache EXCEPT !.mailbox = mbs]
      BY <1>0, <1>10 DEF SaveChainState, Reaches, StageInv
    <3> QED
      BY <1>0, <3>1 DEF TypeOK, Stores
  <2> QED
    BY <1>3, <2>1, <2>2 DEF UntilCrash, Implied
<1>11. CASE SaveFails
  <2>1. /\ chainStage = "saving" /\ chainStage' = "error" /\ saver \in {"launch", "inbound"}
        /\ kernel' = IF saver = "launch" THEN Missing ELSE kernel
        /\ dirty' = (dirty \/ saver = "inbound")
        /\ UNCHANGED <<mbs, file, deliver>>
    BY <1>0, <1>11 DEF SaveFails, disks, TypeOK
  <2> QED
    BY <1>3, <2>1 DEF UntilCrash, Implied
<1>12. CASE Return
  <2>1. /\ chainStage \in {"done", "error"} /\ chainStage' = "idle"
        /\ deliver' = IF chainStage = "done" THEN cache ELSE deliver
        /\ chainStage = "done" => kernel # Missing
        /\ UNCHANGED <<kernel, mbs, file, dirty>>
    BY <1>0, <1>12 DEF Return, memory, disks, mishaps, StageInv
  <2> QED
    BY <1>3, <2>1 DEF UntilCrash, Implied
<1>13. CASE Commit
  <2>1. UNCHANGED <<kernel, mbs, file, chainStage, saver, deliver, cache, dirty>>
    BY <1>13 DEF Commit, memory, mishaps
  <2> QED
    BY <1>3, <2>1 DEF UntilCrash, Implied
<1>15. CASE UNCHANGED chainVars
  BY <1>3, <1>15 DEF chainVars, UntilCrash, Implied
<1> QED
  BY <1>3, <1>5, <1>6, <1>7, <1>8, <1>9, <1>10, <1>11, <1>12, <1>13, <1>15 DEF ChainNext

\* As long as the node has not crashed, the mailbox in the store is the one the
\* kernel stands for between transactions (launch-chain.js l.76-77); a failed
\* transaction suspends this until the next news.
THEOREM StoreMatchesUntilCrash == ChainSpec => []MailboxMatchesUntilCrash
<1>1. ChainInit => UntilCrashInv
  BY DEF ChainInit, UntilCrashInv, UntilCrash, EmptyStore
<1>2. UntilCrashInv => MailboxMatchesUntilCrash
  BY DEF UntilCrashInv, UntilCrash, MailboxMatchesUntilCrash, MailboxMatchesKernel, Settled
<1> QED
  BY <1>1, <1>2, UntilCrashStep, StoresConsistent, PTL DEF ChainSpec

=============================================================================
