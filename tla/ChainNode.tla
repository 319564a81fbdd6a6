----------------------------- MODULE ChainNode -----------------------------
(***************************************************************************)
(* One chain node: the swingset transaction handler (x/swingset/           *)
(* handler.go), the bridge to JavaScript (lib/ag-chain-cosmos) and the     *)
(* swingset it launches (lib/launch-chain.js).  The kernel lives in a      *)
(* local file that is written in place, its mailbox in the cosmos store,   *)
(* which is only made permanent when the block commits.                    *)
(*                                                                         *)
(* The kernel, the mailbox device and Tendermint are external.  The kernel *)
(* is deterministic: each new message from a peer makes it send one        *)
(* message to every peer in Fwd[peer].  Tendermint executes the block of a *)
(* crashed node again from the last commit.                                *)
(***************************************************************************)
EXTENDS Integers, SequencesExt, FiniteSetsExt

CONSTANTS
    Peers,     \* the solo nodes
    Fwd,       \* whom the kernel writes to for a message of a peer
    MaxIn,     \* bound: messages from each peer
    MaxTx,     \* bound: transactions of one life of the process
    MaxCrash,  \* bound: crashes
    MaxFail,   \* bound: failed writes of the state file
    Missing,   \* no state file, no store entry, no kernel in memory
    Torn       \* a state file that was truncated and not written in full

ASSUME ChainAssumption ==
    /\ IsFiniteSet(Peers) /\ Peers # {}
    /\ Fwd \in [Peers -> SUBSET Peers]
    /\ {MaxIn, MaxTx, MaxCrash, MaxFail} \subseteq Nat

MaxSent == MaxIn * Cardinality(Peers)
Txs == [peer : Peers, hi : 0..MaxIn, ack : 0..MaxSent]
Kernels == [delivered : [Peers -> 0..MaxIn], acked : [Peers -> 0..MaxSent], sent : [Peers -> 0..MaxSent]]
Entries == [outbox : SUBSET (1..MaxSent), ack : 0..MaxIn]
Mailboxes == [Peers -> Entries]
\* The store: 'mailbox', and 'mailbox.<peer>' for each peer.
Stores == [mailbox : Mailboxes \cup {Missing}, peer : [Peers -> Entries \cup {Missing}]]

ASSUME MissingAssumption ==
    /\ Missing # Torn
    /\ {Missing, Torn} \cap Kernels = {}
    /\ Missing \notin Mailboxes \cup Entries

VARIABLES
    kernel,    \* the kernel in memory, Missing before the launch
    mbs,       \* the mailbox state in memory
    file,      \* the state file
    store,     \* the committed store
    deliver,   \* the store as the executed transactions of the block left it
    cache,     \* the store as seen by the transaction under way
    chainStage, \* how far toSwingSet has come
    saver,     \* who called saveState: launch or deliverInbound
    tx,        \* the transaction under way
    block,     \* the transactions of the block executed so far
    replay,    \* those to execute again after a crash
    ports,     \* portToHandler: the registered storage ports
    lastPort,
    sPort,     \* the port storage calls go to
    chainCrashes, fails,  \* bounded counters of faults
    lost,      \* history: a kernel was dropped because its file was torn
    dirty      \* history: a transaction failed after the kernel had run, and
               \* none with news has succeeded since

memory == <<kernel, mbs, sPort>>
disks == <<file, store>>
mishaps == <<chainCrashes, fails, lost, dirty>>
chainVars == <<kernel, mbs, file, store, deliver, cache, chainStage, saver, tx, block, replay,
               ports, lastPort, sPort, chainCrashes, fails, lost, dirty>>

TypeOK ==
    /\ kernel \in Kernels \cup {Missing}
    /\ mbs \in Mailboxes
    /\ file \in Kernels \cup {Missing, Torn}
    /\ {store, deliver, cache} \subseteq Stores
    /\ chainStage \in {"idle", "called", "saving", "ready", "done", "error"}
    /\ saver \in {"launch", "inbound"}
    /\ tx \in Txs
    /\ block \in Seq(Txs) /\ replay \in Seq(Txs)
    /\ ports \subseteq 1..MaxTx /\ lastPort \in 0..MaxTx /\ sPort \in 0..MaxTx
    /\ chainCrashes \in 0..MaxCrash /\ fails \in 0..MaxFail
    /\ lost \in BOOLEAN /\ dirty \in BOOLEAN

EmptyKernel ==
    [delivered |-> [p \in Peers |-> 0], acked |-> [p \in Peers |-> 0], sent |-> [p \in Peers |-> 0]]
EmptyMailbox == [p \in Peers |-> [outbox |-> {}, ack |-> 0]]
EmptyStore == [mailbox |-> Missing, peer |-> [p \in Peers |-> Missing]]

ChainInit ==
    /\ kernel = Missing /\ mbs = EmptyMailbox
    /\ file = Missing
    /\ store = EmptyStore /\ deliver = EmptyStore /\ cache = EmptyStore
    /\ chainStage = "idle" /\ saver = "launch"
    /\ tx = [peer |-> CHOOSE p \in Peers : TRUE, hi |-> 0, ack |-> 0]
    /\ block = <<>> /\ replay = <<>>
    /\ ports = {} /\ lastPort = 0 /\ sPort = 0
    /\ chainCrashes = 0 /\ fails = 0 /\ lost = FALSE /\ dirty = FALSE

-----------------------------------------------------------------------------

\* handleMsgDeliverInbound: register a storage port for this transaction and
\* call into JavaScript.
HandleMsgDeliverInbound(t) ==
    /\ chainStage = "idle"
    /\ lastPort < MaxTx
    /\ IF replay # <<>> THEN t = Head(replay) ELSE TRUE
    /\ tx' = t
    /\ replay' = IF replay # <<>> THEN Tail(replay) ELSE <<>>
    /\ lastPort' = lastPort + 1
    /\ ports' = ports \cup {lastPort + 1}
    /\ cache' = deliver
    /\ chainStage' = "called"
    /\ UNCHANGED <<memory, disks, deliver, saver, block, mishaps>>

\* A storage call: it reaches the store of the transaction whose port sPort is.
Reaches(port) == port \in ports /\ port = lastPort

\* Mutant: the file is not read at all.
LaunchFresh ==
    /\ chainStage = "called"
    /\ kernel = Missing
    /\ sPort' = lastPort
    /\ mbs' = IF Reaches(sPort') /\ cache.mailbox # Missing THEN cache.mailbox ELSE EmptyMailbox
    /\ kernel' = EmptyKernel
    /\ file' = Torn
    /\ chainStage' = "saving" /\ saver' = "launch"
    /\ UNCHANGED <<store, deliver, cache, tx, block, replay, ports, lastPort, mishaps>>

\* launch: the mailbox from the store, the kernel from the file; a file that
\* does not parse counts as none.  Then save the initial state.
Launch ==
    /\ chainStage = "called"
    /\ kernel = Missing
    /\ sPort' = lastPort
    /\ mbs' = IF Reaches(sPort') /\ cache.mailbox # Missing THEN cache.mailbox ELSE EmptyMailbox
    /\ kernel' = IF file \in {Missing, Torn} THEN EmptyKernel ELSE file
    /\ lost' = (lost \/ file = Torn)
    /\ file' = Torn
    /\ chainStage' = "saving" /\ saver' = "launch"
    /\ UNCHANGED <<store, deliver, cache, tx, block, replay, ports, lastPort, chainCrashes, fails, dirty>>

\* Mutant: the storage port of the launch is kept.
ReuseOldPort ==
    /\ chainStage = "called"
    /\ kernel # Missing
    /\ chainStage' = "ready"
    /\ UNCHANGED <<memory, disks, deliver, cache, saver, tx, block, replay, ports, lastPort, mishaps>>

\* toSwingSet0 when the swingset runs already.
Reuse ==
    /\ chainStage = "called"
    /\ kernel # Missing
    /\ sPort' = lastPort
    /\ chainStage' = "ready"
    /\ UNCHANGED <<kernel, mbs, disks, deliver, cache, saver, tx, block, replay, ports, lastPort, mishaps>>

\* What mb.deliverInbound makes of the transaction.
IsNews == tx.hi > kernel.delivered[tx.peer] \/ tx.ack > kernel.acked[tx.peer]

\* The kernel after controller.run(), and the mailbox it leaves.
KernelAfter ==
    LET fresh == Max({0, tx.hi - kernel.delivered[tx.peer]}) IN
    [delivered |-> [kernel.delivered EXCEPT ![tx.peer] = Max({@, tx.hi})],
     acked |-> [kernel.acked EXCEPT ![tx.peer] = Max({@, tx.ack})],
     sent |-> [p \in Peers |-> kernel.sent[p] + IF p \in Fwd[tx.peer] THEN fresh ELSE 0]]

MailboxAfter ==
    LET k == KernelAfter IN
    [p \in Peers |->
        [outbox |-> {n \in mbs[p].outbox \cup ((kernel.sent[p] + 1)..k.sent[p]) : n > k.acked[p]},
         ack |-> IF p = tx.peer THEN k.delivered[p] ELSE mbs[p].ack]]

\* deliverInbound, nothing new: return at once.
Stale ==
    /\ chainStage = "ready"
    /\ ~IsNews
    /\ chainStage' = "done"
    /\ UNCHANGED <<memory, disks, deliver, cache, saver, tx, block, replay, ports, lastPort, mishaps>>

\* Mutant: only the sender's mailbox is published.
DeliverInboundOwnPeer ==
    /\ chainStage = "ready"
    /\ IsNews
    /\ kernel' = KernelAfter
    /\ mbs' = MailboxAfter
    /\ cache' = IF MailboxAfter # mbs /\ Reaches(sPort)
                THEN [cache EXCEPT !.peer[tx.peer] = MailboxAfter[tx.peer]]
                ELSE cache
    /\ file' = Torn
    /\ chainStage' = "saving" /\ saver' = "inbound"
    /\ UNCHANGED <<store, deliver, tx, block, replay, ports, lastPort, sPort, mishaps>>

\* deliverInbound with news: run the kernel, publish every peer's mailbox if
\* any of it changed, and start saving; the file is truncated first.
DeliverInbound ==
    /\ chainStage = "ready"
    /\ IsNews
    /\ kernel' = KernelAfter
    /\ mbs' = MailboxAfter
    /\ cache' = IF MailboxAfter # mbs /\ Reaches(sPort)
                THEN [cache EXCEPT !.peer = [p \in Peers |-> MailboxAfter[p]]]
                ELSE cache
    /\ file' = Torn
    /\ chainStage' = "saving" /\ saver' = "inbound"
    /\ UNCHANGED <<store, deliver, tx, block, replay, ports, lastPort, sPort, mishaps>>

\* saveState: the file is complete, then 'mailbox' is set in the store.
SaveChainState ==
    /\ chainStage = "saving"
    /\ file' = kernel
    /\ cache' = IF Reaches(sPort) THEN [cache EXCEPT !.mailbox = mbs] ELSE cache
    /\ chainStage' = IF saver = "launch" THEN "ready" ELSE "done"
    /\ dirty' = (dirty /\ saver = "launch")
    /\ UNCHANGED <<memory, store, deliver, saver, tx, block, replay, ports, lastPort,
                   chainCrashes, fails, lost>>

\* writeFileSync throws with the file truncated.  A launch that fails is tried
\* again by the next transaction; otherwise the kernel in memory stays.
SaveFails ==
    /\ chainStage = "saving"
    /\ fails < MaxFail
    /\ fails' = fails + 1
    /\ kernel' = IF saver = "launch" THEN Missing ELSE kernel
    /\ dirty' = (dirty \/ saver = "inbound")
    /\ chainStage' = "error"
    /\ UNCHANGED <<mbs, sPort, disks, deliver, cache, saver, tx, block, replay, ports, lastPort,
                   chainCrashes, lost>>

\* The call returns: the port goes, and the writes of the transaction are kept
\* or, after an error, dropped.
Return ==
    /\ chainStage \in {"done", "error"}
    /\ ports' = ports \ {lastPort}
    /\ deliver' = IF chainStage = "done" THEN cache ELSE deliver
    /\ block' = Append(block, tx)
    /\ chainStage' = "idle"
    /\ UNCHANGED <<memory, disks, cache, saver, tx, replay, lastPort, mishaps>>

\* The block commits.
Commit ==
    /\ chainStage = "idle"
    /\ block # <<>>
    /\ replay = <<>>
    /\ store' = deliver
    /\ block' = <<>>
    /\ UNCHANGED <<memory, file, deliver, cache, chainStage, saver, tx, replay, ports, lastPort, mishaps>>

\* The node dies and comes back: memory and uncommitted writes are gone, the
\* file stays, and the block is executed again.
NodeCrashes ==
    /\ chainCrashes < MaxCrash
    /\ chainCrashes' = chainCrashes + 1
    /\ kernel' = Missing /\ mbs' = EmptyMailbox
    /\ deliver' = store /\ cache' = store
    /\ replay' = block \o (IF chainStage = "idle" THEN <<>> ELSE <<tx>>) \o replay
    /\ block' = <<>>
    /\ chainStage' = "idle"
    /\ ports' = {} /\ lastPort' = 0 /\ sPort' = 0
    /\ UNCHANGED <<disks, saver, tx, fails, lost, dirty>>

\* A solo acks only what the store shows it.
Submit ==
    \E p \in Peers, hi \in 0..MaxIn :
        \E ack \in {0} \cup UNION {store.peer[q].outbox : q \in {r \in {p} : store.peer[r] # Missing}} :
            HandleMsgDeliverInbound([peer |-> p, hi |-> hi, ack |-> ack])

Replay == replay # <<>> /\ HandleMsgDeliverInbound(Head(replay))

ChainNext ==
    \/ (replay = <<>> /\ Submit) \/ Replay
    \/ Launch \/ Reuse \/ Stale \/ DeliverInbound \/ SaveChainState \/ SaveFails
    \/ Return \/ Commit \/ NodeCrashes

ChainSpec == ChainInit /\ [][ChainNext]_chainVars

-----------------------------------------------------------------------------

\* The mailbox entry a kernel state stands for.
Implied(k) ==
    [p \in Peers |-> [outbox |-> (k.acked[p] + 1)..k.sent[p], ack |-> k.delivered[p]]]

Settled == chainStage = "idle" /\ replay = <<>> /\ kernel # Missing

\* Between transactions the mailbox in the store is the one the kernel stands
\* for: "save kernel state to the stateFile, and the mailbox state to a cosmos
\* kvstore where it can be queried externally" (launch-chain.js l.76-77).  A
\* failed transaction suspends this until the next news.
MailboxMatchesKernel ==
    Settled /\ ~dirty /\ ~lost => deliver.mailbox = Implied(kernel)

\* It is so as long as the node has not crashed.
MailboxMatchesUntilCrash == chainCrashes = 0 => MailboxMatchesKernel

\* What a solo reads of its own mailbox is what the node's mailbox state holds for
\* it, whichever peer's transaction changed that (launch-chain.js l.96-113).  A
\* failed transaction leaves it behind until the next news, and a torn file for
\* good.  The two forms of the mailbox in the store never disagree, through
\* crashes and failed writes, so that a solo that reads one sees what a restart
\* would continue from.  Nothing is said of the kernel: after a crash the mailbox
\* state is read back from the store, which the kernel may be ahead of.
StoreShowsMailbox ==
    ~lost =>
        /\ Settled /\ ~dirty => \A p \in Peers :
             \/ deliver.peer[p] = mbs[p]
             \/ deliver.peer[p] = Missing /\ mbs = EmptyMailbox
        /\ \A s \in {store, deliver} : \A p \in Peers :
             s.peer[p] # Missing => s.mailbox # Missing /\ s.peer[p] = s.mailbox[p]

\* An ack that a committed block showed never falls back in a later block,
\* also when the node crashed in between and executed a block again.
CommittedAckMonotone ==
    [][~lost' /\ store.mailbox # Missing =>
            /\ store'.mailbox # Missing
            /\ \A p \in Peers : store.mailbox[p].ack <= store'.mailbox[p].ack]_chainVars

=============================================================================
