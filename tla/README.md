# Verification of cosmic-swingset

TLA+ models of cosmic-swingset, the TLC runs that check them on small instances,
and the theorems about them that TLAPS checks for every instance. Paths are
relative to `src/`, the repository root.

- [The system](#the-system)
- [Inventory](#inventory)
- [Modules](#modules)
- [Runs](#runs)
- [Findings](#findings)
- [Proofs](#proofs)
- [What is not modelled](#what-is-not-modelled)
- [Plan](#plan)

To repeat the checks, in this directory:

    tlc -workers 2 -config Parts.cfg MCParts
    tlapm HelperQueueProofs.tla

## The system

A *solo* is a SwingSet kernel on somebody's own machine (`lib/ag-solo`); the
*chain* is a SwingSet kernel that every validator runs inside a Cosmos SDK
application (`lib/ag-chain-cosmos`, `lib/launch-chain.js`, `x/swingset`). The two
exchange numbered messages:

    browser tabs, CapTP clients
        |  POST /vat, WebSocket            (web.js, html/main.js)
    solo kernel ---- swingstate.json       (start.js)
        |  outbox, acks                    (outbound.js)
    deliver queue -> ag-cosmos-helper tx   (chain-cosmos-sdk.js)
        |  MsgDeliverInbound               (types.go, msgs.go, tx.go)
    handler -> Node -> chain kernel        (handler.go, ag-chain-cosmos, launch-chain.js)
        |  mailbox, mailbox.<peer>         (storage.go, keeper.go)
    ag-cosmos-helper query on each block -> solo kernel

Each side keeps an *outbox* of messages that the other has not acknowledged and
ignores messages it has already seen, by number. The solo sends what is new in
its outbox as transactions; the chain publishes its whole outbox, with its
acknowledgement, in a store that the solo reads. State lives in three places
that are made permanent at different times: the solo's state file, the chain
node's state file, and the store of the chain, which commits with the block.

Browsers and `ag-solo upload-contract` reach the objects of a solo over CapTP, and
through them those of the chain, which the vats of both sides exchange when they
are bootstrapped. Around this, `ag-setup-solo` and `ag-pserver` bring a solo onto
a chain, and `setup/` makes the hosts, the chain and the provisioning server.

## Inventory

| Component | State it keeps | Operations | What is hard | What makes it correct |
|---|---|---|---|---|
| helper queue, `chain-cosmos-sdk.js` l.66-220 | per queue: entries, a promise and a flag per call | call, wake, cancel, run, retry, settle | a call goes on after it was cancelled; every exit has to wake the next | one call at a time that can still answer, no lost wake-up, no answer of a cancelled call, the newest call survives |
| connection to the chain, l.222-396 | queue of deliveries, temporary files | deliver, read the mailbox | retries after a lost answer, lagging nodes, sequence numbers, restart | each message at most once, in order, without gap, in the end |
| solo SwingSet, `start.js`, `outbound.js` | kernel and mailbox, state file, tracker per target | inbound, command, run, save, deliver, restart | kernel runs overlap at each await; crash between run, save and deliver | what is sent is saved, acks are durable, nothing is skipped, the outbox drains |
| chain SwingSet, `launch-chain.js`, `ag-chain-cosmos`, `handler.go` | kernel, mailbox, state file, storage port, block's store | launch, deliver, save, return, commit, replay | a file that is not part of the block's transaction; a port per message; torn file | until a crash the store shows the kernel's mailbox; committed acks never fall back |
| module storage, `keeper.go`, `storage.go` | values, key lists | set, get, has, keys, entries, values, size | an index kept by hand; the same bytes on all validators | the index is exact; replicas agree |
| module messages, `types.go`, `msgs.go`, `tx.go` | none | parse, validate | numbers that are floats, errors that are overwritten | natural numbers and texts arrive as written; well-formed packets pass |
| web listener, `web.js` | sockets by number | connect, close, post, send | numbers start again with the process, the vat's do not | a session speaks to its own socket |
| HTTP vat, `vat-http.js` | CapTP sessions by number | open, close, forward | as above | a client is served by its own session |
| REPL, `html/main.js`, `repl.js` | history; per page its rows and next number | submit, evaluate, broadcast, save, reconnect | tabs contend for numbers; broadcast before save; saves that overtake each other | answered evaluations stay; tabs agree |
| onboarding, `ag_setup_solo`, `ag_pserver` | base directory, database of keys | provision, transfer, add-pubkeys | lost answers of transfers, exceptions, a new chain | a solo started by the run that asked for it is provisioned and funded; each key is added or its error shown |
| CapTP library, `captp.umd.js` | exports, questions and imports of a session, postponed calls; ibid tables of a message | bootstrap, call, return, resolve; serialize, unserialize | calls on answers and promises that are not there; promises settled before, while and after they are sent; shared and cyclic graphs | a method runs on what was meant, in order; everything settles; a copy is like the original |
| contract upload, `upload-contract.js` | names and installations asked for; `home.uploads` and READY in the vats | ask, bundle, install, save, resolve | uploads side by side, answers in any order, failure halfway | a name has its contract; READY comes after all |
| bootstrap and provisioning vats | remotes and egress of the chain, bundles, presences | bootstrap of each role, provision, fetch the bundle | machines start in any order; the answer sets off the next step | an answered request is served; a bundle is its owner's; a client loads |
| registry, `vat-registry.js` | names both ways; names kept by the pledger | set, get, reverse get | asynchronous arguments, overtaking answers | a name once shown stays |
| setup directory, `setup/init.js` | placements; files | allocate, collate, create files | cut short and run again | a complete directory is of one run; nodes are numbered without gaps |
| testnet setup, `setup/main.js`, roles | stamp files, version; hosts | bootstrap, bump, destroy | killed and failed runs, directories removed in part | a stamp is true; one chain at the end; it can be repeated: all unless a stop failed on a running service |
| base directory, `init-basedir.js`, `set-gci-ingress.js`, `ag_setup_solo` | files, `connections.json`, `vats/gci.js` | init, set ingress, upgrade | failed and killed runs, replaced entries | what is started is whole and connected to the chain its vats know |
| pledger, `vat-pledger.js` | purses per account | deposit, withdraw | awaits between test and use | an account shows what was paid into it |
| canvas, `pubsub.js`, `vat-http.js`, `html/main.js` | last state at the publisher, in the vat, in the page | publish, notify, ask, paint | answers and broadcasts on two connections | a page shows what was published last |
| Go/Node bridge, `agcosmosdaemon*` | reply channels, ports, promises | call, dispatch, settle, reply | goroutines, threads and an event loop share a map | each call returns its own answer, and does return |
| application, commands, REST and CLI queries | none of their own | wiring, formatting | | |
| handoff, host, Zoe, gallery and demo vats | none of their own | pass on objects of other packages | | |

How they interact: a command or an inbound mailbox starts `processKernel` in
`start.js`; that calls `deliver` of `outbound.js`, which calls the `deliver` that
`connectToChain` returned, without waiting for it; that call waits in the helper
queue. `web.js` and `chain-cosmos-sdk.js` call back into `start.js` whenever
something arrives. The Go handler calls Node and waits for the answer, while Node
calls back into the store through the port of the message.

## Modules

| Module | Models | Composition |
|---|---|---|
| `HelperQueue` | `queuedHelper`, `retryHelper`, `retryRpcAddr` | |
| `SerialHelper` | what callers of `deliver` expect | implemented by `HelperQueue` without a limit |
| `MailboxExchange` | a solo, its deliveries, blocks, mailboxes | |
| `Channel` | numbers arrive once, in order, without gap | implemented by each direction of `MailboxExchange` |
| `SoloNode` | `start.js`, `outbound.js` | |
| `ChainNode` | `launch-chain.js`, `ag-chain-cosmos`, `handler.go` | |
| `KeeperStorage` | `keeper.go`, `storage.go` | |
| `MessagesJSON` | `types.go`, `msgs.go`, `client/cli/tx.go` | |
| `Bridge` | `agcosmosdaemon.go`, `agcosmosdaemon-node.cc`, `ag-chain-cosmos` (`fromGo`), the ports of `handler.go` | |
| `Repl` | `html/main.js`, `repl.js` | |
| `CapTPSessions` | `web.js`, `vat-http.js` | |
| `Canvas` | `pubsub.js`, `vat-http.js`, `html/main.js` | |
| `Pledger` | `vat-pledger.js` | |
| `BaseDir` | `init-basedir.js`, `set-gci-ingress.js`, `ag_setup_solo/main.py` | |
| `CapTP` | `captp.umd.js` (`makeCapTP`, `HandledPromise`, `E`) | |
| `Marshal` | `captp.umd.js` (`makeMarshal`) | |
| `Upload` | `upload-contract.js`, `vat-http.js`, `scratch.js` | |
| `Bootstrap` | `vats/bootstrap.js`, `vat-provisioning.js`, `vat-http.js` | |
| `Registry` | `vat-registry.js`, `vat-pledger.js` (`getBalances`) | |
| `SetupInit` | `setup/init.js`, the `show-*` commands of `setup/main.js` | |
| `Onboarding` | `ag_setup_solo/main.py`, `ag_pserver/main.py` | |
| `Setup` | `setup/main.js`, `files.js`, the Ansible roles | |
| `Parts` | `KeeperStorage`, `MessagesJSON`, `Bridge`, `CapTP`, `Upload`, `Registry`, `SetupInit`: the parts of `MCParts` about which `PartsProofs` and `CapTPProofs` prove something | parts without common state side by side |
| `HelperQueueProofs`, `MailboxExchangeProofs`, `SoloNodeProofs`, `ChainNodeProofs` | theorems about the module of that name, the first also about `MCHelperQueue` | |
| `EdgesProofs`, `SetupProofs`, `PartsProofs` | theorems about the parts of `MCEdges`, `MCSetup` and `Parts` | |
| `CapTPProofs` | theorems about the CapTP session of `Parts` | |
| `MCHelperQueue` | the queues of `deliver` and `getMailbox`, of which a behaviour shows one | two instances of `HelperQueue` |
| `MCDelivery` | `MCHelperQueue` and `MailboxExchange` | side by side |
| `MCParts` | `Parts`, `Marshal`, `SoloNode` | side by side |
| `MCEdges`, `MCNodes` | `Repl`, `CapTPSessions`, `Onboarding`, `BaseDir`, `Pledger`, `Canvas`; the second with `ChainNode` | side by side |
| `MCSetup` | `Setup`, `Bootstrap` | side by side |
| `MCChainNode`, `MCCapTPSessions`, `MCOnboarding` | one module, for the run of a finding | |

A run whose module extends two components needs different names for what both have: hence `ExchangeSpec`,
`SoloSpec` and `ChainSpec` with their parts.

**HelperQueue.** JavaScript runs to completion between two awaits, so an action
is the code between two of them. `queue` is `queued[name]`; `awake` and
`cancelled` are the promise `wait` and the flag of each call; `pc` says at which
await a call stands. `QueuedHelper` is the synchronous part of a call, with the
loop that pops the excess (`KeptLength`). The exits share
`LeaveAndWakeNext`, the `finally` block. The helper's output is reduced to
whether `parseReturn` gives a value.

**MailboxExchange.** The solo's kernel sends (`SoloSends`), `CallDeliver` is what
`outbound.js` hands over, `JoinQueue` the end of the temporary file,
`SendTx`, `HelperReturns` and `HelperBreaks` the head of the queue, `Block`
the ante handler's check of the sequence number and the execution, `ReadMailbox`
what a possibly lagging node shows, `SoloRestart` the loss of everything in
memory. `harsh` is chosen at the start and allows calls to overtake each other,
transactions to be rejected, and restarts; the properties that need their
absence say so. Messages are their numbers.

**SoloNode.** `processKernel` calls are processes that go through running, saving,
saved; the kernel and the mailbox (`mem`) are shared. `SaveState` takes the
snapshot, `Rename` puts it on disk, so that two saves can end in either order.
The body of a message is the incarnation that sent it, which is what makes
equivocation after a crash visible. `interrupted` records that a kernel run began
during another or a message came during one.

**ChainNode.** `deliver` is the store of the block under execution, `cache` that of
the transaction, `file` the state file with the value `Torn` for a write that was
cut short. `chainStage` goes through the awaits of `toSwingSet0`. After `NodeCrashes` the
transactions of the unfinished block are executed again (`replay`) against the
committed store and whatever file is on disk. The kernel forwards each new
message to `Fwd` of its peer.

**KeeperStorage.** One store for each validator. `KeyLists` is the set of
sorted enumerations of a Go map, so that a replica's iteration order is free until
the code sorts. `size` of `storage.go` is left out: `string(int)` makes a character
of the number, and nothing calls it.

**MessagesJSON.** A packet is any small JSON value; numbers are halves, to have
some that are no integers.

**Bridge.** `go` and `thread` say where the goroutine and the C++ thread of a call
stand; `dispatched` is the queue of the event loop, `settled` the promise of the
replier, `replies` the map of channels. A step in which a goroutine or a thread is
in the map is one of `enters`, `looks`, `deletes`, so that two of them at a time
are a state. `ScriptEnds` is the end of the main script, before which nothing that
was dispatched is handled.

**Repl.** A tab is a page with its `rows` and `nextHistNum`, its `socket` the
broadcasts on their way. Requests are posts and may overtake each other. Nothing in
`web.js` or `start.js` keeps two of them apart, so a request goes through the steps of its
own `processKernel`: `Run` with the handler of the vat (`running`), `TakeSnapshot` at the start
of its `saveState` (`saves`), `ReturnCommand` when its snapshot has become the state file and
the answer goes out. Snapshots are renamed in any order; `dropped` are the answered evaluations
that an older one took out of the file, until a later one brings them back. A promise that an
evaluation returned is resolved by `ResolvePromise`. Failed saves are in `SoloNode`.

**CapTPSessions.** `points` is the map in `web.js`, `conns` the one in
the vat. A session is named by the socket it was opened for, so a pair of a socket
and a session in `received` or `served` shows a mix-up.

**CapTP.** The two ends of one session with the messages between them. A message
carries the values marshal sends, as the sequence of their slots. The vat's end
has `exports` (the tables of objects and promises, by slot number), the client's
has `questions`, `known` (`slotToVal`) and `resolved`; `postponed` are the calls of
`makePostponed`, `waiting` those on a promise of the vat. Both ends run their
promise reactions before they take another message, so `Settle` is one action:
first the reaction that `serializeSlot` registered, then the calls that wait.
`torn` are promises whose first slot was taken by an answer that could not be
serialized: the client never hears of the slot, and `CTP_RESOLVE` for it makes
`dispatch` throw. A call that fails fails the calls that wait for its answer, and those
that wait for theirs (`Behind`). Clients of this repository export nothing, so that calls go one way.

**Marshal.** A value is a graph of objects of the shapes `passStyleOf` tells apart.
`Replace` is the replacer with its ibid table, `FullRevive` the reviver with its
own. A cycle is serialized without complaint and refused by the reviver.

**Upload.** Each upload stands at an await (`at`); the arguments are the same for
all. The vats are `loaded`, `isReady`, `installed` and `uploads`. `overlapped`
records that two uploads with `--once` had both been told that nothing was ready.

**Bootstrap.** One action is what a message from outside sets off in a machine, since
its kernel runs until nothing is left to do. `egress` is object 1 of each peer, the
one ingress every role asks for. `one_chain`, `one_controller` and `one_client`
are other words for the roles of scenario 1. What `vattp` and `comms` do when a
peer is added again is theirs: both outcomes are possible, and so it is left open whether a peer whose
messages came before it was provisioned (`Ignore`) is known to them from then on. `early` are clients that
asked for a bundle before the chain had one: `getDemoBundle` is sent once, and they
stay at LOADING.

**Registry.** `CallSet` and `Set` are the two halves of `set`, around the await of its
arguments; a read of a balance goes through the test, the answer and the second look
at `registeredAssays`.

**SetupInit.** The dialogue and the files it leaves. A placement is named for its provider
and its number, and `NAMES` has these names in the order of strings, in which the modules are
written and the addresses shown. `NumbersAllNodes` reads the directory as Terraform and
`show-hosts` do.

**Canvas.** A page is a sequence of `run()`s, each with its own `oldState` and its
own request; the pixels (`shown`) are shared. `late` records that an answer was
painted over something newer, which the code does not notice.

**Pledger.** A call of `depositAll` goes through its awaits (`asks`, `makes`,
`sent`); a purse is named for the deposit that asked for it. `overlapped` records
the accounts and assays for which two deposits made a purse at once.

**BaseDir.** `files` is the base directory in the order in which `init` makes it
(`InitStages`); `html` stands for `html` and `contracts`, `key` for the helper's
directory and the address. A connection is a GCI, the base of a chain ID
and RPC addresses. `torn` records a `set-gci-ingress` that was cut short between its two files.

**Onboarding.** A key stands for one run of `ag-setup-solo`, which asks, waits for
the answer and starts the solo. `job` is the state of
`enablePubkey` for it, whether it came through a wormhole or from the database.
`DoLatest` is the function of that name; `Raise` shows that it is called twice
after an exception. `reported` are the keys for which `enablePubkey` ended in an error
that was printed.

**Setup.** The files of the setup directory (`disk`) guard the stages, listed in
`Order`. A play works on each service of `todo` in any order and may stop
anywhere. A genesis is the number of the `init` that made it; GCI, config and
installed files are the genesis they were made from. `torn` and `stray` record an
unfinished `destroy` and a stop that failed on a running service, whose
consequences the code does not handle.

### Bounds

Every bound is a CONSTANT whose name begins with `Max` and stands in the guard
of the action it limits. They are the sizes at which each interesting case
happens at least once:

| Run, part | Bounds | Why enough |
|---|---|---|
| `delivery`, the queues | 4 calls, limits 1 and none | one running, one waiting, one superseded, one new |
| `delivery`, the exchange | 2 messages each way, 1 fault, 1 restart | a message overtaken or shadowed by another |
| `parts`, a solo | 2 calls of `processKernel`, 2 messages out, 1 in, 2 incarnations, 1 command | two overlap with a crash before or after any step; a message before and one after |
| `parts`, a chain node's parts | 5 paths on 3 levels, 2 replicas; packets of up to two messages; 3 calls over the bridge | siblings, a nested key, an unrelated one, enough keys to be out of order; a call before the event loop turns, and two that follow each other |
| `parts`, CapTP and what uses it | 3 calls of a client, 2 objects, 1 promise; graphs of 3 objects with 24 shapes; 3 uploads, 1 failure; 2 sets, 3 reads | a call on an answer of a call on an answer; a promise in the first message, in an answer and in one that cannot be sent; an object shared, a cycle over two and over three; two uploads with `--once` and one without; a name kept by one read and overtaken by another |
| `parts`, the directory | 2 placements, 2 datacenters, 1 node each, 2 runs | a placement without nodes, one in two datacenters, files of a run that was cut short |
| `nodes`, REPL | 2 tabs, 2 commands, and for tabs one at a time 2 requests served together, 1 lost connection or crash | two tabs with the same number; two saves that overtake each other, and a crash after them. Tabs that contend while their requests overlap, and both faults together, are covered by the proofs only |
| `nodes`, onboarding | 3 keys, 2 chains, 2 faults, 2 retries | a key in progress, one popped, one left; a transfer that is tried again and one that is given up |
| `nodes`, other edges | 3 sockets, 2 calls; 2 pixels, 3 states, 2 connections of a page; 3 deposits, 2 withdrawals; 2 chains and one more, 2 failures | a closed, an open and a new socket; a color that changes back; a deposit after two that overlap; a failure of a run and of the one that repairs it |
| `nodes`, a chain node | 2 solos, 3 transactions, and either 2 messages each with a crash or a failed write, or 1 message each with both | one solo's message changes the other's mailbox, and news after a failure |
| `setup` | 2 nodes, 1 new version, 4 inits, 1 failure, 1 destroy | a failure before or after any stage of either version |
| `setup`, the vats | 2 clients, 2 requests, 4 command lines of the chain | a key asked for twice, two keys, a client that is early, one that is not informed, both scenarios and two that are wrong |

### Fairness

- `HelperQueue`: timers and promises run (weak fairness per call), a helper
  process ends, and a chain that is asked again and again finally answers
  (strong fairness of `SomeHelperSucceeds`: of the attempts, not of one call's). Without the
  last, retrying for ever is what the code does.
- `SoloNode`: the event loop goes on with each `processKernel` and the kernel
  finishes its crank. Crashes and failed saves are not forced, and `OutboxDrains`
  excuses them.
- `MailboxExchange`: the solo's event loop and helper go on, blocks are made, and
  a mailbox with news is read in the end: a solo asks after every block.
- `Bridge`: goroutines and threads are scheduled, the event loop turns, and the
  kernel ends a delivery, with success or not. That a call is made is not forced.
- `Setup`: a running command goes on, and an operator whose bootstrap failed
  runs it again, as the README's section on bootstrapping expects. `Fail` is
  bounded, so that failures end.
- `Bootstrap`: a kernel that is up takes what has come for it, as its loop over the
  mailbox does with each block. That a machine is started or a request made is not forced.

The other modules have safety properties only.

## Runs

Parts without common state share a run (`part`, `edge` or `name` says which one a behaviour
shows), so that there are four runs of what holds and eight that each show a finding.

| Run | Shows |
|---|---|
| `delivery` | Of the helper queues `QueueInv`: the queue holds the live calls and only its head is awake. `OnlyCurrentAnswers`: no superseded call answers, and the newest is not superseded. `EveryCallSettles`. `DeliverIsSerial`: the queue without limit implements `SerialHelper`. Of the exchange `BothWaysAreChannels`: from chain to solo a `Channel` under all faults, from solo to chain unless `harsh`; `NoSharedSequence`; `AllArrives` |
| `helper_overlap` | a counterexample to `OneHelperRunning` once a query was cancelled |
| `exchange_overtaken` | a counterexample to `ChainSkipsNothing` |
| `parts` | Of a solo `SentSurvives` (no equivocation, durable acks) unless kernel runs overlapped; `HandedInOrder` and `IdleMeansSent` even then; `OutboxDrains`. Of a chain node's parts `IndexExact`, `ReplicasAnswerAlike`; `PassedAsWritten`; `CallsKeptApart`, `EveryCallReturns`. Of CapTP and what uses it `RunsAsCalled`, `SettlesAll`, `RoundTrip`; `UploadsAsNamed`; `NamesStay`. Of the setup directory `NumbersAllNodes` |
| `solo_unsaved` | a counterexample to `SendsWhatItSaved` when runs overlap |
| `packet_number` | a counterexample to `RefusesUnnatural` |
| `nodes` | Of a solo's other edges `AnsweredStays`, `TabsAgree`; `SessionsKeptApart`; `RunningIsProvisioned`, `AddsAllInTurn`; `StartsWhole`; `ShowsWhatIsPaid`; `ShowsLastPublished`. Of a chain node `StoreShowsMailbox`, `CommittedAckMonotone` with crashes and failed writes; `MailboxMatchesUntilCrash` |
| `chain_replay` | a counterexample to `MailboxMatchesKernel` after a crash |
| `captp_restart` | a counterexample to `PointToPoint` after a restart |
| `add_pubkeys` | a counterexample to `AddsAll` after an exception |
| `setup` | `StampsTrue`, `BootstrapFinishes` of the operator's commands; `AnsweredIsProvisioned`, `ClientLoads` of the vats |
| `setup_stop_ignored` | a counterexample to `StopsAll` when a stop fails |

Deadlock is not checked, except in `helper_overlap`: the parts may stop, since nobody has to
send another message and bounded faults and messages run out. That nothing is left waiting is
what the liveness properties and `IdleMeansSent`, `SettlesAll` and `TabsAgree` say.

Where the code does something else in a case, the property excepts exactly that case and
its comment names it:

| Property | Excepts | Shown by |
|---|---|---|
| `SentSurvives` | kernel runs that overlapped | `solo_unsaved` |
| `BothWaysAreChannels` and `AllArrives` from solo to chain, `NoSharedSequence` | behaviours with `harsh`: calls that overtake each other, rejected transactions, restarts | `exchange_overtaken` |
| `MailboxMatchesUntilCrash` | what comes after a crash; a failed transaction, until the next news | `chain_replay` |
| `StoreShowsMailbox`, `CommittedAckMonotone` | a state file that was torn. The first compares the store with the mailbox that was written last, through crashes, and says nothing of the kernel | |
| `PassedAsWritten` | the number of a message that is no natural one, which becomes 0 | `packet_number` |
| `SettlesAll` | promises settled with what cannot be passed, and those of a torn answer | |
| `UploadsAsNamed` | installs twice where two uploads with `--once` overlapped or one failed | |
| `NumbersAllNodes` | what `show-rpcaddrs` puts first, unless placements were entered in the order of their names. Files that a cut-short run left are no exception: the property says that Terraform cannot apply them | |
| `AnsweredStays` | evaluations taken out of the state file by an older snapshot that was renamed last, until a later one brings them back | |
| `TabsAgree` | the row of a command that was refused, which stays at 'sending for eval' in its own tab | |
| `SessionsKeptApart` | what a session does after a restart of the process | `captp_restart` |
| `RunningIsProvisioned` | a solo whose first run was killed while it waited: the next run upgrades and starts it without asking | |
| `AddsAllInTurn` | runs in which `enablePubkey` threw; keys for which it printed an error are not added | `add_pubkeys` |
| `StartsWhole` | a `set-gci-ingress` cut short between its two files | |
| `ShowsWhatIsPaid` | two first deposits of one assay that overlap | |
| `ShowsLastPublished` | an answer that comes later than a newer broadcast | |
| `StampsTrue`, `BootstrapFinishes` | a stop that failed on a running service, a `destroy` that was cut short and not repeated | `setup_stop_ignored` |
| `ClientLoads` | clients that are early | |

The type invariants are proved, and part of no run.

For every property of a passing run there is a mutant beside the definition it changes (marked
`Mutant:` in the module), a plausible bug of that code with which TLC finds the
property violated in the same run.

## Findings

- **Two helpers at a time** (`helper_overlap`, `lib/ag-solo/chain-cosmos-sdk.js` l.225: "Only one
  helper running at a time."). A query that is cancelled by a newer one leaves the queue while its
  process runs on, and the next query starts a process beside it. Nothing is answered
  wrongly (`OnlyCurrentAnswers`), and deliveries are never cancelled, so that of these
  there is only one (`DeliveriesSerialised`).
- **Overtaken delivery** (`exchange_overtaken`, `chain-cosmos-sdk.js` l.370).
  `deliver` awaits its temporary file before it queues, so that a later call can be
  executed first; the earlier one's messages are then ignored.
- **Overlapping kernel runs** (`solo_unsaved`, `lib/ag-solo/start.js` l.122). A
  browser command may start a kernel run while that of a delivery is saving. The
  delivery then hands over messages that are in no outbox on disk, as the run shows; a crash
  makes the solo send something else under the same number. The TODO there asks for this to be
  synchronised.
- **Numbers that become 0** (`packet_number`, `x/swingset/internal/types/types.go` l.88). The error
  of `Nat` for the number of a message is overwritten or dropped: a negative or
  fractional number becomes 0 and the packet is broadcast, while such an acknowledgement is
  refused. What `deliver` writes has natural numbers only.
- **Kernel ahead of the block** (`chain_replay`, `lib/launch-chain.js` l.76). The
  state file is written before the block commits. After a crash in between, the
  block is executed again and its messages are old news to the kernel; the store
  is never written, and the mailbox no longer shows what the kernel means.
- **Numbers of connections** (`captp_restart`, `web.js` l.115). They start again
  after a restart while the sessions in the vat are restored.
- **Two keys popped** (`add_pubkeys`, `ag_pserver/main.py` l.385). An exception
  leads to two calls of `doLatest`, and the run may end before the last key is
  provisioned, without an error for that key.
- **Stops that fail** (`setup_stop_ignored`, `setup/main.js` l.336: "Stop all the services."). The
  results of the three stops are not looked at; where one fails, the service goes on while
  the old chain's files are removed under it.

Some smaller things met while modelling, which no doc speaks against:

- Two posts to the REPL that are served side by side save side by side; the older snapshot may
  be renamed last, and a crash before the next save then takes back an evaluation that was answered
  (`dropped`). It is the same lack of synchronisation as in `start.js` l.122.
- A solo's client that runs before the chain was bootstrapped for it stays at LOADING
  until it is restarted from an empty state (`Bootstrap`, `early`). On the chain the
  first address of the command line is the controller's; with another one in its
  place requests to provision are never answered.
- The FIXME at `vat-http.js` l.115 is out of date: the request is answered when
  the chain has answered. What may still be outside a block is the acknowledgement of
  that answer, which shares its account with the transfers of `enablePubkey`; these
  are retried.
- A first run of `init` that was cut short leaves `placement-*.tf` files that a second
  run with other placements does not replace, and a placement without nodes has no
  offset; Terraform refuses both (`Applied` has neither). `show-rpcaddrs` lists placements by
  name, so that its first address is node 0 only if placements were entered in that order.
- Slots of CapTP carry no sign for the side that exports, which is enough because
  only the vat does.

## Proofs

Every statement in the eight `*Proofs` modules is checked by tlapm to the last leaf, for
every value of the constants that meets the assumptions of the modules:

| Assumption | Says | Why the code meets it |
|---|---|---|
| `MaxQueuedAssumption` | the limit is a natural number or undefined | it is the optional argument of `queuedHelper` |
| `PathsAssumption` | paths are non-empty sequences of segments; the empty string is no value | `strings.Split` never gives an empty slice; `SetStorage` treats the empty string as absence |
| `ExchangeAssumption`, `BoundsAssumption`, `RetriesAssumption`, `RunsAssumption`, the numbers in `SoloAssumption`, `ChainAssumption` and `OnceAssumption` | bounds are natural numbers, with one incarnation of a solo at least | bounds of the model; `RetriesAssumption` is the number of retries in `ag_pserver` |
| `SoloAssumption` | targets of deliveries are peers | the kernel has a mailbox for each target that `start.js` connects to |
| `ChainAssumption` | peers are finitely many and forward to peers | a chain has finitely many solos |
| `MissingAssumption` | no file, a torn file and an absent entry are told from proper ones | `undefined` and what does not parse |
| `DepositsAssumption` | finitely many deposits | |
| `ChainsAssumption` | a foreign chain has another GCI | a GCI is a hash of the genesis |
| `FirstIsNode` | the first node is one | |
| `HalvesAssumption` | numbers of a packet are halves of integers | the abstraction of doubles in `MessagesJSON` |
| `SessionAssumption` | objects and promises of a vat are different and neither data, a function, a rejection nor unsettled; what a bootstrap object holds can be sent, an answer need not; neither is empty, and the number of calls is natural | a message of marshal has a root; the bootstrap object of `vat-http.js` holds presences and data |
| `ContractsAssumption`, `OnceAssumption` | contracts are a sequence; what has `--once` is an upload | the arguments of the command line |
| `DirectoryAssumption` | a provider has a list of its datacenters, each once; a placement that can be made has its name in the order of names; bounds are natural numbers | the keys of an object, sorted; `Object.keys(PLACEMENT_PROVIDER).sort()` |

Nothing is assumed besides. For each module below, the invariant that is proved is
stronger than the property, since the property says nothing about what is still
on its way. The invariants were model-checked before they were proved.

**HelperQueueProofs.** `TypeCorrect` first. That two live calls never run their helpers
together (`OneLiveHelper`, a step of these proofs) is not inductive: it says nothing about the calls that have not started, and
waking the wrong one breaks it a step later. `QueueInv` is: the queue holds each
live call once and nothing else, of these exactly the head is awake, a call that
runs was woken, and so was one that was cancelled. `SubmitKeepsQueue`,
`LiveSettleKeepsQueue`, `CancelledSettleKeepsQueue` and `ProgressKeepsQueue` show
that it survives the four kinds of steps; a cancelled call finds itself out
of the queue, so its `finally` block wakes a head that is awake already, which
is the delicate point. `LiveExclude` follows: two live calls that run are
both awake and in the queue, hence both its head. `SupersededNeverAnswer` adds that
whatever answered was not cancelled, nor is the last to be asked (`AnsweredInv`). Without a limit nothing is ever
cancelled (`NothingCancelled`), so every call is live and the helpers are serial
(`DeliveriesSerialised`), the answers come in the order of the calls
(`DeliveriesInOrder`, by the invariant `submitted = answered \o queue`), and the
queue implements `SerialHelper` (`UnboundedImplementsSerial`), with the queue as
backlog and the executing calls as active: each step maps to one of its steps or
to a stutter. `DeliverImplementsSerial` says the same of the two queues that
`MCHelperQueue` shows side by side (`DeliverIsSerial`). Both are instances of one module, so the
lemmas are about `QueueStep`, in which a new call cuts the queue to any length: the steps of either
queue are such steps (`NextIsStep`, `DeliverIsStep`), whatever its limit.

**MailboxExchangeProofs.** `SequencesNeverRace` rests on
`SequenceInv`: what is pending has the number the chain expects, and all of it belongs
to the call at the head of the queue. Of the refinement, `ToSoloIsChannel` needs `ToSoloInv`:
no ack anywhere on its way, in a file, the queue or a transaction, exceeds what the
solo processed, so no mailbox begins with a gap. `ToChainIsChannel` needs `ToChainInv`:
without overtaking, the calls in the queue and in files follow each other
(`Consecutive`), the first starting no later than where the chain is.
`ExchangeImplementsChannels` is the property the run checks.

**SoloNodeProofs.** `StatesWellformed` says of every kernel state, in memory, on disk or in
a snapshot, that it has one message per number and acks what it got. `TrackerInv` makes
`CallsInOrder` inductive, however runs overlap. `IdleHasSent` is inductive with the types,
since whatever adds to the outbox comes with a call under way. `SentIsOnDisk` needs `NoOverlapInv`: one call
at a time, which saves what it will hand over, so that what was handed over is on disk.

**ChainNodeProofs.** That the numbers of the mailbox stay in their types needs that a kernel
sent one message for each it received (`CountedInv`). `StoreInv` relates the store of
the block, the cache of the transaction, the mailbox in memory, the kernel and the file:
a store is never ahead of the memory, which is not ahead of the kernel (`BehindInv`); acks rise
from store to store (`RisingInv`); a file that is not torn is not behind the
committed store (`FileInv`), which is what a replay after a crash needs. `StoreAlwaysShowsMailbox`
rests on `FormsInv` and `ShownInv`: `mailbox` and the copies `mailbox.<peer>` never disagree, which says that the
solos read what was written last, through crashes too, and not that this is what the kernel
means; the latter is `StoreMatchesUntilCrash`. `CommittedAcksRise` is an action
property of it. `UntilCrashInv` is the equality that holds before the first crash.

**EdgesProofs.** Of `MCSpec`, where a behaviour shows one part. *CapTPSessions*: `CapTPInv`
follows a connection's number from `web.js` through the queue of commands to the
session of the vat. *Onboarding*: `PaidInv` relates the stages of a job to the chain of now,
`TurnInv` says who works, which keys are left, and that those taken off the list are at work or
`Done`: provisioned and funded on this chain, or reported. *Repl*: `AnsweredInv`
says that the state file has each answered evaluation unless it is `dropped`, and that the
history keeps what the file and the snapshots under way have; `TabsInv` says of a tab that is not behind that each line of the history is
shown or the last update on its way for it. *Canvas*: `SoloInv` and `PageInv` say that what comes
last on each of the two connections is what the sender has. *Pledger*: `OnePurse`, for accounts
without overlapping deposits. *BaseDir*: `ConnectedInv`, which needs that a connection that is
added stays through those after it: `connections.json` is built with a fold,
about which `FoldIs` and the lemmas after it argue by a minimal counterexample.

**SetupProofs.** `StampsAreTrue` needs, besides the types, where a bootstrap
is when which files exist (`StageInv`), which services a new name finds stopped (`StopInv`), and
what each file says of the hosts (`HostsInv`). `RunningAreReplacedOnlyWhenHurt` is an action
property that follows from `StopInv`: whatever replaces or removes the files of a running service
is a step of a run in which a stop failed or a `destroy` was cut short, as the run
`setup_stop_ignored` shows one. `AnswersAreTrue` is about the vats: `VatsInv` follows a request
through the messages between client, controller and chain to its answer, since only
there is it known that the chain did what it says.

**PartsProofs.** Of `PartsSpec`, and of `Spec` for the keeper. *KeeperStorage*: `IndexIsExact` is inductive together with the types. A set changes
the list of one parent; `PathFromParent` shows that a path is determined by its
parent and last segment, so that no other path's entry is touched, and
`KeyListLists` that what is written lists exactly the key map, for which the
finite sets and their enumerations need the library's `FS_Surjection`.
`ReplicasAgree` needs that lists are sorted (`StoreInv`) and that a
set has one sorted enumeration (`SortedOnce`, by the least place at which two of them
differ), whatever order Go's map gives.
*MessagesJSON*: `PacketInv` says what `msg` is once the packet decodes (`Parsed`), with 0 for
the number of a message that is not natural.
*Bridge*: the call that holds the mutex is the only one at work (`MutexInv`), its
thread works while its goroutine waits and what is dispatched has not been settled
(`ThreadInv`), its port has its handler (`PortsInv`). *Upload*: `ProgressInv` says what an
upload asked for, heard of and saved at each await, `OnceInv` that without overlap or
failure only one with `--once` begins. *Registry*: `KeptInv` relates what the
pledger keeps and shows to the registry's two maps, `ReadsInv` the reads among each other.
*SetupInit*: `WellPlaced` says that placements have a name each, with a number that their
provider has reached, which needs that the one that is asked for has been entered or is the
next (`CanBeEntered`). `WrittenInv` says how far a run has written its files, in their order
(`Written`), and `DiskInv` that what is there of other runs is older: `network.txt` is the last
file, so that all are of its run. What is in them is computed by folds, which are unrolled into
functions (`FoldExists`), about whose values the proof argues by a least or greatest place:
placements are numbered one after the other (`CollatedIs`, `StartsGrow`), hence every number
is of one node (`NumberIsOf`, `NumberedOnce`).
`PartsSpec` is `MCSpec` of `MCParts` without `Marshal` and the solo: each step of
`MCSpec` is one of `PartsSpec` or leaves its variables alone.

**CapTPProofs.** Of `PartsSpec` too. Neither property is inductive: `RunsAsCalled`
speaks of calls that have run, and breaks a step after one is at the wrong place or out of its turn;
`SettlesAll` only speaks when nothing is on its way. `SessionInv` says where everything is:

- *Slots* (`HoldsSlots`, `KnownWell`, `MessagesWell`): each value has one slot of its kind, a slot
  keeps its value at both ends and in every message.
- *Calls*: a call has been answered, has an open question, or waits behind exactly one other
  call at the client (`AnswersWell`, `LaterWell`); questions through one reference are in the
  order of the calls (`QuestionsWell`), and `toVat` is the end of them (`ToVatWell`).
- *Questions*: one that is open waits for one promise, runs, or has its return on its way,
  and only one of the three (`PlacesWell`); what waits does so for the promise that its
  reference stands for (`WaitingWell`).
- *Order*: what has run was called so, and before whatever waits through the same reference
  (`ExecutedWell`).
- *Promises*: the slot of an exported promise comes before its resolution, unless it was torn
  (`PromisesWell`), and what the client resolved it with is what settled it (`ResolvedWell`).

The hard part is an answer that comes: `SettleAnswer` passes on any number of calls in one
step, each of which may go out or fail, and failing fails those behind it. The clauses are
therefore said of records for the client, the world and the vat
(`World`, `Client`, `Vat`), with the calls that are in hand, and shown for the handling of one call
(`HandleKeeps`); the fold over the calls keeps them (`AllPassed`) by a minimal
counterexample. `Behind` is the least set closed under waiting, so that of the calls outside
nothing waits for one inside. In the same way `Serialize` folds over the promises that got
their slots. That all is settled at the end is again a minimal counterexample: the least call
without an answer waits for a smaller one, or for the vat.

Only model-checked:

- Liveness (`EveryCallSettles`, `OutboxDrains`, `AllArrives`, `BootstrapFinishes`,
  `EveryCallReturns`, `ClientLoads`): the prover does not treat fairness and ENABLED.
- `RoundTrip`: `Marshal` is written with RECURSIVE operators over graphs, which are beyond the
  prover, and what is serialized is an induction over data.
- That the violations of the findings are reached, which is what a run is for.

## What is not modelled

- The SwingSet kernel, the comms and mailbox code, Tendermint, the Cosmos SDK and
  the light client are other packages. They appear as what this code relies on,
  and their definitions are marked external.
- `getClient`, whose two checks compare a downloaded genesis with the GCI.
- The wiring of `app.go`, `module.go` and `genesis.go`; queries of REST and CLI; the
  daemons' command lines.
- In `ChainNode` the calls of the bridge are atomic, which is what `Bridge` shows of them; the two
  modules are not composed.
- An exception between `connectToChain` and the end of `buildSwingset`, when
  `deliverInbound` is not defined yet: `SoloNode` starts after it.
- Failing temporary files in `deliver`; rates of blocks against queries.
- Pages and wormholes of `ag_pserver`; in `Onboarding`, a solo that is upgraded after its first run
  was killed (`BaseDir` has it, without the chain's view of the key); docker and the
  content of Terraform modules and Ansible plays beyond the services they stop, start,
  install and remove; amounts of tokens.
- Exports of CapTP clients, which nobody in this repository makes; the endpoint
  `/captp/pledger`, which shows one facet of the pledger; array and property traps of the
  proxies; prototypes and accessors beyond the shapes of `Marshal`.
- API keys, volumes and key files of `init`; `rolling-restart`, `ssh` and `run`.
- Vats that pass on objects of other packages (handoff, host, Zoe, gallery); demos.

## Plan

Done: the message path and its two ends, the storage, the bridge, the edges of a
solo with its base directory, CapTP, uploads and the registry, the bootstrap of the
vats, the setup from its directory on, and the proofs of their safety. Next, in this order:

1. *Proofs*: that the atomic calls of `ChainNode` are what `Bridge` implements.
2. *Composition*: `SoloNode`'s deliveries as the input of `MailboxExchange`, so that
   the crash of a solo and the chain's ignoring of old numbers meet; `ChainNode`
   on top of `Bridge`, refining an atomic block; `Onboarding` with `BaseDir` and
   `Bootstrap`, for solos that are upgraded before they were provisioned.

Abstract specifications worth stating for these: a durable outbox for `SoloNode`, a
replicated log for `ChainNode`, a procedure call for `Bridge`.
