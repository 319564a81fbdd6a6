-------------------------------- MODULE Bridge --------------------------------
(***************************************************************************)
(* The process of a chain node: the Cosmos application in Go, the SwingSet *)
(* in JavaScript, and what connects them (lib/agcosmosdaemon.go,           *)
(* lib/agcosmosdaemon-node.cc, the ports of x/swingset/handler.go).  A     *)
(* call of the application is made on a goroutine, which waits for a       *)
(* channel that it has entered in the map `replies`.  A thread of its own  *)
(* carries the call to Node's event loop, waits for the promise that the   *)
(* replier settles, and looks up the channel to wake the goroutine.  In    *)
(* between, JavaScript calls the storage back, on the event loop.          *)
(*                                                                         *)
(* The Go map has no lock.  The application's calls are made one at a time *)
(* because the server of the ABCI (external) holds a mutex.                *)
(***************************************************************************)
EXTENDS Integers, Sequences, FiniteSets

CONSTANTS
  Calls,     \* the calls of the application, each made at most once
  AgCosmosInit   \* the one of makeNewApp, among Calls and before the server starts

VARIABLES
  looping,    \* the main script has ended and the event loop turns
  abci,       \* the call that holds the mutex of the ABCI, as a set
  go,         \* where the goroutine of a call is
  thread,     \* where its thread is
  lastReply, replyPort,
  replies,    \* the reply ports in the map `replies`
  lastPort, storagePort,
  portToHandler,  \* port -> the call whose context its storage handler has
  dispatched, \* calls queued for the event loop
  handling,   \* calls whose handler in JavaScript is at work
  sPort,
  settled,    \* call -> how its promise was settled
  returned,   \* call -> the call whose answer it returned
  stored      \* <<call, context>> of the calls of the storage

goVars == <<abci, go, lastReply, replyPort, replies, lastPort, storagePort, portToHandler>>
nodeVars == <<looping, handling, sPort, settled, stored>>
vars == <<goVars, nodeVars, thread, dispatched, returned>>

None == {}

Init ==
  /\ looping = FALSE /\ abci = None
  /\ go = [c \in Calls |-> "idle"] /\ thread = [c \in Calls |-> "none"]
  /\ lastReply = 0 /\ replyPort = [c \in Calls |-> 0] /\ replies = {}
  /\ lastPort = 0 /\ storagePort = [c \in Calls |-> 0] /\ portToHandler = <<>>
  /\ dispatched = <<>> /\ handling = {} /\ sPort = 0
  /\ settled = [c \in Calls |-> "no"] /\ returned = [c \in Calls |-> None]
  /\ stored = {}

-----------------------------------------------------------------------------
(* The goroutine. *)

(* The ABCI is served after makeNewApp has had its answer. *)
Serving == go[AgCosmosInit] = "done"

(* A delivery registers a storage handler for its context. *)
RegisterPortHandler(c) ==
  /\ lastPort' = lastPort + 1
  /\ storagePort' = [storagePort EXCEPT ![c] = lastPort']
  /\ portToHandler' = [p \in DOMAIN portToHandler \cup {lastPort'} |->
                         IF p = lastPort' THEN c ELSE portToHandler[p]]

CallToNode(c) ==
  /\ go[c] = "idle" /\ abci = None
  /\ abci' = {c}
  /\ go' = [go EXCEPT ![c] = "enters"]
  /\ IF c = AgCosmosInit THEN UNCHANGED <<lastPort, storagePort, portToHandler>>
                         ELSE Serving /\ RegisterPortHandler(c)
  /\ UNCHANGED <<nodeVars, thread, dispatched, returned, lastReply, replyPort, replies>>

EnterChannel(c) ==
  /\ go[c] = "enters"
  /\ go' = [go EXCEPT ![c] = "looks"]
  /\ lastReply' = lastReply + 1
  /\ replyPort' = [replyPort EXCEPT ![c] = lastReply']
  /\ replies' = replies \cup {lastReply'}
  /\ thread' = [thread EXCEPT ![c] = "started"]
  /\ UNCHANGED <<nodeVars, dispatched, returned, abci, lastPort, storagePort, portToHandler>>

(* A channel that is not in the map would never be ready. *)
LookForChannel(c) ==
  /\ go[c] = "looks" /\ replyPort[c] \in replies
  /\ go' = [go EXCEPT ![c] = "waits"]
  /\ UNCHANGED <<nodeVars, thread, dispatched, returned, abci, lastReply, replyPort,
                 replies, lastPort, storagePort, portToHandler>>

(* The channel has no buffer: the thread and the goroutine meet. *)
Wake(k, c) ==
  /\ thread[k] = "sends" /\ go[c] = "waits" /\ replyPort[k] = replyPort[c]
  /\ go' = [go EXCEPT ![c] = "deletes"]
  /\ thread' = [thread EXCEPT ![k] = "ended"]
  /\ returned' = [returned EXCEPT ![c] = {<<k, settled[k]>>}]
  /\ UNCHANGED <<nodeVars, dispatched, abci, lastReply, replyPort, replies, lastPort,
                 storagePort, portToHandler>>

Return(c) ==
  /\ go[c] = "deletes"
  /\ go' = [go EXCEPT ![c] = "done"]
  /\ replies' = replies \ {replyPort[c]}
  /\ portToHandler' = [p \in DOMAIN portToHandler \ {storagePort[c]} |-> portToHandler[p]]
  /\ abci' = None
  /\ UNCHANGED <<nodeVars, thread, dispatched, returned, lastReply, replyPort, lastPort,
                 storagePort>>

-----------------------------------------------------------------------------
(* The thread of a call. *)

Dispatch(c) ==
  /\ thread[c] = "started"
  /\ thread' = [thread EXCEPT ![c] = "future"]
  /\ dispatched' = Append(dispatched, c)
  /\ UNCHANGED <<goVars, nodeVars, returned>>

FutureReady(c) ==
  /\ thread[c] = "future" /\ settled[c] # "no"
  /\ thread' = [thread EXCEPT ![c] = "looks"]
  /\ UNCHANGED <<goVars, nodeVars, dispatched, returned>>

(* An unexpected reply is dropped. *)
ReplyToGo(c) ==
  /\ thread[c] = "looks"
  /\ thread' = [thread EXCEPT ![c] = IF replyPort[c] \in replies THEN "sends" ELSE "ended"]
  /\ UNCHANGED <<goVars, nodeVars, dispatched, returned>>

-----------------------------------------------------------------------------
(* The event loop. *)

ScriptEnds ==
  /\ ~looping /\ looping' = TRUE
  /\ UNCHANGED <<goVars, thread, dispatched, handling, sPort, settled, returned, stored>>

\* Mutant: the port is taken from the first delivery, which launches the kernel.
SetPortOnce(c) == IF sPort = 0 THEN storagePort[c] ELSE sPort

SetPort(c) == IF storagePort[c] # 0 THEN storagePort[c] ELSE sPort

FromGo ==
  /\ looping /\ dispatched # <<>>
  /\ dispatched' = Tail(dispatched)
  /\ handling' = handling \cup {Head(dispatched)}
  /\ sPort' = SetPort(Head(dispatched))
  /\ UNCHANGED <<goVars, thread, looping, settled, returned, stored>>

(* The context a message to a port is handled in; without one, an error    *)
(* that comes back as "".                                                  *)
ReceiveFromNode(port) == {portToHandler[p] : p \in {port} \cap DOMAIN portToHandler}

SendToGo(c) ==
  /\ c \in handling \ {AgCosmosInit}
  /\ stored' = stored \cup {<<c, ReceiveFromNode(sPort)>>}
  /\ UNCHANGED <<goVars, thread, looping, dispatched, handling, sPort, settled, returned>>

\* Mutant: then without a second argument.
SettlesResolved(c, how) == [settled EXCEPT ![c] = IF how = "rejected" THEN "no" ELSE how]

Settles(c, how) == [settled EXCEPT ![c] = how]

(* The handler's promise is settled; AG_COSMOS_INIT is answered at once. *)
Handled(c, how) ==
  /\ c \in handling
  /\ c = AgCosmosInit => how = "resolved"
  /\ handling' = handling \ {c}
  /\ settled' = Settles(c, how)
  /\ UNCHANGED <<goVars, thread, looping, dispatched, sPort, returned, stored>>

GoStep(c) == EnterChannel(c) \/ LookForChannel(c) \/ Return(c)
               \/ \E k \in Calls : Wake(k, c)
ThreadStep(c) == Dispatch(c) \/ FutureReady(c) \/ ReplyToGo(c)
NodeStep == ScriptEnds \/ FromGo
              \/ \E c \in Calls, how \in {"resolved", "rejected"} : Handled(c, how)

Next ==
  \/ \E c \in Calls : CallToNode(c) \/ GoStep(c) \/ ThreadStep(c) \/ SendToGo(c)
  \/ NodeStep

(* Goroutines and threads are scheduled, the event loop turns, and the     *)
(* kernel comes to the end of a delivery.  No call need ever be made.      *)
Fairness ==
  /\ \A c \in Calls : WF_vars(GoStep(c)) /\ WF_vars(ThreadStep(c))
  /\ WF_vars(NodeStep)

Spec == Init /\ [][Next]_vars /\ Fairness

-----------------------------------------------------------------------------
(* Properties. *)

WritesMap == {<<"go", c>> : c \in {d \in Calls : go[d] \in {"enters", "deletes"}}}
ReadsMap == {<<"go", c>> : c \in {d \in Calls : go[d] = "looks"}}
              \cup {<<"thread", c>> : c \in {d \in Calls : thread[d] = "looks"}}

(* Calls do not get in each other's way, in a process where nothing is     *)
(* locked: a call returns what was answered to it; the storage a message   *)
(* reads and writes is that of its own context, which is registered for as *)
(* long as JavaScript may use it; and no goroutine writes the map of       *)
(* replies while another or a thread is in it, which Go ends the process   *)
(* for.                                                                    *)
CallsKeptApart ==
  /\ \A c \in Calls : returned[c] \subseteq {<<c, settled[c]>>}
  /\ \A s \in stored : s[2] = {s[1]}
  /\ \A w \in WritesMap : WritesMap \cup ReadsMap = {w}

(* Every call of the application returns, whether the handler succeeds or  *)
(* fails and even if it is made before the event loop turns; otherwise the *)
(* node stops making blocks, since it waits with the mutex held.           *)
EveryCallReturns == \A c \in Calls : go[c] = "enters" ~> go[c] = "done"
=============================================================================
