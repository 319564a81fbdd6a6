--------------------------------- MODULE Repl ---------------------------------
(***************************************************************************)
(* The REPL of a solo: browser tabs (lib/ag-solo/html/main.js) that post   *)
(* commands and hear of results on a WebSocket, the listener that relays   *)
(* them (web.js, start.js) and the history kept by the vat (vats/repl.js). *)
(*                                                                         *)
(* Requests are HTTP posts and may reach the server in any order; the      *)
(* broadcasts to one tab keep theirs.  A broadcast leaves while the kernel *)
(* runs, the answer to a request only when the state has been saved.       *)
(* Nothing keeps two requests apart: each has its own run of the kernel    *)
(* and its own snapshot of the state, and the snapshots become the state   *)
(* file in any order (start.js l.122).  Saves that fail are in SoloNode.   *)
(***************************************************************************)
EXTENDS Integers, Sequences, SequencesExt, FiniteSets, Functions

CONSTANTS
  Tabs,
  MaxCommands,   \* bound on commands entered
  MaxServed,     \* bound on requests served together
  MaxCloses,     \* bound on connections lost
  MaxCrashes     \* bound on crashes of the solo

VARIABLES
  history,   \* the vat: histnum -> [cmd, shown]
  saved,     \* the history in the state file
  calls,     \* requests on their way: [tab, type, number, cmd]
  running,   \* requests the kernel has served, in the run that served them
  saves,     \* those past their run: [call, snap], snap being what is saved
  answered,  \* evaluations the browser was told are done: <<histnum, cmd>>
  dropped,   \* history: those an older snapshot took out of the state file
  tab,       \* state of the page: "closed", "asking", "ready"
  next,      \* nextHistNum of the page
  rows,      \* the rows it shows: histnum -> [cmd, shown]
  socket,    \* updates broadcast to the tab and not yet handled
  commands, closes, crashes

vars == <<history, saved, calls, running, saves, answered, dropped, tab, next, rows,
          socket, commands, closes, crashes>>

Call(t, type, n, c) == [tab |-> t, type |-> type, number |-> n, cmd |-> c]
Line(c, s) == [cmd |-> c, shown |-> s]
NoLine == Line(0, "undefined")   \* of a number no command was evaluated for
NoRows == <<>>

SetLine(h, n, line) == [k \in DOMAIN h \cup {n} |-> IF k = n THEN line ELSE h[k]]
LineOf(n) == IF n \in DOMAIN history THEN history[n] ELSE NoLine
HighestHistory == IF history = <<>> THEN -1 ELSE CHOOSE n \in DOMAIN history :
                                                   \A k \in DOMAIN history : k <= n
Larger(a, b) == IF a > b THEN a ELSE b

Init ==
  /\ history = NoRows /\ saved = NoRows
  /\ calls = {} /\ running = {} /\ saves = {} /\ answered = {} /\ dropped = {}
  /\ tab = [t \in Tabs |-> "closed"] /\ next = [t \in Tabs |-> 0]
  /\ rows = [t \in Tabs |-> NoRows] /\ socket = [t \in Tabs |-> <<>>]
  /\ commands = 0 /\ closes = 0 /\ crashes = 0

-----------------------------------------------------------------------------
(* The page. *)

(* run() and the open event: the rows of the previous connection go away,  *)
(* and the page asks how far the history goes.                             *)
Open(t) ==
  /\ tab[t] = "closed"
  /\ tab' = [tab EXCEPT ![t] = "asking"]
  /\ next' = [next EXCEPT ![t] = 0]
  /\ rows' = [rows EXCEPT ![t] = NoRows]
  /\ calls' = calls \cup {Call(t, "getHighestHistory", 0, 0)}
  /\ UNCHANGED <<history, saved, running, saves, answered, dropped, socket, commands,
                 closes, crashes>>

(* submitEval takes the next number at once, whether or not the page knows *)
(* yet how far the history goes.                                           *)
SubmitEval(t) ==
  /\ tab[t] # "closed" /\ commands < MaxCommands
  /\ commands' = commands + 1
  /\ next' = [next EXCEPT ![t] = @ + 1]
  /\ rows' = [rows EXCEPT ![t] = SetLine(@, next[t], Line(commands + 1, "sending for eval"))]
  /\ calls' = calls \cup {Call(t, "doEval", next[t], commands + 1)}
  /\ UNCHANGED <<history, saved, running, saves, answered, dropped, tab, socket,
                 closes, crashes>>

(* updateHistory, for the first update in the socket. *)
HandleMessage(t) ==
  /\ socket[t] # <<>>
  /\ LET m == Head(socket[t])
     IN /\ rows' = [rows EXCEPT ![t] = SetLine(@, m.number, m.line)]
        /\ next' = [next EXCEPT ![t] = Larger(@, m.number + 1)]
  /\ socket' = [socket EXCEPT ![t] = Tail(@)]
  /\ UNCHANGED <<history, saved, calls, running, saves, answered, dropped, tab, commands,
                 closes, crashes>>

(* The connection of a tab is lost.  Its posts still arrive, but what they *)
(* answer is for a run() that is over.                                     *)
Orphan(c, t) == IF c.tab = t THEN [c EXCEPT !.tab = "gone"] ELSE c

Close(t) ==
  /\ tab[t] # "closed" /\ closes < MaxCloses
  /\ closes' = closes + 1
  /\ tab' = [tab EXCEPT ![t] = "closed"]
  /\ socket' = [socket EXCEPT ![t] = <<>>]
  /\ calls' = {Orphan(c, t) : c \in calls}
  /\ running' = {Orphan(c, t) : c \in running}
  /\ saves' = {[s EXCEPT !.call = Orphan(@, t)] : s \in saves}
  /\ UNCHANGED <<history, saved, answered, dropped, next, rows, commands, crashes>>

-----------------------------------------------------------------------------
(* The listener and the vat. *)

Update(n, line) == [number |-> n, line |-> line]

(* sendJSON: send drops what is for a socket that is not open. *)
Broadcast(updates) ==
  socket' = [t \in Tabs |-> IF tab[t] = "closed" THEN socket[t]
                                                 ELSE socket[t] \o updates]

(* inboundCommand: the kernel runs with the request in its queue; others   *)
(* may be in their run or being saved.                                     *)
Run(call) ==
  /\ Cardinality(running) + Cardinality(saves) < MaxServed
  /\ running' = running \cup {call}
  /\ UNCHANGED <<saved, saves, answered, dropped, tab, next, rows, commands, closes, crashes>>

(* What is answered is known when the kernel has served the request.       *)
Serve(call, outcome) == call \in calls /\ calls' = calls \ {call} /\ Run(outcome)

(* The body may return a promise: then the row says so until it resolves.  *)
DoEval(call) ==
  /\ call.type = "doEval"
  /\ call.number > HighestHistory
  /\ Serve(call, call)
  /\ \E shown \in {"done", "unresolved Promise"} :
       /\ history' = SetLine(history, call.number, Line(call.cmd, shown))
       /\ Broadcast(<<Update(call.number, Line(call.cmd, "working on eval")),
                      Update(call.number, Line(call.cmd, shown))>>)

(* The number is not larger than the highest: the handler throws, and the  *)
(* row of the command stays as it is.                                      *)
DoEvalThrows(call) ==
  /\ call.type = "doEval"
  /\ call.number <= HighestHistory
  /\ Serve(call, [call EXCEPT !.type = "refused"])
  /\ UNCHANGED <<history, socket>>

GetHighestHistory(call) ==
  /\ call.type = "getHighestHistory"
  /\ Serve(call, [call EXCEPT !.number = HighestHistory + 1])
  /\ UNCHANGED <<history, socket>>

\* Mutant: the last slot is left out.
SlotsButLast == [i \in 1 .. HighestHistory |-> Update(i - 1, LineOf(i - 1))]

Slots == [i \in 1 .. HighestHistory + 1 |-> Update(i - 1, LineOf(i - 1))]

RebroadcastHistory(call) ==
  /\ call.type = "rebroadcastHistory"
  /\ Serve(call, call)
  /\ Broadcast(Slots)
  /\ UNCHANGED history

(* A delivery from the chain resolves the promise of an evaluation. *)
ResolvePromise(n) ==
  /\ n \in DOMAIN history /\ history[n].shown = "unresolved Promise"
  /\ LET line == Line(history[n].cmd, "done")
     IN /\ history' = SetLine(history, n, line)
        /\ Broadcast(<<Update(n, line)>>)
  /\ Run(Call("none", "inbound", n, 0))
  /\ UNCHANGED calls

(* controller.run() is over: saveState takes its snapshot at once.         *)
TakeSnapshot(c) ==
  /\ running' = running \ {c}
  /\ saves' = saves \cup {[call |-> c, snap |-> history]}
  /\ UNCHANGED <<history, saved, calls, answered, dropped, tab, next, rows, socket,
                 commands, closes, crashes>>

\* Mutant: an evaluation is answered without waiting for processKernel.
SaveLater(s) == saved' = IF s.call.type = "doEval" THEN saved ELSE s.snap

(* The snapshot becomes the state file. *)
SaveState(s) == saved' = s.snap

Has(h, a) == a[1] \in DOMAIN h /\ h[a[1]].cmd = a[2]

(* processKernel has saved the state, and the request gets its answer.     *)
ReturnCommand(s) ==
  /\ SaveState(s)
  /\ saves' = saves \ {s}
  /\ answered' = IF s.call.type = "doEval" THEN answered \cup {<<s.call.number, s.call.cmd>>}
                                           ELSE answered
  /\ dropped' = {a \in dropped : ~Has(s.snap, a)}
                   \cup {a \in answered : Has(saved, a) /\ ~Has(s.snap, a)}
  /\ calls' = IF s.call.type = "getHighestHistory"
              THEN calls \cup {Call(s.call.tab, "rebroadcastHistory", 0, 0)} ELSE calls
  /\ IF s.call.type = "getHighestHistory" /\ s.call.tab \in Tabs
     THEN /\ next' = [next EXCEPT ![s.call.tab] = Larger(@, s.call.number)]
          /\ tab' = [tab EXCEPT ![s.call.tab] = "ready"]
     ELSE UNCHANGED <<next, tab>>
  /\ UNCHANGED <<history, running, rows, socket, commands, closes, crashes>>

(* The solo dies and starts again from its state file; every connection    *)
(* and every request on its way is gone.                                   *)
Crash ==
  /\ crashes < MaxCrashes
  /\ crashes' = crashes + 1
  /\ history' = saved
  /\ calls' = {} /\ running' = {} /\ saves' = {}
  /\ tab' = [t \in Tabs |-> "closed"] /\ socket' = [t \in Tabs |-> <<>>]
  /\ UNCHANGED <<saved, answered, dropped, next, rows, commands, closes>>

Next ==
  \/ \E t \in Tabs : Open(t) \/ SubmitEval(t) \/ HandleMessage(t) \/ Close(t)
  \/ \E c \in calls :
       \/ DoEval(c) \/ DoEvalThrows(c)
       \/ GetHighestHistory(c) \/ RebroadcastHistory(c)
  \/ \E n \in DOMAIN history : ResolvePromise(n)
  \/ \E c \in running : TakeSnapshot(c)
  \/ \E s \in saves : ReturnCommand(s)
  \/ Crash

Spec == Init /\ [][Next]_vars

-----------------------------------------------------------------------------
(* Properties. *)

(* An evaluation whose request was answered keeps its number and its       *)
(* command, over crashes and whatever other tabs and late requests try:    *)
(* deliverInboundCommand answers after processKernel, doEval refuses used  *)
(* numbers.  Except that of two saves under way together the older         *)
(* snapshot may become the state file last, and what it lacks is lost with *)
(* a crash unless a later save brings it back: the calls of processKernel  *)
(* are not kept apart, as the comment at start.js l.122 asks for.          *)
AnsweredStays == \A a \in answered : Has(history, a) \/ a \in dropped

(* When nothing is on its way, a connected page shows every evaluation as  *)
(* the vat has it, also those of other tabs, those that ended while it was *)
(* connecting and those whose number it had claimed for itself.  It says   *)
(* nothing of a number without an evaluation: where the vat refused a      *)
(* command because a higher number came first, the row stays as it was.    *)
TabsAgree ==
  calls = {} /\ running = {} /\ saves = {} =>
    \A t \in Tabs : tab[t] = "ready" /\ socket[t] = <<>> =>
      \A n \in DOMAIN history : n \in DOMAIN rows[t] /\ rows[t][n] = history[n]
=============================================================================
