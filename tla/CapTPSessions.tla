---------------------------- MODULE CapTPSessions ----------------------------
(***************************************************************************)
(* Point-to-point connections of a solo's web server: lib/ag-solo/web.js   *)
(* numbers the WebSockets of /captp and keeps them in points; the vat      *)
(* (vats/vat-http.js) keeps a CapTP session per number in conns.  A        *)
(* connection reaches the vat through a queue of commands, an object of a  *)
(* session reaches the browser by its number alone.  After a restart the   *)
(* numbers start again, while the vat has the sessions of its saved state. *)
(***************************************************************************)
EXTENDS Integers, Sequences, FiniteSets, Functions

CONSTANTS
  MaxSockets,   \* bound on connections
  MaxCalls,     \* bound on messages of clients
  MaxCrashes    \* bound on crashes of the solo

VARIABLES
  lastConnectionID,
  points,      \* web.js: number -> socket
  inbox,       \* commands on their way to the vat: [type, id, from]
  conns,       \* vat-http: number -> the socket its session was opened for
  pending,     \* objects sessions have yet to send: [id, session]
  saved,       \* conns and pending in the state file
  received,    \* <<socket, session>>: who was sent an object of which session
  served,      \* <<socket, session>>: whose message reached which session
  sockets, calls, crashes

vars == <<lastConnectionID, points, inbox, conns, pending, saved, received, served,
          sockets, calls, crashes>>
kernel == <<conns, pending>>

Command(type, id, s) == [type |-> type, id |-> id, from |-> s]
NoConns == <<>>
Without(f, k) == [x \in DOMAIN f \ {k} |-> f[x]]
With(f, k, v) == [x \in DOMAIN f \cup {k} |-> IF x = k THEN v ELSE f[x]]

Init ==
  /\ lastConnectionID = 0 /\ points = NoConns /\ inbox = <<>>
  /\ conns = NoConns /\ pending = {} /\ saved = <<NoConns, {}>>
  /\ received = {} /\ served = {}
  /\ sockets = 0 /\ calls = 0 /\ crashes = 0

-----------------------------------------------------------------------------
(* web.js. *)

\* Mutant: the lowest number that is free.
LowestFree == CHOOSE i \in 1 .. sockets + 1 :
                i \notin DOMAIN points /\ \A j \in 1 .. i - 1 : j \in DOMAIN points

NewID == lastConnectionID + 1

NewConnection ==
  /\ sockets < MaxSockets
  /\ sockets' = sockets + 1
  /\ lastConnectionID' = NewID
  /\ points' = With(points, NewID, sockets + 1)
  /\ inbox' = Append(inbox, Command("CTP_OPEN", NewID, sockets + 1))
  /\ UNCHANGED <<kernel, saved, received, served, calls, crashes>>

Close(id) ==
  /\ id \in DOMAIN points
  /\ inbox' = Append(inbox, Command("CTP_CLOSE", id, points[id]))
  /\ points' = Without(points, id)
  /\ UNCHANGED <<lastConnectionID, kernel, saved, received, served, sockets, calls, crashes>>

Message(id) ==
  /\ id \in DOMAIN points /\ calls < MaxCalls
  /\ calls' = calls + 1
  /\ inbox' = Append(inbox, Command("CTP_CALL", id, points[id]))
  /\ UNCHANGED <<lastConnectionID, points, kernel, saved, received, served, sockets, crashes>>

-----------------------------------------------------------------------------
(* The vat: one command of the queue, or an object of a session.           *)

CTP_OPEN(m) ==
  /\ m.type = "CTP_OPEN"
  /\ conns' = With(conns, m.id, m.from)
  /\ UNCHANGED <<pending, served>>

CTP_CLOSE(m) ==
  /\ m.type = "CTP_CLOSE"
  /\ conns' = Without(conns, m.id)
  /\ UNCHANGED <<pending, served>>

(* forward: without a session the handler throws, and the client is sent a *)
(* CTP_ERROR.  A session may answer now, later or never.                   *)
Forward(m) ==
  /\ m.type = "CTP_CALL"
  /\ IF m.id \in DOMAIN conns
     THEN /\ pending' = pending \cup {[id |-> m.id, session |-> conns[m.id]]}
          /\ served' = served \cup {<<m.from, conns[m.id]>>}
     ELSE UNCHANGED <<pending, served>>
  /\ UNCHANGED conns

Inbound ==
  /\ inbox # <<>>
  /\ CTP_OPEN(Head(inbox)) \/ CTP_CLOSE(Head(inbox)) \/ Forward(Head(inbox))
  /\ inbox' = Tail(inbox)
  /\ UNCHANGED <<lastConnectionID, points, saved, received, sockets, calls, crashes>>

(* sendObj, then sendJSON: the number finds the socket, if there is one.   *)
SendObj(x) ==
  /\ x \in pending
  /\ pending' = pending \ {x}
  /\ received' = IF x.id \in DOMAIN points
                 THEN received \cup {<<points[x.id], x.session>>} ELSE received
  /\ UNCHANGED <<lastConnectionID, points, inbox, conns, saved, served, sockets, calls, crashes>>

SaveState ==
  /\ saved' = kernel
  /\ UNCHANGED <<lastConnectionID, points, inbox, kernel, received, served,
                 sockets, calls, crashes>>

Crash ==
  /\ crashes < MaxCrashes
  /\ crashes' = crashes + 1
  /\ lastConnectionID' = 0 /\ points' = NoConns /\ inbox' = <<>>
  /\ conns' = saved[1] /\ pending' = saved[2]
  /\ UNCHANGED <<saved, received, served, sockets, calls>>

Next ==
  \/ NewConnection
  \/ \E id \in DOMAIN points : Close(id) \/ Message(id)
  \/ Inbound
  \/ \E x \in pending : SendObj(x)
  \/ SaveState
  \/ Crash

Spec == Init /\ [][Next]_vars

-----------------------------------------------------------------------------
(* Properties. *)

(* web.js, "This is a point-to-point connection, not broadcast": an object *)
(* of a session goes to the socket the session was opened for and to no    *)
(* other, also when sockets close and open while it is on its way.         *)
PointToPoint == \A r \in received : r[1] = r[2]

(* The same while the process lives: the numbers of one process are never  *)
(* used again.  And what a client sends reaches its own session or none,   *)
(* even after a restart: its CTP_OPEN is in the queue before it (vat-http  *)
(* forward).                                                               *)
SessionsKeptApart ==
  /\ crashes = 0 => PointToPoint
  /\ \A r \in served : r[1] = r[2]
=============================================================================
