---------------------------- MODULE EdgesProofs ----------------------------
(***************************************************************************)
(* Theorems about the parts of a solo that MCEdges shows one at a time:    *)
(* the sessions of its CapTP port (CapTPSessions), the provisioning of its *)
(* key (Onboarding), the history of its REPL (Repl), the canvas that its   *)
(* pages show (Canvas), the accounts of its pledger (Pledger) and the      *)
(* directory that it starts from (BaseDir), for any number of sockets,     *)
(* keys, tabs, commands, canvases, deposits, chains, faults and crashes.   *)
(***************************************************************************)
EXTENDS MCEdges, SequenceTheorems, FiniteSetTheorems, WellFoundedInduction, TLAPS

mcVars == <<edge, edgesVars>>

\* A step of the whole is a step of each part or leaves it alone.
LEMMA EachPart ==
    ASSUME [MCNext]_mcVars
    PROVE  /\ [Next]_vars /\ [CapTP!Next]_captpVars /\ [Pserver!Next]_pserverVars
           /\ [Gallery!Next]_canvasVars /\ [Purses!Next]_purseVars /\ [Dir!Next]_dirVars
BY DEF MCNext, mcVars, edgesVars

-----------------------------------------------------------------------------
(* CapTPSessions. *)

Commands == [type : {"CTP_OPEN", "CTP_CALL", "CTP_CLOSE"}, id : Nat, from : Nat]

\* No command before or at place i opens the connection of the command there.
NotOpening(i) ==
    \A j \in 1..i : inbox[j].id = inbox[i].id => inbox[j].type # "CTP_OPEN"

\* The numbers of one process are each one socket's.
NumbersInv ==
    /\ lastConnectionID \in Nat /\ sockets \in Nat
    /\ inbox \in Seq(Commands)
    /\ points \in [DOMAIN points -> Nat]
    /\ \A n \in DOMAIN points : n \in 1..lastConnectionID
    /\ \A i \in DOMAIN inbox : inbox[i].id \in 1..lastConnectionID
    /\ \A i, j \in DOMAIN inbox : inbox[i].id = inbox[j].id => inbox[i].from = inbox[j].from
    /\ \A i \in DOMAIN inbox : inbox[i].id \in DOMAIN points => inbox[i].from = points[inbox[i].id]

\* A session is the one its clients mean, once its CTP_OPEN was taken from the
\* queue; before that, the CTP_OPEN comes before all else of its connection.
QueueInv ==
    /\ \A i, j \in DOMAIN inbox :
         inbox[i].type = "CTP_OPEN" /\ j < i => inbox[j].id # inbox[i].id
    /\ \A i \in DOMAIN inbox :
         NotOpening(i) /\ inbox[i].id \in DOMAIN conns => conns[inbox[i].id] = inbox[i].from
    /\ \A n \in DOMAIN points :
         n \in DOMAIN conns
            /\ (\A i \in DOMAIN inbox : inbox[i].id = n => inbox[i].type # "CTP_OPEN")
         => conns[n] = points[n]

\* Until a crash, what a session has yet to send has a number of its own.
PendingInv ==
    ctpCrashes = 0 =>
        \A x \in pending :
            /\ x.id \in 1..lastConnectionID
            /\ x.id \in DOMAIN points => points[x.id] = x.session

CapTPInv ==
    /\ NumbersInv /\ QueueInv /\ PendingInv
    /\ ctpCrashes \in Nat
    /\ CapTP!SessionsKeptApart

\* What Append and Tail do, place by place.
LEMMA AppendPlaces ==
    ASSUME NEW S, NEW q \in Seq(S), NEW e \in S
    PROVE  /\ Append(q, e) \in Seq(S)
           /\ DOMAIN q = 1..Len(q)
           /\ DOMAIN Append(q, e) = 1..(Len(q) + 1)
           /\ Len(Append(q, e)) = Len(q) + 1
           /\ Len(q) \in Nat
           /\ Append(q, e)[Len(q) + 1] = e
           /\ \A i \in 1..Len(q) : Append(q, e)[i] = q[i]
OBVIOUS

\* What Head and Tail give of a sequence that is not empty.
LEMMA TailPlaces ==
    ASSUME NEW S, NEW q \in Seq(S), q # <<>>
    PROVE  /\ Head(q) = q[1] /\ 1 \in DOMAIN q
           /\ Tail(q) \in Seq(S)
           /\ DOMAIN q = 1..Len(q)
           /\ Len(q) \in Nat
           /\ \A i \in DOMAIN Tail(q) : i + 1 \in DOMAIN q /\ Tail(q)[i] = q[i + 1]
           /\ DOMAIN Tail(q) = 1..(Len(q) - 1)
OBVIOUS

\* An update of a function at one place.
LEMMA WithPlaces ==
    ASSUME NEW f, NEW d, NEW e
    PROVE  /\ DOMAIN CapTP!With(f, d, e) = {d} \cup DOMAIN f
           /\ CapTP!With(f, d, e)[d] = e
           /\ \A x \in DOMAIN f \ {d} : CapTP!With(f, d, e)[x] = f[x]
BY DEF CapTP!With

\* A function without one place.
LEMMA WithoutPlaces ==
    ASSUME NEW f, NEW d
    PROVE  /\ DOMAIN CapTP!Without(f, d) = DOMAIN f \ {d}
           /\ \A x \in DOMAIN f \ {d} : CapTP!Without(f, d)[x] = f[x]
BY DEF CapTP!Without

\* A command of the web listener has the type, number and socket it is given.
LEMMA CommandTyped ==
    ASSUME NEW t \in {"CTP_OPEN", "CTP_CALL", "CTP_CLOSE"}, NEW n \in Nat, NEW s \in Nat
    PROVE  /\ CapTP!Command(t, n, s) \in Commands
           /\ CapTP!Command(t, n, s).type = t
           /\ CapTP!Command(t, n, s).id = n
           /\ CapTP!Command(t, n, s).from = s
BY DEF CapTP!Command, Commands

\* A connection gets a number that no command, session or socket has yet.
LEMMA NewConnectionKeeps ==
    ASSUME CapTPInv, CapTP!NewConnection
    PROVE  CapTPInv'
<1> DEFINE n == lastConnectionID + 1
           s == sockets + 1
           c == CapTP!Command("CTP_OPEN", n, s)
<1>0. /\ lastConnectionID' = n /\ sockets' = s
      /\ points' = CapTP!With(points, n, s)
      /\ inbox' = Append(inbox, c)
      /\ UNCHANGED <<conns, pending, received, served, ctpCrashes>>
  BY DEF CapTP!NewConnection, CapTP!NewID, CapTP!kernel
<1>t. lastConnectionID \in Nat /\ sockets \in Nat /\ inbox \in Seq(Commands)
      /\ n \in Nat /\ s \in Nat
  BY DEF CapTPInv, NumbersInv
<1>c. c \in Commands /\ c.type = "CTP_OPEN" /\ c.id = n /\ c.from = s
  BY <1>t, CommandTyped
<1> HIDE DEF c
<1>a. /\ inbox' \in Seq(Commands)
      /\ DOMAIN inbox = 1..Len(inbox) /\ DOMAIN inbox' = 1..(Len(inbox) + 1)
      /\ Len(inbox) \in Nat
      /\ inbox'[Len(inbox) + 1] = c
      /\ \A i \in 1..Len(inbox) : inbox'[i] = inbox[i]
  BY <1>0, <1>t, <1>c, AppendPlaces
<1>p. /\ DOMAIN points' = {n} \cup DOMAIN points
      /\ points'[n] = s
      /\ \A x \in DOMAIN points \ {n} : points'[x] = points[x]
  BY <1>0 DEF CapTP!With
<1>n. /\ n \notin DOMAIN points
      /\ \A i \in DOMAIN inbox : inbox[i].id # n
  BY <1>t DEF CapTPInv, NumbersInv
<1>1. NumbersInv'
  <2>1. lastConnectionID' \in Nat /\ sockets' \in Nat /\ inbox' \in Seq(Commands)
    BY <1>0, <1>t, <1>a
  <2>2. points' \in [DOMAIN points' -> Nat]
    <3>1. points \in [DOMAIN points -> Nat]  BY DEF CapTPInv, NumbersInv
    <3>2. \A x \in DOMAIN points' : points'[x] \in Nat  BY <1>p, <1>t, <3>1
    <3> QED  BY <1>0, <3>2 DEF CapTP!With
  <2>3. \A x \in DOMAIN points' : x \in 1..lastConnectionID'
    BY <1>0, <1>t, <1>p DEF CapTPInv, NumbersInv
  <2>4. \A i \in DOMAIN inbox' : inbox'[i].id \in 1..lastConnectionID'
    BY <1>0, <1>t, <1>a, <1>c DEF CapTPInv, NumbersInv
  <2>5. \A i, j \in DOMAIN inbox' : inbox'[i].id = inbox'[j].id
                                    => inbox'[i].from = inbox'[j].from
    BY <1>t, <1>a, <1>c, <1>n, SMTT(30) DEF CapTPInv, NumbersInv
  <2>6. \A i \in DOMAIN inbox' : inbox'[i].id \in DOMAIN points'
                                    => inbox'[i].from = points'[inbox'[i].id]
    BY <1>t, <1>a, <1>c, <1>n, <1>p DEF CapTPInv, NumbersInv
  <2> QED  BY <2>1, <2>2, <2>3, <2>4, <2>5, <2>6 DEF NumbersInv
<1>2. QueueInv'
  <2>1. \A i, j \in DOMAIN inbox' :
          inbox'[i].type = "CTP_OPEN" /\ j < i => inbox'[j].id # inbox'[i].id
    BY <1>t, <1>a, <1>c, <1>n DEF CapTPInv, QueueInv
  <2>2. ASSUME NEW i \in DOMAIN inbox', NotOpening(i)', inbox'[i].id \in DOMAIN conns'
        PROVE  conns'[inbox'[i].id] = inbox'[i].from
    <3>1. i # Len(inbox) + 1  BY <2>2, <1>a, <1>c DEF NotOpening
    <3>2. i \in DOMAIN inbox /\ NotOpening(i)  BY <2>2, <3>1, <1>a DEF NotOpening
    <3> QED  BY <2>2, <3>2, <1>0, <1>a DEF CapTPInv, QueueInv
  <2>3. ASSUME NEW x \in DOMAIN points', x \in DOMAIN conns',
               \A i \in DOMAIN inbox' : inbox'[i].id = x => inbox'[i].type # "CTP_OPEN"
        PROVE  conns'[x] = points'[x]
    <3>1. x # n  BY <2>3, <1>a, <1>c
    <3>2. x \in DOMAIN points /\ points'[x] = points[x]  BY <3>1, <1>p
    <3>3. \A i \in DOMAIN inbox : inbox[i].id = x => inbox[i].type # "CTP_OPEN"
      BY <2>3, <1>a
    <3> QED  BY <2>3, <3>2, <3>3, <1>0 DEF CapTPInv, QueueInv
  <2> QED  BY <2>1, <2>2, <2>3 DEF QueueInv
<1>3. PendingInv'
  BY <1>0, <1>t, <1>p DEF CapTPInv, PendingInv
<1> QED
  BY <1>0, <1>1, <1>2, <1>3 DEF CapTPInv, CapTP!SessionsKeptApart, CapTP!PointToPoint

\* Inbox and points of a process whose sockets only add to its queue, without
\* opening a connection: what is said of the commands in it stays so.
LEMMA QueueGrows ==
    ASSUME CapTPInv, NEW c \in Commands, c.type # "CTP_OPEN",
           c.id \in DOMAIN points, c.from = points[c.id],
           inbox' = Append(inbox, c),
           points' = points \/ points' = CapTP!Without(points, c.id),
           UNCHANGED <<lastConnectionID, sockets, conns, pending, received, served, ctpCrashes>>
    PROVE  CapTPInv'
<1>t. lastConnectionID \in Nat /\ sockets \in Nat /\ inbox \in Seq(Commands)
      /\ points \in [DOMAIN points -> Nat]
  BY DEF CapTPInv, NumbersInv
<1>a. /\ inbox' \in Seq(Commands)
      /\ DOMAIN inbox = 1..Len(inbox) /\ DOMAIN inbox' = 1..(Len(inbox) + 1)
      /\ Len(inbox) \in Nat
      /\ inbox'[Len(inbox) + 1] = c
      /\ \A i \in 1..Len(inbox) : inbox'[i] = inbox[i]
  BY <1>t, AppendPlaces
<1>p. /\ DOMAIN points' \subseteq DOMAIN points
      /\ \A x \in DOMAIN points' : points'[x] = points[x]
      /\ points' \in [DOMAIN points' -> Nat]
  <2>1. CASE points' = points  BY <2>1, <1>t
  <2>2. CASE points' = CapTP!Without(points, c.id)
    BY <2>2, <1>t DEF CapTP!Without
  <2> QED  BY <2>1, <2>2
<1>1. NumbersInv'
  <2>1. lastConnectionID' \in Nat /\ sockets' \in Nat /\ inbox' \in Seq(Commands)
    BY <1>t, <1>a
  <2>3. \A x \in DOMAIN points' : x \in 1..lastConnectionID'
    BY <1>p DEF CapTPInv, NumbersInv
  <2>4. \A i \in DOMAIN inbox' : inbox'[i].id \in 1..lastConnectionID'
    BY <1>a DEF CapTPInv, NumbersInv
  <2>5. \A i, j \in DOMAIN inbox' : inbox'[i].id = inbox'[j].id
                                    => inbox'[i].from = inbox'[j].from
    <3>1. \A i \in DOMAIN inbox : inbox[i].id = c.id => inbox[i].from = c.from
      BY DEF CapTPInv, NumbersInv
    <3> QED  BY <1>a, <3>1 DEF CapTPInv, NumbersInv
  <2>6. \A i \in DOMAIN inbox' : inbox'[i].id \in DOMAIN points'
                                    => inbox'[i].from = points'[inbox'[i].id]
    BY <1>a, <1>p DEF CapTPInv, NumbersInv
  <2> QED  BY <2>1, <1>p, <2>3, <2>4, <2>5, <2>6 DEF NumbersInv
<1>2. QueueInv'
  <2>1. ASSUME NEW i \in DOMAIN inbox', NEW j \in DOMAIN inbox',
               inbox'[i].type = "CTP_OPEN", j < i
        PROVE  inbox'[j].id # inbox'[i].id
    <3>1. i \in DOMAIN inbox  BY <2>1, <1>a
    <3>2. j \in DOMAIN inbox  BY <2>1, <3>1, <1>a
    <3> QED  BY <2>1, <3>1, <3>2, <1>a DEF CapTPInv, QueueInv
  <2>2. ASSUME NEW i \in DOMAIN inbox', NotOpening(i)', inbox'[i].id \in DOMAIN conns'
        PROVE  conns'[inbox'[i].id] = inbox'[i].from
    <3>1. CASE i \in DOMAIN inbox
      <4>1. NotOpening(i)  BY <2>2, <3>1, <1>a DEF NotOpening
      <4> QED  BY <2>2, <3>1, <4>1, <1>a DEF CapTPInv, QueueInv
    <3>2. CASE i = Len(inbox) + 1
      <4>1. inbox'[i] = c  BY <3>2, <1>a
      <4>2. \A j \in DOMAIN inbox : inbox[j].id = c.id => inbox[j].type # "CTP_OPEN"
        BY <2>2, <3>2, <4>1, <1>a DEF NotOpening
      <4>3. c.id \in DOMAIN conns  BY <2>2, <4>1
      <4>4. conns[c.id] = points[c.id]  BY <4>2, <4>3 DEF CapTPInv, QueueInv
      <4> QED  BY <4>1, <4>4
    <3> QED  BY <3>1, <3>2, <1>a
  <2>3. ASSUME NEW x \in DOMAIN points', x \in DOMAIN conns',
               \A i \in DOMAIN inbox' : inbox'[i].id = x => inbox'[i].type # "CTP_OPEN"
        PROVE  conns'[x] = points'[x]
    <3>1. \A i \in DOMAIN inbox : inbox[i].id = x => inbox[i].type # "CTP_OPEN"
      BY <2>3, <1>a
    <3> QED  BY <2>3, <3>1, <1>p DEF CapTPInv, QueueInv
  <2> QED  BY <2>1, <2>2, <2>3 DEF QueueInv
<1>3. PendingInv'
  BY <1>p DEF CapTPInv, PendingInv
<1> QED
  BY <1>1, <1>2, <1>3 DEF CapTPInv, CapTP!SessionsKeptApart, CapTP!PointToPoint

\* The vat takes a command: what it makes of the sessions is what the command
\* was sent for.
LEMMA InboundKeeps ==
    ASSUME CapTPInv, CapTP!Inbound
    PROVE  CapTPInv'
<1> DEFINE m == Head(inbox)
<1>0. /\ inbox # <<>> /\ inbox' = Tail(inbox)
      /\ CapTP!CTP_OPEN(m) \/ CapTP!CTP_CLOSE(m) \/ CapTP!Forward(m)
      /\ UNCHANGED <<lastConnectionID, points, received, sockets, ctpCrashes>>
  BY DEF CapTP!Inbound
<1>t. lastConnectionID \in Nat /\ sockets \in Nat /\ inbox \in Seq(Commands)
  BY DEF CapTPInv, NumbersInv
<1>a. /\ m = inbox[1] /\ 1 \in DOMAIN inbox
      /\ inbox' \in Seq(Commands)
      /\ DOMAIN inbox = 1..Len(inbox) /\ Len(inbox) \in Nat
      /\ \A i \in DOMAIN inbox' : i + 1 \in DOMAIN inbox /\ inbox'[i] = inbox[i + 1]
      /\ DOMAIN inbox' = 1..(Len(inbox) - 1)
  BY <1>0, <1>t, TailPlaces
<1> HIDE DEF m
<1>1. NumbersInv'
  <2>1. \A i, j \in DOMAIN inbox' : inbox'[i].id = inbox'[j].id
                                    => inbox'[i].from = inbox'[j].from
    BY <1>a DEF CapTPInv, NumbersInv
  <2>2. \A i \in DOMAIN inbox' : /\ inbox'[i].id \in 1..lastConnectionID'
                                 /\ inbox'[i].id \in DOMAIN points'
                                    => inbox'[i].from = points'[inbox'[i].id]
    BY <1>0, <1>a DEF CapTPInv, NumbersInv
  <2> QED  BY <1>0, <1>t, <1>a, <2>1, <2>2 DEF CapTPInv, NumbersInv
\* The commands that are left mean what they meant, but for the one taken.
<1>n. ASSUME NEW i \in DOMAIN inbox', NotOpening(i)'
      PROVE  \/ NotOpening(i + 1)
             \/ m.type = "CTP_OPEN" /\ m.id = inbox[i + 1].id
  <2> SUFFICES ASSUME NEW j \in 1..(i + 1), inbox[j].id = inbox[i + 1].id,
                      inbox[j].type = "CTP_OPEN"
               PROVE  m.type = "CTP_OPEN" /\ m.id = inbox[i + 1].id
    BY DEF NotOpening
  <2>1. i \in Nat /\ j \in Nat  BY <1>a
  <2>2. CASE j = 1  BY <2>2, <1>a
  <2>3. CASE j # 1
    <3>1. j - 1 \in 1..i  BY <2>1, <2>3
    <3>2. j - 1 \in DOMAIN inbox'  BY <3>1, <1>a, <2>1
    <3>3. inbox'[j - 1] = inbox[j] /\ inbox'[i] = inbox[i + 1]  BY <3>2, <1>a, <2>1, SMTT(30)
    <3> QED  BY <1>n, <3>1, <3>3 DEF NotOpening
  <2> QED  BY <2>2, <2>3
<1>s. \A i, j \in DOMAIN inbox' :
        inbox'[i].type = "CTP_OPEN" /\ j < i => inbox'[j].id # inbox'[i].id
  BY <1>a DEF CapTPInv, QueueInv
<1>l. ASSUME NEW x \in DOMAIN points,
             \A i \in DOMAIN inbox' : inbox'[i].id = x => inbox'[i].type # "CTP_OPEN",
             m.id # x \/ m.type # "CTP_OPEN"
      PROVE  \A i \in DOMAIN inbox : inbox[i].id = x => inbox[i].type # "CTP_OPEN"
  <2> TAKE i \in DOMAIN inbox
  <2>1. CASE i = 1  BY <2>1, <1>a, <1>l
  <2>2. CASE i # 1
    <3>1. i - 1 \in DOMAIN inbox'  BY <2>2, <1>a
    <3>2. inbox'[i - 1] = inbox[i]  BY <3>1, <1>a
    <3> QED  BY <3>1, <3>2, <1>l
  <2> QED  BY <2>1, <2>2
<1>i. m.id \in 1..lastConnectionID
      /\ (m.id \in DOMAIN points => m.from = points[m.id])
      /\ \A i \in DOMAIN inbox : inbox[i].id = m.id => inbox[i].from = m.from
  BY <1>a DEF CapTPInv, NumbersInv
<1>2. CASE CapTP!CTP_OPEN(m)
  <2>1. m.type = "CTP_OPEN" /\ conns' = CapTP!With(conns, m.id, m.from)
        /\ UNCHANGED <<pending, served>>
    BY <1>2 DEF CapTP!CTP_OPEN
  <2>2. /\ DOMAIN conns' = {m.id} \cup DOMAIN conns /\ conns'[m.id] = m.from
        /\ \A x \in DOMAIN conns \ {m.id} : conns'[x] = conns[x]
    BY <2>1 DEF CapTP!With
  <2>3. ASSUME NEW i \in DOMAIN inbox', NotOpening(i)', inbox'[i].id \in DOMAIN conns'
        PROVE  conns'[inbox'[i].id] = inbox'[i].from
    <3>0. i + 1 \in DOMAIN inbox /\ inbox'[i] = inbox[i + 1]  BY <1>a
    <3>1. CASE inbox'[i].id = m.id  BY <3>0, <3>1, <2>2, <1>i
    <3>2. CASE inbox'[i].id # m.id
      <4>1. NotOpening(i + 1)  BY <1>n, <2>3, <3>0, <3>2
      <4> QED  BY <4>1, <3>0, <3>2, <2>2, <2>3 DEF CapTPInv, QueueInv
    <3> QED  BY <3>1, <3>2
  <2>4. ASSUME NEW x \in DOMAIN points', x \in DOMAIN conns',
               \A i \in DOMAIN inbox' : inbox'[i].id = x => inbox'[i].type # "CTP_OPEN"
        PROVE  conns'[x] = points'[x]
    <3>1. CASE x = m.id  BY <3>1, <2>2, <1>i, <1>0
    <3>2. CASE x # m.id
      <4>1. \A i \in DOMAIN inbox : inbox[i].id = x => inbox[i].type # "CTP_OPEN"
        BY <1>l, <1>0, <2>4, <3>2
      <4> QED  BY <4>1, <2>2, <2>4, <3>2, <1>0 DEF CapTPInv, QueueInv
    <3> QED  BY <3>1, <3>2
  <2>5. QueueInv'  BY <1>s, <2>3, <2>4 DEF QueueInv
  <2>6. PendingInv'  BY <1>0, <2>1 DEF CapTPInv, PendingInv
  <2> QED
    BY <1>0, <1>1, <2>1, <2>5, <2>6 DEF CapTPInv, CapTP!SessionsKeptApart, CapTP!PointToPoint
<1>3. CASE CapTP!CTP_CLOSE(m)
  <2>1. m.type = "CTP_CLOSE" /\ conns' = CapTP!Without(conns, m.id)
        /\ UNCHANGED <<pending, served>>
    BY <1>3 DEF CapTP!CTP_CLOSE
  <2>2. /\ DOMAIN conns' = DOMAIN conns \ {m.id}
        /\ \A x \in DOMAIN conns \ {m.id} : conns'[x] = conns[x]
    BY <2>1 DEF CapTP!Without
  <2>3. ASSUME NEW i \in DOMAIN inbox', NotOpening(i)', inbox'[i].id \in DOMAIN conns'
        PROVE  conns'[inbox'[i].id] = inbox'[i].from
    <3>0. i + 1 \in DOMAIN inbox /\ inbox'[i] = inbox[i + 1]  BY <1>a
    <3>1. NotOpening(i + 1)  BY <1>n, <2>3, <2>1
    <3> QED  BY <3>1, <3>0, <2>2, <2>3 DEF CapTPInv, QueueInv
  <2>4. ASSUME NEW x \in DOMAIN points', x \in DOMAIN conns',
               \A i \in DOMAIN inbox' : inbox'[i].id = x => inbox'[i].type # "CTP_OPEN"
        PROVE  conns'[x] = points'[x]
    <3>1. \A i \in DOMAIN inbox : inbox[i].id = x => inbox[i].type # "CTP_OPEN"
      BY <1>l, <1>0, <2>4, <2>1
    <3> QED  BY <3>1, <2>2, <2>4, <1>0 DEF CapTPInv, QueueInv
  <2>5. QueueInv'  BY <1>s, <2>3, <2>4 DEF QueueInv
  <2>6. PendingInv'  BY <1>0, <2>1 DEF CapTPInv, PendingInv
  <2> QED
    BY <1>0, <1>1, <2>1, <2>5, <2>6 DEF CapTPInv, CapTP!SessionsKeptApart, CapTP!PointToPoint
<1>4. CASE CapTP!Forward(m)
  <2>1. m.type = "CTP_CALL" /\ conns' = conns
    BY <1>4 DEF CapTP!Forward
  <2>2. NotOpening(1)  BY <1>a, <2>1 DEF NotOpening
  <2>c. m.id \in DOMAIN conns => conns[m.id] = m.from
    BY <2>2, <1>a DEF CapTPInv, QueueInv
  <2>3. ASSUME NEW i \in DOMAIN inbox', NotOpening(i)', inbox'[i].id \in DOMAIN conns'
        PROVE  conns'[inbox'[i].id] = inbox'[i].from
    <3>0. i + 1 \in DOMAIN inbox /\ inbox'[i] = inbox[i + 1]  BY <1>a
    <3>1. NotOpening(i + 1)  BY <1>n, <2>3, <2>1
    <3> QED  BY <3>1, <3>0, <2>1, <2>3 DEF CapTPInv, QueueInv
  <2>4. ASSUME NEW x \in DOMAIN points', x \in DOMAIN conns',
               \A i \in DOMAIN inbox' : inbox'[i].id = x => inbox'[i].type # "CTP_OPEN"
        PROVE  conns'[x] = points'[x]
    <3>1. \A i \in DOMAIN inbox : inbox[i].id = x => inbox[i].type # "CTP_OPEN"
      BY <1>l, <1>0, <2>4, <2>1
    <3> QED  BY <3>1, <2>1, <2>4, <1>0 DEF CapTPInv, QueueInv
  <2>5. QueueInv'  BY <1>s, <2>3, <2>4 DEF QueueInv
  <2>6. /\ \A x \in pending' : x \in pending
                               \/ (x.id = m.id /\ x.session = m.from)
        /\ \A r \in served' : r \in served \/ r[1] = r[2]
    BY <1>4, <2>c DEF CapTP!Forward
  <2>7. PendingInv'  BY <1>0, <1>i, <2>6 DEF CapTPInv, PendingInv
  <2> QED
    BY <1>0, <1>1, <2>5, <2>6, <2>7 DEF CapTPInv, CapTP!SessionsKeptApart, CapTP!PointToPoint
<1> QED  BY <1>0, <1>2, <1>3, <1>4

\* A step of the sessions keeps all that is said of them.
LEMMA CapTPStep ==
    ASSUME CapTPInv, [CapTP!Next]_captpVars
    PROVE  CapTPInv'
<1>1. CASE CapTP!NewConnection  BY <1>1, NewConnectionKeeps
<1>2. ASSUME NEW id \in DOMAIN points, CapTP!Close(id) \/ CapTP!Message(id)
      PROVE  CapTPInv'
  <2>0. id \in Nat /\ points[id] \in Nat
    BY DEF CapTPInv, NumbersInv
  <2>1. CASE CapTP!Close(id)
    <3> DEFINE c == CapTP!Command("CTP_CLOSE", id, points[id])
    <3>1. c \in Commands /\ c.type = "CTP_CLOSE" /\ c.id = id /\ c.from = points[id]
      BY <2>0, CommandTyped
    <3>2. /\ inbox' = Append(inbox, c) /\ points' = CapTP!Without(points, id)
          /\ UNCHANGED <<lastConnectionID, sockets, conns, pending, received, served, ctpCrashes>>
      BY <2>1 DEF CapTP!Close, CapTP!kernel
    <3> HIDE DEF c
    <3>3. c.type # "CTP_OPEN"  BY <3>1
    <3> QED  BY <3>1, <3>2, <3>3, QueueGrows
  <2>2. CASE CapTP!Message(id)
    <3> DEFINE c == CapTP!Command("CTP_CALL", id, points[id])
    <3>1. c \in Commands /\ c.type = "CTP_CALL" /\ c.id = id /\ c.from = points[id]
      BY <2>0, CommandTyped
    <3>2. /\ inbox' = Append(inbox, c) /\ points' = points
          /\ UNCHANGED <<lastConnectionID, sockets, conns, pending, received, served, ctpCrashes>>
      BY <2>2 DEF CapTP!Message, CapTP!kernel
    <3> HIDE DEF c
    <3>3. c.type # "CTP_OPEN"  BY <3>1
    <3> QED  BY <3>1, <3>2, <3>3, QueueGrows
  <2> QED  BY <1>2, <2>1, <2>2
<1>3. CASE CapTP!Inbound  BY <1>3, InboundKeeps
<1>4. ASSUME NEW x \in pending, CapTP!SendObj(x)  PROVE CapTPInv'
  <2>1. /\ pending' = pending \ {x}
        /\ \A r \in received' : r \in received
                                \/ (x.id \in DOMAIN points /\ r = <<points[x.id], x.session>>)
        /\ UNCHANGED <<lastConnectionID, points, inbox, conns, served, sockets, ctpCrashes>>
    BY <1>4 DEF CapTP!SendObj
  <2>2. NumbersInv' /\ QueueInv' /\ PendingInv'
    BY <2>1 DEF CapTPInv, NumbersInv, QueueInv, PendingInv, NotOpening
  <2>3. CapTP!SessionsKeptApart'
    BY <2>1 DEF CapTPInv, PendingInv, CapTP!SessionsKeptApart, CapTP!PointToPoint
  <2> QED  BY <2>1, <2>2, <2>3 DEF CapTPInv
<1>5. CASE CapTP!SaveState \/ UNCHANGED captpVars
  <2>1. UNCHANGED <<lastConnectionID, points, inbox, conns, pending, received, served,
                    sockets, ctpCrashes>>
    BY <1>5 DEF CapTP!SaveState, CapTP!kernel, captpVars
  <2> QED
    BY <2>1 DEF CapTPInv, NumbersInv, QueueInv, PendingInv, NotOpening,
                CapTP!SessionsKeptApart, CapTP!PointToPoint
<1>6. CASE CapTP!Crash
  <2>1. /\ ctpCrashes' = ctpCrashes + 1 /\ lastConnectionID' = 0
        /\ points' = <<>> /\ inbox' = <<>>
        /\ UNCHANGED <<received, served, sockets>>
    BY <1>6 DEF CapTP!Crash, CapTP!NoConns
  <2>2. ctpCrashes' \in Nat /\ ctpCrashes' # 0  BY <2>1 DEF CapTPInv
  <2>3. DOMAIN points' = {} /\ DOMAIN inbox' = {} /\ inbox' \in Seq(Commands)
    BY <2>1
  <2>4. points' \in [DOMAIN points' -> Nat]  BY <2>1
  <2>5. NumbersInv'  BY <2>1, <2>3, <2>4 DEF CapTPInv, NumbersInv
  <2>6. QueueInv' /\ PendingInv'  BY <2>2, <2>3 DEF QueueInv, PendingInv
  <2> QED
    BY <2>1, <2>2, <2>5, <2>6 DEF CapTPInv, CapTP!SessionsKeptApart
<1> QED
  BY <1>1, <1>2, <1>3, <1>4, <1>5, <1>6 DEF CapTP!Next, CapTP!vars, captpVars

\* Initially nothing is connected and nothing on its way.
LEMMA CapTPStart ==
    ASSUME CapTP!Init
    PROVE  CapTPInv
BY DEF CapTP!Init, CapTP!NoConns, CapTPInv, NumbersInv, QueueInv, PendingInv,
       CapTP!SessionsKeptApart, CapTP!PointToPoint

\* For any number of sockets, messages and crashes: an object of a session goes
\* to the socket it was opened for as long as the process lives, and what a
\* client sends is served by its own session (web.js, vat-http.js).
THEOREM SessionsStayApart == MCSpec => []SessionsKeptApart
<1>1. MCInit => CapTPInv  BY CapTPStart DEF MCInit, EdgesInit
<1>2. CapTPInv /\ [MCNext]_mcVars => CapTPInv'  BY EachPart, CapTPStep
<1>3. CapTPInv => SessionsKeptApart  BY DEF CapTPInv, SessionsKeptApart
<1> QED  BY <1>1, <1>2, <1>3, PTL DEF MCSpec, mcVars

-----------------------------------------------------------------------------
(* Onboarding. *)

Jobs == [state : {"none", "transfer", "post", "ok", "error", "close"},
         tries : Nat, source : {"none", "wormhole", "database"}]
Solos == [state : {"none", "waiting", "gone", "running"}, chain : Nat]
Working == {k \in Keys : job[k].state # "none"}
\* Keys that are on the chain of now, or whose failure was printed.
Done == {k \in Keys : <<chain, k>> \in provisioned \cap funded} \cup reported

OnboardingTypes ==
    /\ chain \in Nat
    /\ solo \in [Keys -> Solos] /\ job \in [Keys -> Jobs]
    /\ database \in Seq(Keys) /\ pkobjs \in Seq(Keys)
    /\ adding \in {"off", "on", "ended"}
    /\ raised \in BOOLEAN

\* A job is no further than what was done for its key on the chain of now.
PaidInv ==
    /\ \A k \in Keys : job[k].state \in {"post", "ok"} => <<chain, k>> \in funded
    /\ \A k \in Keys : job[k].state = "ok" => <<chain, k>> \in provisioned
    /\ Pserver!RunningIsProvisioned

\* Server and add-pubkeys do not work at the same time; and as long as nothing
\* is thrown, a key that add-pubkeys found in the database was done, is in
\* progress or has yet to be popped.
TurnInv ==
    /\ adding = "off" => \A k \in Working : job[k].source # "database"
    /\ adding = "on" => \A k \in Working : job[k].source = "database" /\ job[k].state # "close"
    /\ adding = "ended" => Working = {}
    /\ ~raised /\ adding = "on" =>
         /\ \A j, k \in Working : j = k
         /\ \A i \in DOMAIN database :
              database[i] \in Done \cup Pserver!ToSet(pkobjs) \cup Working
         /\ \/ Working = {} /\ pkobjs = database
            \/ Working # {} /\ Len(pkobjs) < Len(database)
    /\ ~raised /\ adding = "ended" => \A i \in DOMAIN database : database[i] \in Done

OnboardingInv == OnboardingTypes /\ PaidInv /\ TurnInv

\* The job of one key becomes r.
LEMMA OneJob ==
    ASSUME job \in [Keys -> Jobs], NEW k \in Keys, NEW r \in Jobs,
           job' = [job EXCEPT ![k] = r]
    PROVE  /\ job' \in [Keys -> Jobs] /\ job'[k] = r
           /\ \A j \in Keys \ {k} : job'[j] = job[j]
OBVIOUS

\* On one chain nothing is taken back.
LEMMA DoneGrows ==
    ASSUME UNCHANGED chain, provisioned \subseteq provisioned', funded \subseteq funded',
           reported \subseteq reported'
    PROVE  Done \subseteq Done'
BY DEF Done

\* A job that goes on leaves the order of add-pubkeys alone.
LEMMA JobGoesOn ==
    ASSUME OnboardingInv, NEW k \in Keys, NEW r \in Jobs,
           job' = [job EXCEPT ![k] = r],
           job[k].state # "none", r.state # "none", r.source = job[k].source,
           r.state = "close" => r.source = "wormhole",
           UNCHANGED <<adding, pkobjs, database, raised>>, Done \subseteq Done'
    PROVE  TurnInv' /\ job' \in [Keys -> Jobs]
<1>1. /\ job' \in [Keys -> Jobs] /\ job'[k] = r
      /\ \A j \in Keys \ {k} : job'[j] = job[j]
  BY OneJob DEF OnboardingInv, OnboardingTypes
<1>2. Working' = Working  BY <1>1 DEF Working
<1>3. \A j \in Keys : job'[j].source = job[j].source  BY <1>1
<1>4. adding' = "on" => \A j \in Working' : job'[j].source = "database" /\ job'[j].state # "close"
  BY <1>1, <1>2, <1>3 DEF OnboardingInv, TurnInv
<1>5. adding' = "off" => \A j \in Working' : job'[j].source # "database"
  BY <1>2, <1>3 DEF OnboardingInv, TurnInv, Working
<1> QED
  BY <1>1, <1>2, <1>4, <1>5 DEF OnboardingInv, TurnInv

\* doLatest: no key left, or the last of them.
LEMMA DoLatestEnds ==
    ASSUME NEW j, NEW q, NEW a, q = <<>> \/ a # "on"
    PROVE  Pserver!DoLatest([job |-> j, pkobjs |-> q, adding |-> a]) =
             [job |-> [k \in Keys |-> Pserver!NoJob], pkobjs |-> q, adding |-> "ended"]
BY DEF Pserver!DoLatest

\* With keys left, doLatest starts the last of them.
LEMMA DoLatestPops ==
    ASSUME NEW j, NEW q, q # <<>>
    PROVE  Pserver!DoLatest([job |-> j, pkobjs |-> q, adding |-> "on"]) =
             [job |-> [j EXCEPT ![Pserver!Last(q)] = Pserver!NewJob("database")],
              pkobjs |-> Pserver!Front(q), adding |-> "on"]
BY DEF Pserver!DoLatest

\* What Front and Last leave of a sequence of keys.
LEMMA FrontPlaces ==
    ASSUME NEW q \in Seq(Keys), q # <<>>
    PROVE  /\ Pserver!Front(q) \in Seq(Keys) /\ Pserver!Last(q) \in Keys
           /\ Len(Pserver!Front(q)) = Len(q) - 1 /\ Len(q) \in Nat
           /\ Pserver!ToSet(q) = Pserver!ToSet(Pserver!Front(q)) \cup {Pserver!Last(q)}
<1>1. Len(q) \in Nat /\ DOMAIN q = 1..Len(q) /\ Len(q) # 0 /\ \A i \in 1..Len(q) : q[i] \in Keys
  OBVIOUS
<1>2. /\ Pserver!Front(q) \in Seq(Keys) /\ Len(Pserver!Front(q)) = Len(q) - 1
      /\ DOMAIN Pserver!Front(q) = 1..(Len(q) - 1)
      /\ \A i \in 1..(Len(q) - 1) : Pserver!Front(q)[i] = q[i]
  BY <1>1 DEF Pserver!Front
<1>3. Pserver!Last(q) = q[Len(q)]  BY DEF Pserver!Last
<1>4. 1..Len(q) = (1..(Len(q) - 1)) \cup {Len(q)}  BY <1>1
<1> QED  BY <1>1, <1>2, <1>3, <1>4 DEF Pserver!ToSet

\* Without a job for k, and with what doLatest makes of the rest.
LEMMA ResultIs ==
    ASSUME job \in [Keys -> Jobs], NEW k \in Keys
    PROVE  Pserver!Without(k) = [job |-> [job EXCEPT ![k] = Pserver!NoJob],
                                 pkobjs |-> pkobjs, adding |-> adding]
BY DEF Pserver!Without, Pserver!State

\* The two jobs enablePubkey begins with, and none.
LEMMA NewJobTyped ==
    /\ Pserver!NoJob \in Jobs /\ Pserver!NoJob.state = "none"
    /\ \A s \in {"wormhole", "database"} :
         /\ Pserver!NewJob(s) \in Jobs /\ Pserver!NewJob(s).state = "transfer"
         /\ Pserver!NewJob(s).source = s
BY RetriesAssumption DEF Pserver!NoJob, Pserver!NewJob, Jobs

\* enablePubkey: every step of it is for the chain of now.
LEMMA EnableKeeps ==
    ASSUME OnboardingInv, NEW k \in Keys,
           \/ Pserver!Transfer(k) \/ Pserver!TransferFails(k)
           \/ Pserver!TransferAbandoned(k)
           \/ Pserver!PleaseProvision(k) \/ Pserver!PostFails(k)
    PROVE  OnboardingInv'
<1>t. /\ chain \in Nat /\ job \in [Keys -> Jobs] /\ job[k] \in Jobs
      /\ job[k].tries \in Nat
  BY DEF OnboardingInv, OnboardingTypes, Jobs
<1>1. CASE Pserver!Transfer(k)
  <2> DEFINE r == [job[k] EXCEPT !.state = "post"]
  <2>1. /\ job[k].state = "transfer" /\ job' = [job EXCEPT ![k] = r]
        /\ funded' = funded \cup {<<chain, k>>}
        /\ UNCHANGED <<chain, solo, provisioned, database, adding, pkobjs, reported, raised>>
    BY <1>1 DEF Pserver!Transfer
  <2>2. r \in Jobs /\ r.state = "post" /\ r.source = job[k].source  BY <1>t DEF Jobs
  <2> HIDE DEF r
  <2>d. Done \subseteq Done'  BY <2>1, DoneGrows
  <2>3. TurnInv' /\ job' \in [Keys -> Jobs]  BY <2>1, <2>2, <2>d, JobGoesOn
  <2>4. job'[k] = r /\ \A j \in Keys \ {k} : job'[j] = job[j]  BY <1>t, <2>1, <2>2, OneJob
  <2>5. PaidInv'
    BY <2>1, <2>2, <2>4 DEF OnboardingInv, PaidInv, Pserver!RunningIsProvisioned
  <2> QED  BY <2>1, <2>3, <2>5 DEF OnboardingInv, OnboardingTypes
<1>2. CASE Pserver!TransferFails(k)
  <2> DEFINE r == [job[k] EXCEPT !.tries = @ - 1]
  <2>1. /\ job[k].state = "transfer" /\ job[k].tries > 0 /\ job' = [job EXCEPT ![k] = r]
        /\ funded' \in {funded, funded \cup {<<chain, k>>}}
        /\ UNCHANGED <<chain, solo, provisioned, database, adding, pkobjs, reported, raised>>
    BY <1>2 DEF Pserver!TransferFails
  <2>2. r \in Jobs /\ r.state = "transfer" /\ r.source = job[k].source
    BY <1>t, <2>1 DEF Jobs
  <2> HIDE DEF r
  <2>d. Done \subseteq Done'  BY <2>1, DoneGrows
  <2>3. TurnInv' /\ job' \in [Keys -> Jobs]  BY <2>1, <2>2, <2>d, JobGoesOn
  <2>4. job'[k] = r /\ \A j \in Keys \ {k} : job'[j] = job[j]  BY <1>t, <2>1, <2>2, OneJob
  <2>5. PaidInv'
    BY <2>1, <2>2, <2>4 DEF OnboardingInv, PaidInv, Pserver!RunningIsProvisioned
  <2> QED  BY <2>1, <2>3, <2>5 DEF OnboardingInv, OnboardingTypes
<1>3. CASE Pserver!TransferAbandoned(k)
  <2> DEFINE r == [job[k] EXCEPT !.state = "error"]
  <2>1. /\ job[k].state = "transfer" /\ job' = [job EXCEPT ![k] = r]
        /\ UNCHANGED <<chain, solo, funded, provisioned, database, adding, pkobjs, reported,
                       raised>>
    BY <1>3 DEF Pserver!TransferAbandoned
  <2>2. r \in Jobs /\ r.state = "error" /\ r.source = job[k].source  BY <1>t DEF Jobs
  <2> HIDE DEF r
  <2>d. Done \subseteq Done'  BY <2>1, DoneGrows
  <2>3. TurnInv' /\ job' \in [Keys -> Jobs]  BY <2>1, <2>2, <2>d, JobGoesOn
  <2>4. job'[k] = r /\ \A j \in Keys \ {k} : job'[j] = job[j]  BY <1>t, <2>1, <2>2, OneJob
  <2>5. PaidInv'
    BY <2>1, <2>2, <2>4 DEF OnboardingInv, PaidInv, Pserver!RunningIsProvisioned
  <2> QED  BY <2>1, <2>3, <2>5 DEF OnboardingInv, OnboardingTypes
<1>4. CASE Pserver!PleaseProvision(k)
  <2> DEFINE r == [job[k] EXCEPT !.state = "ok"]
  <2>1. /\ job[k].state = "post" /\ job' = [job EXCEPT ![k] = r]
        /\ provisioned' = provisioned \cup {<<chain, k>>}
        /\ UNCHANGED <<chain, solo, funded, database, adding, pkobjs, reported, raised>>
    BY <1>4 DEF Pserver!PleaseProvision
  <2>2. r \in Jobs /\ r.state = "ok" /\ r.source = job[k].source  BY <1>t DEF Jobs
  <2> HIDE DEF r
  <2>d. Done \subseteq Done'  BY <2>1, DoneGrows
  <2>3. TurnInv' /\ job' \in [Keys -> Jobs]  BY <2>1, <2>2, <2>d, JobGoesOn
  <2>4. job'[k] = r /\ \A j \in Keys \ {k} : job'[j] = job[j]  BY <1>t, <2>1, <2>2, OneJob
  <2>5. PaidInv'
    BY <2>1, <2>2, <2>4 DEF OnboardingInv, PaidInv, Pserver!RunningIsProvisioned
  <2> QED  BY <2>1, <2>3, <2>5 DEF OnboardingInv, OnboardingTypes
<1>5. CASE Pserver!PostFails(k)
  <2> DEFINE r == [job[k] EXCEPT !.state = "error"]
  <2>1. /\ job[k].state = "post" /\ job' = [job EXCEPT ![k] = r]
        /\ provisioned' \in {provisioned, provisioned \cup {<<chain, k>>}}
        /\ UNCHANGED <<chain, solo, funded, database, adding, pkobjs, reported, raised>>
    BY <1>5 DEF Pserver!PostFails
  <2>2. r \in Jobs /\ r.state = "error" /\ r.source = job[k].source  BY <1>t DEF Jobs
  <2> HIDE DEF r
  <2>d. Done \subseteq Done'  BY <2>1, DoneGrows
  <2>3. TurnInv' /\ job' \in [Keys -> Jobs]  BY <2>1, <2>2, <2>d, JobGoesOn
  <2>4. job'[k] = r /\ \A j \in Keys \ {k} : job'[j] = job[j]  BY <1>t, <2>1, <2>2, OneJob
  <2>5. PaidInv'
    BY <2>1, <2>2, <2>4 DEF OnboardingInv, PaidInv, Pserver!RunningIsProvisioned
  <2> QED  BY <2>1, <2>3, <2>5 DEF OnboardingInv, OnboardingTypes
<1> QED  BY <1>1, <1>2, <1>3, <1>4, <1>5

\* A new solo asks, or gives up; the server answers it, and ends its job.
LEMMA ServingKeeps ==
    ASSUME OnboardingInv, NEW k \in Keys,
           \/ Pserver!SendKey(k) \/ Pserver!GiveUp(k)
           \/ Pserver!Respond(k) \/ Pserver!Complete(k)
    PROVE  OnboardingInv'
<1>t. /\ chain \in Nat /\ job \in [Keys -> Jobs] /\ job[k] \in Jobs
      /\ solo \in [Keys -> Solos] /\ solo[k] \in Solos /\ database \in Seq(Keys)
  BY DEF OnboardingInv, OnboardingTypes
<1>1. CASE Pserver!SendKey(k)
  <2> DEFINE r == Pserver!NewJob("wormhole")
             z == [solo[k] EXCEPT !.state = "waiting"]
  <2>1. /\ adding = "off" /\ job' = [job EXCEPT ![k] = r] /\ solo' = [solo EXCEPT ![k] = z]
        /\ UNCHANGED <<chain, funded, provisioned, database, adding, pkobjs, reported, raised>>
    BY <1>1 DEF Pserver!SendKey
  <2>2. r \in Jobs /\ r.state = "transfer" /\ r.source = "wormhole"  BY NewJobTyped
  <2>z. z \in Solos /\ z.state = "waiting"  BY <1>t DEF Solos
  <2> HIDE DEF r, z
  <2>3. job' \in [Keys -> Jobs] /\ job'[k] = r /\ \A j \in Keys \ {k} : job'[j] = job[j]
    BY <1>t, <2>1, <2>2, OneJob
  <2>4. solo' \in [Keys -> Solos] /\ solo'[k] = z /\ \A j \in Keys \ {k} : solo'[j] = solo[j]
    BY <1>t, <2>1, <2>z
  <2>5. PaidInv'
    BY <2>1, <2>2, <2>z, <2>3, <2>4 DEF OnboardingInv, PaidInv, Pserver!RunningIsProvisioned
  <2>6. TurnInv'  BY <2>1, <2>2, <2>3 DEF OnboardingInv, TurnInv, Working
  <2> QED  BY <2>1, <2>3, <2>4, <2>5, <2>6 DEF OnboardingInv, OnboardingTypes
<1>2. CASE Pserver!GiveUp(k)
  <2> DEFINE z == [solo[k] EXCEPT !.state = "gone"]
  <2>1. /\ solo' = [solo EXCEPT ![k] = z]
        /\ UNCHANGED <<chain, job, funded, provisioned, database, adding, pkobjs, reported,
                       raised>>
    BY <1>2 DEF Pserver!GiveUp
  <2>z. z \in Solos /\ z.state = "gone"  BY <1>t DEF Solos
  <2> HIDE DEF z
  <2>4. solo' \in [Keys -> Solos] /\ solo'[k] = z /\ \A j \in Keys \ {k} : solo'[j] = solo[j]
    BY <1>t, <2>1, <2>z
  <2>5. PaidInv'
    BY <2>1, <2>z, <2>4 DEF OnboardingInv, PaidInv, Pserver!RunningIsProvisioned
  <2>d. Done' = Done  BY <2>1 DEF Done
  <2>6. TurnInv'  BY <2>1, <2>d DEF OnboardingInv, TurnInv, Working
  <2> QED  BY <2>1, <2>4, <2>5, <2>6 DEF OnboardingInv, OnboardingTypes
<1>3. CASE Pserver!Respond(k)
  <2> DEFINE r == [job[k] EXCEPT !.state = "close"]
             z == Pserver!Hear(solo[k], job[k].state = "ok")
  <2>1. /\ job[k].state \in {"ok", "error"} /\ job[k].source = "wormhole"
        /\ job' = [job EXCEPT ![k] = r] /\ solo' = [solo EXCEPT ![k] = z]
        /\ UNCHANGED <<chain, funded, provisioned, database, adding, pkobjs, reported, raised>>
    BY <1>3 DEF Pserver!Respond
  <2>2. r \in Jobs /\ r.state = "close" /\ r.source = job[k].source  BY <1>t DEF Jobs
  <2>z. /\ z \in Solos
        /\ z.state = "running" => z = solo[k] \/ (job[k].state = "ok" /\ z.chain = chain)
    <3>1. CASE solo[k].state = "waiting" /\ job[k].state = "ok"
      BY <1>t, <3>1 DEF Solos, Pserver!Hear
    <3>2. CASE solo[k].state = "waiting" /\ job[k].state # "ok"
      BY <1>t, <3>2 DEF Solos, Pserver!Hear
    <3>3. CASE solo[k].state # "waiting"
      BY <1>t, <3>3 DEF Pserver!Hear
    <3> QED  BY <3>1, <3>2, <3>3
  <2> HIDE DEF r, z
  <2>d. Done \subseteq Done'  BY <2>1, DoneGrows
  <2>3. TurnInv' /\ job' \in [Keys -> Jobs]  BY <2>1, <2>2, <2>d, JobGoesOn
  <2>4. job'[k] = r /\ \A j \in Keys \ {k} : job'[j] = job[j]  BY <1>t, <2>1, <2>2, OneJob
  <2>5. solo' \in [Keys -> Solos] /\ solo'[k] = z /\ \A j \in Keys \ {k} : solo'[j] = solo[j]
    BY <1>t, <2>1, <2>z
  <2>6. z.state = "running" => <<z.chain, k>> \in provisioned \cap funded
    BY <2>1, <2>z DEF OnboardingInv, PaidInv, Pserver!RunningIsProvisioned
  <2>7. PaidInv'
    BY <2>1, <2>2, <2>4, <2>5, <2>6 DEF OnboardingInv, PaidInv, Pserver!RunningIsProvisioned
  <2> QED  BY <2>1, <2>3, <2>5, <2>7 DEF OnboardingInv, OnboardingTypes
<1>4. CASE Pserver!Complete(k)
  <2> DEFINE r == Pserver!NoJob
  <2>1. /\ job[k].state = "close" /\ job' = [job EXCEPT ![k] = r]
        /\ database' = Append(database, k) \/ database' = database
        /\ UNCHANGED <<chain, solo, funded, provisioned, adding, pkobjs, reported, raised>>
    BY <1>4 DEF Pserver!Complete
  <2>2. r \in Jobs /\ r.state = "none"  BY NewJobTyped
  <2> HIDE DEF r
  <2>3. job' \in [Keys -> Jobs] /\ job'[k] = r /\ \A j \in Keys \ {k} : job'[j] = job[j]
    BY <1>t, <2>1, <2>2, OneJob
  <2>4. database' \in Seq(Keys)  BY <1>t, <2>1
  <2>5. adding = "off"
    BY <2>1 DEF OnboardingInv, OnboardingTypes, TurnInv, Working
  <2>6. PaidInv'
    BY <2>1, <2>2, <2>3 DEF OnboardingInv, PaidInv, Pserver!RunningIsProvisioned
  <2>7. TurnInv'  BY <2>1, <2>2, <2>3, <2>5 DEF OnboardingInv, TurnInv, Working
  <2> QED  BY <2>1, <2>3, <2>4, <2>6, <2>7 DEF OnboardingInv, OnboardingTypes
<1> QED  BY <1>1, <1>2, <1>3, <1>4

\* A run of add-pubkeys that has no key in progress pops the next key or ends;
\* nothing it has to do gets lost.
LEMMA NextKeyKeeps ==
    ASSUME OnboardingInv, adding = "on", NEW j \in [Keys -> Jobs],
           \A k \in Keys : j[k].state = "none" \/ j[k] = job[k],
           ~raised' => \A k \in Keys : j[k].state = "none",
           ~raised' => \A i \in DOMAIN database :
                          database[i] \in Done' \cup Pserver!ToSet(pkobjs),
           ~raised' => Len(pkobjs) <= Len(database),
           Pserver!Becomes(Pserver!DoLatest([job |-> j, pkobjs |-> pkobjs, adding |-> "on"])),
           raised' \in BOOLEAN, UNCHANGED <<chain, solo, funded, provisioned, database>>
    PROVE  OnboardingInv'
<1>t. /\ chain \in Nat /\ job \in [Keys -> Jobs] /\ pkobjs \in Seq(Keys)
      /\ database \in Seq(Keys)
  BY DEF OnboardingInv, OnboardingTypes
<1>1. CASE pkobjs = <<>>
  <2>1. /\ job' = [k \in Keys |-> Pserver!NoJob] /\ pkobjs' = pkobjs /\ adding' = "ended"
    <3>1. Pserver!DoLatest([job |-> j, pkobjs |-> pkobjs, adding |-> "on"]) =
            [job |-> [k \in Keys |-> Pserver!NoJob], pkobjs |-> pkobjs, adding |-> "ended"]
      BY <1>1, DoLatestEnds, Zenon
    <3> QED  BY <3>1 DEF Pserver!Becomes
  <2>2. job' \in [Keys -> Jobs] /\ \A k \in Keys : job'[k].state = "none"
    BY <2>1, NewJobTyped
  <2>3. Pserver!ToSet(pkobjs) = {}  BY <1>1 DEF Pserver!ToSet
  <2>4. PaidInv'
    BY <2>2 DEF OnboardingInv, PaidInv, Pserver!RunningIsProvisioned
  <2>5. TurnInv'  BY <2>1, <2>2, <2>3 DEF TurnInv, Working
  <2> QED  BY <2>1, <2>2, <2>4, <2>5 DEF OnboardingInv, OnboardingTypes
<1>2. CASE pkobjs # <<>>
  <2> DEFINE l == Pserver!Last(pkobjs)
             r == Pserver!NewJob("database")
  <2>1. /\ job' = [j EXCEPT ![l] = r] /\ pkobjs' = Pserver!Front(pkobjs) /\ adding' = "on"
    <3> DEFINE jr == [j EXCEPT ![l] = r]
               f == Pserver!Front(pkobjs)
    <3>1. Pserver!DoLatest([job |-> j, pkobjs |-> pkobjs, adding |-> "on"]) =
            [job |-> jr, pkobjs |-> f, adding |-> "on"]
      BY <1>2, DoLatestPops, Zenon
    <3> HIDE DEF jr, f
    <3>2. job' = jr /\ pkobjs' = f /\ adding' = "on"  BY <3>1 DEF Pserver!Becomes
    <3> QED  BY <3>2 DEF jr, f
  <2>2. r \in Jobs /\ r.state = "transfer" /\ r.source = "database"  BY NewJobTyped
  <2>3. /\ pkobjs' \in Seq(Keys) /\ l \in Keys
        /\ Len(pkobjs') < Len(pkobjs) /\ Len(pkobjs') \in Nat /\ Len(pkobjs) \in Nat
        /\ Pserver!ToSet(pkobjs) = Pserver!ToSet(pkobjs') \cup {l}
    BY <1>t, <1>2, <2>1, FrontPlaces
  <2> HIDE DEF l, r
  <2>4. job' \in [Keys -> Jobs] /\ job'[l] = r /\ \A k \in Keys \ {l} : job'[k] = j[k]
    BY <2>1, <2>2, <2>3
  <2>5. PaidInv'
    BY <2>2, <2>3, <2>4 DEF OnboardingInv, PaidInv, Pserver!RunningIsProvisioned
  <2>6. \A k \in Working' : job'[k].source = "database" /\ job'[k].state # "close"
    BY <2>2, <2>3, <2>4 DEF OnboardingInv, TurnInv, Working
  <2>7. ASSUME ~raised'
        PROVE  /\ \A k1, k2 \in Working' : k1 = k2
               /\ \A i \in DOMAIN database' :
                    database'[i] \in Done' \cup Pserver!ToSet(pkobjs') \cup Working'
               /\ Working' # {} /\ Len(pkobjs') < Len(database')
    <3>1. Working' = {l}  BY <2>2, <2>3, <2>4, <2>7 DEF Working
    <3>2. Len(database) \in Nat  BY <1>t
    <3>3. Len(pkobjs') < Len(database')  BY <2>3, <2>7, <3>2
    <3>4. \A i \in DOMAIN database' :
            database'[i] \in Done' \cup Pserver!ToSet(pkobjs') \cup {l}
      BY <2>3, <2>7
    <3> QED  BY <3>1, <3>3, <3>4
  <2>8. TurnInv'
    <3>1. adding' = "on"  BY <2>1
    <3>2. Pserver!ToSet(pkobjs)' = Pserver!ToSet(pkobjs')  BY DEF Pserver!ToSet
    <3> QED  BY <3>1, <3>2, <2>6, <2>7 DEF TurnInv
  <2> QED  BY <1>t, <2>1, <2>3, <2>4, <2>5, <2>8 DEF OnboardingInv, OnboardingTypes
<1> QED  BY <1>1, <1>2

\* add-pubkeys starts, a key of it is done, or something is thrown.
LEMMA AddingKeeps ==
    ASSUME OnboardingInv,
           \/ Pserver!AddPubkeys
           \/ \E k \in Keys : Pserver!Enabled(k) \/ Pserver!Raise(k)
    PROVE  OnboardingInv'
<1>t. /\ chain \in Nat /\ job \in [Keys -> Jobs] /\ pkobjs \in Seq(Keys)
      /\ database \in Seq(Keys) /\ adding \in {"off", "on", "ended"} /\ raised \in BOOLEAN
      /\ Len(pkobjs) \in Nat /\ Len(database) \in Nat
  BY DEF OnboardingInv, OnboardingTypes
<1>1. CASE Pserver!AddPubkeys
  <2>1. /\ adding = "on" /\ pkobjs = database
        /\ Pserver!Becomes(Pserver!DoLatest([job |-> job, pkobjs |-> pkobjs, adding |-> "on"]))
        /\ UNCHANGED <<chain, solo, funded, provisioned, database, reported, raised>>
    BY <1>1 DEF Pserver!AddPubkeys, Pserver!State
  <2>2. ~raised' => \A k \in Keys : job[k].state = "none"
    BY <1>t, <2>1 DEF OnboardingInv, TurnInv, Working
  <2>3. ~raised' => \A i \in DOMAIN database :
                      database[i] \in Done' \cup Pserver!ToSet(pkobjs)
    BY <2>1 DEF Pserver!ToSet
  <2>4. Len(pkobjs) <= Len(database)  BY <1>t, <2>1
  <2> QED  BY <1>t, <2>1, <2>2, <2>3, <2>4, NextKeyKeeps
<1>2. ASSUME NEW k \in Keys, Pserver!Enabled(k) \/ Pserver!Raise(k)
      PROVE  OnboardingInv'
  <2> DEFINE j == [job EXCEPT ![k] = Pserver!NoJob]
  <2>1. Pserver!Without(k) = [job |-> j, pkobjs |-> pkobjs, adding |-> adding]
    BY <1>t, ResultIs
  <2>2. /\ j \in [Keys -> Jobs] /\ j[k].state = "none"
        /\ \A x \in Keys \ {k} : j[x] = job[x]
    BY <1>t, NewJobTyped
  <2>3. \A x \in Keys : j[x].state = "none" \/ j[x] = job[x]  BY <2>2
  <2> HIDE DEF j
  <2>4. ASSUME job[k].state # "none", job[k].source = "database"
        PROVE  /\ adding = "on" /\ k \in Working
               /\ ~raised => /\ \A x \in Keys : j[x].state = "none"
                             /\ \A i \in DOMAIN database :
                                  database[i] \in (Done \cup {k}) \cup Pserver!ToSet(pkobjs)
                             /\ Len(pkobjs) <= Len(database)
    <3>1. k \in Working  BY <2>4 DEF Working
    <3>2. adding = "on"  BY <1>t, <2>4, <3>1 DEF OnboardingInv, TurnInv
    <3>3. ~raised => \A x \in Working : x = k
      BY <3>1, <3>2 DEF OnboardingInv, TurnInv
    <3>4. ~raised => \A x \in Keys : j[x].state = "none"
      BY <2>2, <3>3 DEF Working
    <3>5. ~raised => \A i \in DOMAIN database :
                       database[i] \in (Done \cup {k}) \cup Pserver!ToSet(pkobjs)
      BY <3>2, <3>3 DEF OnboardingInv, TurnInv
    <3>6. ~raised => Len(pkobjs) < Len(database)
      BY <3>1, <3>2 DEF OnboardingInv, TurnInv
    <3>7. ~raised => Len(pkobjs) <= Len(database)  BY <3>6, <1>t
    <3> QED  BY <3>1, <3>2, <3>4, <3>5, <3>7
  <2>5. CASE Pserver!Enabled(k)
    <3>1. /\ job[k].state \in {"ok", "error"} /\ job[k].source = "database"
          /\ reported' = reported \cup {x \in {k} : job[x].state = "error"}
          /\ Pserver!Becomes(Pserver!DoLatest(Pserver!Without(k)))
          /\ UNCHANGED <<chain, solo, funded, provisioned, database, raised>>
      BY <2>5 DEF Pserver!Enabled
    <3>2. job[k].state # "none"  BY <3>1
    <3>d. Done \cup {k} \subseteq Done'
      BY <3>1 DEF OnboardingInv, PaidInv, Done
    <3>3. adding = "on"  BY <2>4, <3>1, <3>2
    <3>4. Pserver!Becomes(Pserver!DoLatest([job |-> j, pkobjs |-> pkobjs, adding |-> "on"]))
      BY <3>1, <2>1, <3>3
    <3>5. /\ ~raised' => \A x \in Keys : j[x].state = "none"
          /\ ~raised' => \A i \in DOMAIN database :
                            database[i] \in Done' \cup Pserver!ToSet(pkobjs)
          /\ ~raised' => Len(pkobjs) <= Len(database)
      BY <2>4, <3>1, <3>2, <3>d
    <3>6. raised' \in BOOLEAN  BY <1>t, <3>1
    <3> QED  BY <2>2, <2>3, <3>1, <3>3, <3>4, <3>5, <3>6, NextKeyKeeps
  <2>6. CASE Pserver!Raise(k) /\ job[k].source # "wormhole"
    <3>0. job[k] \in Jobs  BY <1>t
    <3>1. /\ job[k].state \in {"transfer", "post"} /\ raised' = TRUE
          /\ Pserver!Becomes(Pserver!DoLatest(Pserver!DoLatest(Pserver!Without(k))))
          /\ UNCHANGED <<chain, solo, funded, provisioned, database>>
      BY <2>6 DEF Pserver!Raise
    \* A job that is under way and has no source there is none.
    <3>2. \/ /\ pkobjs' = pkobjs /\ adding' = "ended"
             /\ job' = [x \in Keys |-> Pserver!NoJob]
          \/ /\ adding = "on" /\ pkobjs' \in Seq(Keys) /\ adding' = "ended"
             /\ job' = [x \in Keys |-> Pserver!NoJob]
          \/ /\ adding = "on" /\ pkobjs' \in Seq(Keys) /\ adding' = "on"
             /\ job' \in [Keys -> Jobs]
             /\ \A x \in Keys : job'[x] = job[x] \/ job'[x].state = "none"
                                \/ job'[x] = Pserver!NewJob("database")
      <4>1. CASE pkobjs = <<>> \/ adding # "on"
        <5>1. Pserver!DoLatest(Pserver!Without(k)) =
                [job |-> [x \in Keys |-> Pserver!NoJob], pkobjs |-> pkobjs, adding |-> "ended"]
          <6>1. Pserver!DoLatest([job |-> j, pkobjs |-> pkobjs, adding |-> adding]) =
                  [job |-> [x \in Keys |-> Pserver!NoJob], pkobjs |-> pkobjs, adding |-> "ended"]
            BY <4>1, DoLatestEnds, Zenon
          <6> QED  BY <2>1, <6>1, Zenon
        <5>2. Pserver!DoLatest(Pserver!DoLatest(Pserver!Without(k))) =
                [job |-> [x \in Keys |-> Pserver!NoJob], pkobjs |-> pkobjs, adding |-> "ended"]
          <6>1. "ended" # "on"  OBVIOUS
          <6>2. Pserver!DoLatest([job |-> [x \in Keys |-> Pserver!NoJob], pkobjs |-> pkobjs,
                                  adding |-> "ended"]) =
                  [job |-> [x \in Keys |-> Pserver!NoJob], pkobjs |-> pkobjs, adding |-> "ended"]
            BY <6>1, DoLatestEnds, Zenon
          <6> QED  BY <5>1, <6>2, Zenon
        <5> QED  BY <3>1, <5>2 DEF Pserver!Becomes
      <4>2. CASE pkobjs # <<>> /\ adding = "on"
        <5> DEFINE q == Pserver!Front(pkobjs)
                   j2 == [j EXCEPT ![Pserver!Last(pkobjs)] = Pserver!NewJob("database")]
        <5>1. Pserver!DoLatest(Pserver!Without(k)) = [job |-> j2, pkobjs |-> q, adding |-> "on"]
          BY <2>1, <4>2, DoLatestPops, Zenon
        <5>2. q \in Seq(Keys) /\ Pserver!Last(pkobjs) \in Keys  BY <1>t, <4>2, FrontPlaces
        <5>3. /\ j2 \in [Keys -> Jobs]
              /\ \A x \in Keys : j2[x] = j[x] \/ j2[x] = Pserver!NewJob("database")
          BY <2>2, <5>2, NewJobTyped
        <5> HIDE DEF q, j2
        <5>4. CASE q = <<>>
          <6>1. Pserver!DoLatest(Pserver!DoLatest(Pserver!Without(k))) =
                  [job |-> [x \in Keys |-> Pserver!NoJob], pkobjs |-> q, adding |-> "ended"]
            <7>1. Pserver!DoLatest([job |-> j2, pkobjs |-> q, adding |-> "on"]) =
                    [job |-> [x \in Keys |-> Pserver!NoJob], pkobjs |-> q, adding |-> "ended"]
              BY <5>4, DoLatestEnds, Zenon
            <7> QED  BY <5>1, <7>1, Zenon
          <6> QED  BY <3>1, <4>2, <5>2, <6>1 DEF Pserver!Becomes
        <5>5. CASE q # <<>>
          <6> DEFINE j3 == [j2 EXCEPT ![Pserver!Last(q)] = Pserver!NewJob("database")]
          <6>1. Pserver!DoLatest(Pserver!DoLatest(Pserver!Without(k))) =
                  [job |-> j3, pkobjs |-> Pserver!Front(q), adding |-> "on"]
            BY <5>1, <5>5, DoLatestPops, Zenon
          <6>2. Pserver!Front(q) \in Seq(Keys) /\ Pserver!Last(q) \in Keys
            BY <5>2, <5>5, FrontPlaces
          <6>3. /\ j3 \in [Keys -> Jobs]
                /\ \A x \in Keys : j3[x] = j2[x] \/ j3[x] = Pserver!NewJob("database")
            BY <5>3, <6>2, NewJobTyped
          <6> HIDE DEF j3
          <6>4. job' = j3 /\ pkobjs' = Pserver!Front(q) /\ adding' = "on"
            BY <3>1, <6>1 DEF Pserver!Becomes
          <6>5. \A x \in Keys : j3[x] = job[x] \/ j3[x].state = "none"
                                \/ j3[x] = Pserver!NewJob("database")
            BY <2>3, <5>3, <6>3
          <6> QED  BY <4>2, <6>2, <6>3, <6>4, <6>5
        <5> QED  BY <5>4, <5>5
      <4> QED  BY <4>1, <4>2
    <3>3. /\ job' \in [Keys -> Jobs] /\ pkobjs' \in Seq(Keys)
          /\ \A x \in Keys : job'[x] = job[x] \/ job'[x].state = "none"
                             \/ job'[x] = Pserver!NewJob("database")
      <4>1. job' = [x \in Keys |-> Pserver!NoJob]
              => /\ job' \in [Keys -> Jobs] /\ \A x \in Keys : job'[x].state = "none"
        BY NewJobTyped
      <4> QED  BY <3>2, <4>1, <1>t
    <3>4. PaidInv'
      BY <3>1, <3>3, NewJobTyped DEF OnboardingInv, PaidInv, Pserver!RunningIsProvisioned
    <3>5. TurnInv'
      <4>1. CASE adding' = "ended" /\ job' = [x \in Keys |-> Pserver!NoJob]
        <5>1. \A x \in Keys : job'[x].state = "none"  BY <4>1, NewJobTyped
        <5> QED  BY <4>1, <5>1, <3>1 DEF TurnInv, Working
      <4>2. CASE adding' = "on" /\ adding = "on"
        <5>1. \A x \in Working' : job'[x].source = "database" /\ job'[x].state # "close"
          BY <4>2, <3>3, NewJobTyped DEF OnboardingInv, TurnInv, Working
        <5> QED  BY <4>2, <5>1, <3>1 DEF TurnInv
      <4> QED  BY <3>2, <4>1, <4>2
    <3>6. adding' \in {"off", "on", "ended"}  BY <3>2
    <3> QED  BY <1>t, <3>1, <3>3, <3>4, <3>5, <3>6 DEF OnboardingInv, OnboardingTypes
  <2>7. CASE Pserver!Raise(k) /\ job[k].source = "wormhole"
    <3>1. /\ job[k].state \in {"transfer", "post"}
          /\ job' = j /\ pkobjs' = pkobjs /\ adding' = adding
          /\ UNCHANGED <<chain, solo, funded, provisioned, database, reported, raised>>
      BY <2>1, <2>7 DEF Pserver!Raise, Pserver!Becomes
    <3>2. k \in Working  BY <3>1 DEF Working
    <3>3. adding = "off"  BY <1>t, <2>7, <3>2 DEF OnboardingInv, TurnInv
    <3>4. PaidInv'
      BY <3>1, <2>3 DEF OnboardingInv, PaidInv, Pserver!RunningIsProvisioned
    <3>5. TurnInv'  BY <3>1, <3>3, <2>3 DEF OnboardingInv, TurnInv, Working
    <3> QED  BY <1>t, <2>2, <3>1, <3>4, <3>5 DEF OnboardingInv, OnboardingTypes
  <2> QED  BY <1>2, <2>5, <2>6, <2>7
<1> QED  BY <1>1, <1>2

\* A step of onboarding keeps all that is said of it.
LEMMA OnboardingStep ==
    ASSUME OnboardingInv, [Pserver!Next]_pserverVars
    PROVE  OnboardingInv'
<1>1. ASSUME NEW k \in Keys,
             \/ Pserver!Transfer(k) \/ Pserver!TransferFails(k)
             \/ Pserver!TransferAbandoned(k)
             \/ Pserver!PleaseProvision(k) \/ Pserver!PostFails(k)
      PROVE  OnboardingInv'
  BY <1>1, EnableKeeps
<1>2. ASSUME NEW k \in Keys,
             \/ Pserver!SendKey(k) \/ Pserver!GiveUp(k)
             \/ Pserver!Respond(k) \/ Pserver!Complete(k)
      PROVE  OnboardingInv'
  BY <1>2, ServingKeeps
<1>3. CASE \/ Pserver!AddPubkeys
           \/ \E k \in Keys : Pserver!Enabled(k) \/ Pserver!Raise(k)
  BY <1>3, AddingKeeps
<1>4. CASE Pserver!NewChain
  <2>1. /\ chain' = chain + 1 /\ job' = [k \in Keys |-> Pserver!NoJob]
        /\ adding' = "on" /\ pkobjs' = database /\ raised' = FALSE
        /\ UNCHANGED <<solo, funded, provisioned, database>>
    BY <1>4 DEF Pserver!NewChain
  <2>2. job' \in [Keys -> Jobs] /\ \A k \in Keys : job'[k].state = "none"
    BY <2>1, NewJobTyped
  <2>3. Working' = {}  BY <2>2 DEF Working
  <2>4. \A i \in DOMAIN database : database[i] \in Pserver!ToSet(pkobjs')
    BY <2>1 DEF Pserver!ToSet
  <2>5. PaidInv'
    BY <2>1, <2>2 DEF OnboardingInv, PaidInv, Pserver!RunningIsProvisioned
  <2>6. Pserver!ToSet(pkobjs)' = Pserver!ToSet(pkobjs')  BY DEF Pserver!ToSet
  <2>7. TurnInv'  BY <2>1, <2>3, <2>4, <2>6 DEF TurnInv
  <2>8. OnboardingTypes'
    <3>1. chain' \in Nat /\ pkobjs' \in Seq(Keys)
      BY <2>1 DEF OnboardingInv, OnboardingTypes
    <3>2. raised' \in BOOLEAN  BY <2>1
    <3> QED  BY <2>1, <2>2, <3>1, <3>2 DEF OnboardingInv, OnboardingTypes
  <2> QED  BY <2>5, <2>7, <2>8 DEF OnboardingInv
<1>5. CASE Pserver!Serve
  <2>1. /\ adding = "ended" /\ adding' = "off"
        /\ UNCHANGED <<chain, solo, job, funded, provisioned, database, pkobjs, reported, raised>>
    BY <1>5 DEF Pserver!Serve
  <2> QED
    BY <2>1 DEF OnboardingInv, OnboardingTypes, PaidInv, TurnInv, Working,
                Pserver!RunningIsProvisioned
<1>6. CASE UNCHANGED pserverVars
  <2>1. UNCHANGED <<chain, solo, job, funded, provisioned, database, adding, pkobjs,
                    reported, raised>>
    BY <1>6 DEF pserverVars
  <2>2. OnboardingTypes'  BY <2>1 DEF OnboardingInv, OnboardingTypes
  <2>3. PaidInv'  BY <2>1 DEF OnboardingInv, PaidInv, Pserver!RunningIsProvisioned
  <2>d. Done' = Done  BY <2>1 DEF Done
  <2>4. TurnInv'  BY <2>1, <2>d DEF OnboardingInv, TurnInv, Working, Pserver!ToSet
  <2> QED  BY <2>2, <2>3, <2>4 DEF OnboardingInv
<1> QED
  BY <1>1, <1>2, <1>3, <1>4, <1>5, <1>6 DEF Pserver!Next, Pserver!vars, pserverVars

\* Initially no key was sent, and add-pubkeys does not run.
LEMMA OnboardingStart ==
    ASSUME Pserver!Init
    PROVE  OnboardingInv
<1>1. /\ chain = 1 /\ solo = [k \in Keys |-> [state |-> "none", chain |-> 0]]
      /\ job = [k \in Keys |-> Pserver!NoJob]
      /\ database = <<>> /\ pkobjs = <<>> /\ adding = "off" /\ raised = FALSE
  BY DEF Pserver!Init
<1>2. solo \in [Keys -> Solos] /\ \A k \in Keys : solo[k].state = "none"
  BY <1>1 DEF Solos
<1>3. job \in [Keys -> Jobs] /\ \A k \in Keys : job[k].state = "none"
  BY <1>1, NewJobTyped
<1>4. OnboardingTypes
  <2>1. <<>> \in Seq(Keys) /\ 1 \in Nat  OBVIOUS
  <2> QED  BY <1>1, <1>2, <1>3, <2>1 DEF OnboardingTypes
<1>5. PaidInv  BY <1>2, <1>3 DEF PaidInv, Pserver!RunningIsProvisioned
<1>6. TurnInv  BY <1>1, <1>3 DEF TurnInv, Working
<1> QED  BY <1>4, <1>5, <1>6 DEF OnboardingInv

\* For any number of keys, retries, faults and new chains: a solo started by the
\* run of ag-setup-solo that asked for it is known to the controller of its
\* chain and has the token (ag_setup_solo and ag_pserver main.py).
THEOREM RunningIsKnown == MCSpec => []RunningIsProvisioned
<1>1. MCInit => OnboardingInv  BY OnboardingStart DEF MCInit, EdgesInit
<1>2. OnboardingInv /\ [MCNext]_mcVars => OnboardingInv'  BY EachPart, OnboardingStep
<1>3. OnboardingInv => RunningIsProvisioned
  BY DEF OnboardingInv, PaidInv, RunningIsProvisioned
<1> QED  BY <1>1, <1>2, <1>3, PTL DEF MCSpec, mcVars

\* For any number of keys, retries, faults and new chains: unless enablePubkey
\* throws, add-pubkeys has one key in progress, and when it ends every key of
\* the database has the token and is provisioned on the new chain, or an error
\* was printed for it (ag_pserver main.py doEnablePubkeys).
THEOREM AddPubkeysAddsOrReports == MCSpec => []AddsAllInTurn
<1>1. MCInit => OnboardingInv  BY OnboardingStart DEF MCInit, EdgesInit
<1>2. OnboardingInv /\ [MCNext]_mcVars => OnboardingInv'  BY EachPart, OnboardingStep
<1>3. OnboardingInv => AddsAllInTurn
  <2> SUFFICES ASSUME OnboardingInv, ~raised  PROVE Pserver!AddsAllInTurn
    BY DEF AddsAllInTurn, Pserver!AddsAllInTurn
  <2>1. Pserver!AddsAll
    BY DEF Pserver!AddsAll, OnboardingInv, OnboardingTypes, TurnInv, Done, Pserver!ToSet
  <2>2. ASSUME adding = "on"  PROVE Cardinality(Working) <= 1
    <3>1. \A j, k \in Working : j = k  BY <2>2 DEF OnboardingInv, TurnInv
    <3>2. CASE Working = {}  BY <3>2, FS_EmptySet
    <3>3. CASE Working # {}
      <4>1. PICK k \in Working : TRUE  BY <3>3
      <4>2. Working = {k}  BY <3>1, <4>1
      <4> QED  BY <4>2, FS_Singleton
    <3> QED  BY <3>2, <3>3
  <2>3. Pserver!Active(job) = Working  BY DEF Pserver!Active, Working
  <2>4. adding = "on" => Pserver!Cardinality(Pserver!Active(job)) <= 1
    <3>1. Pserver!Cardinality(Working) = Cardinality(Working)
      BY DEF Pserver!Cardinality, Cardinality
    <3> QED  BY <2>2, <2>3, <3>1
  <2> QED  BY <2>1, <2>4, Zenon DEF Pserver!AddsAllInTurn
<1> QED  BY <1>1, <1>2, <1>3, PTL DEF MCSpec, mcVars

-----------------------------------------------------------------------------
(* Repl. *)

Lines == [cmd : Nat, shown : {"undefined", "sending for eval", "working on eval", "done",
                              "unresolved Promise"}]
Updates == [number : Nat, line : Lines]
Calls == [tab : Tabs \cup {"gone", "none"}, number : Nat, cmd : Nat,
          type : {"inbound", "getHighestHistory", "rebroadcastHistory", "doEval", "refused"}]

\* A history: some numbers up to a highest one have a line.
Histories == UNION {[D -> Lines] : D \in SUBSET Nat}
Bounded(h) == \E b \in Nat : DOMAIN h \subseteq 0..b
Snapshots == {s \in [call : Calls, snap : Histories] : Bounded(s.snap)}

ReplTypes ==
    /\ history \in Histories /\ Bounded(history)
    /\ saved \in Histories /\ Bounded(saved)
    /\ calls \subseteq Calls /\ running \subseteq Calls /\ saves \subseteq Snapshots
    /\ tab \in [Tabs -> {"closed", "asking", "ready"}]
    /\ next \in [Tabs -> Nat]
    /\ socket \in [Tabs -> Seq(Updates)]
    /\ \A t \in Tabs : rows[t] \in Histories
    /\ rows = [t \in Tabs |-> rows[t]]
    /\ commands \in Nat

\* h still has what g had.
Keeps(h, g) == \A n \in DOMAIN g : n \in DOMAIN h /\ h[n].cmd = g[n].cmd

\* h has the evaluation c, if it is one.
Evaluated(h, c) == c.type = "doEval" => Has(h, <<c.number, c.cmd>>)

\* What was answered and not dropped is in the state file.  The vat has what is
\* in the file and in every snapshot, a snapshot the evaluation it is taken for,
\* and the vat those that are in their run.
AnsweredInv ==
    /\ \A a \in answered : Has(saved, a) \/ a \in dropped
    /\ Keeps(history, saved)
    /\ \A s \in saves : Keeps(history, s.snap) /\ Evaluated(s.snap, s.call)
    /\ \A c \in running : Evaluated(history, c)

\* A tab that has not been sent the history since it connected.
Behind(t) ==
    \/ tab[t] # "ready"
    \/ \E c \in calls : c.tab = t /\ c.type = "rebroadcastHistory"

\* The last update for n in what tab t has yet to handle is the line of n.
Underway(t, n) ==
    \E i \in DOMAIN socket[t] :
        /\ socket[t][i].number = n /\ socket[t][i].line = history[n]
        /\ \A j \in DOMAIN socket[t] : j > i => socket[t][j].number # n

\* Tab t shows the line of n and will not be told another, nor claim n.
Shows(t, n) ==
    /\ n \in DOMAIN rows[t] /\ rows[t][n] = history[n]
    /\ n < next[t]
    /\ \A i \in DOMAIN socket[t] : socket[t][i].number # n

\* A tab that has caught up shows every line or is about to.
TabsInv ==
    \A t \in Tabs : ~Behind(t) => \A n \in DOMAIN history : Underway(t, n) \/ Shows(t, n)

ReplInv == ReplTypes /\ AnsweredInv /\ TabsInv

\* A set of naturals that is not empty has a least element.
LEMMA LeastOf ==
    ASSUME NEW S \in SUBSET Nat, S # {}
    PROVE  \E n \in S : \A k \in S : n <= k
<1> DEFINE less == OpToRel(<, Nat)
<1>1. PICK n \in S : \A k \in S : <<k, n>> \notin less
  <2> HIDE DEF less
  <2>1. IsWellFoundedOn(less, Nat)  BY NatLessThanWellFounded, Zenon DEF less
  <2> QED  BY <2>1, WFMin
<1>2. \A k \in S : ~(k < n)  BY <1>1 DEF OpToRel
<1> QED  BY <1>2

\* A set of numbers with a bound has a highest one.
LEMMA HighestOfBounded ==
    ASSUME NEW b \in Nat, NEW S \in SUBSET (0..b), S # {}
    PROVE  \E n \in S : \A k \in S : k <= n
<1> DEFINE T == {x \in 0..b : b - x \in S}
<1>1. T \in SUBSET Nat /\ T # {}
  <2>1. PICK y \in S : TRUE  OBVIOUS
  <2>2. b - y \in 0..b /\ b - (b - y) = y  BY <2>1
  <2>3. b - y \in T  BY <2>1, <2>2
  <2> QED  BY <2>3
<1>2. PICK x \in T : \A y \in T : x <= y
  <2> HIDE DEF T
  <2> QED  BY <1>1, LeastOf
<1>3. \A y \in S : b - y \in T  OBVIOUS
<1>4. b - x \in S /\ \A y \in S : y <= b - x  BY <1>2, <1>3
<1> QED  BY <1>4

\* Histories, place by place.
LEMMA HistoryIs ==
    ASSUME NEW h \in Histories
    PROVE  /\ DOMAIN h \subseteq Nat
           /\ \A n \in DOMAIN h : h[n] \in Lines
           /\ DOMAIN h = {} => h = <<>>
<1>1. PICK D \in SUBSET Nat : h \in [D -> Lines]  BY DEF Histories
<1>2. DOMAIN h = {} => h = <<>>  BY <1>1
<1> QED  BY <1>1, <1>2

\* No number with a line is above the highest.
LEMMA HighestIs ==
    ASSUME ReplTypes
    PROVE  /\ HighestHistory \in Int /\ HighestHistory >= -1
           /\ \A n \in DOMAIN history : n <= HighestHistory
<1>1. history \in Histories /\ Bounded(history)  BY DEF ReplTypes
<1>2. DOMAIN history \subseteq Nat  BY <1>1, HistoryIs
<1>3. CASE history = <<>>
  <2>1. DOMAIN history = {}  BY <1>3
  <2> QED  BY <1>3, <2>1 DEF HighestHistory
<1>4. CASE history # <<>>
  <2>1. DOMAIN history # {}  BY <1>1, <1>4, HistoryIs
  <2>2. PICK b \in Nat : DOMAIN history \subseteq 0..b  BY <1>1 DEF Bounded
  <2>3. \E n \in DOMAIN history : \A k \in DOMAIN history : k <= n
    BY <2>1, <2>2, HighestOfBounded
  <2>4. /\ HighestHistory \in DOMAIN history
        /\ \A k \in DOMAIN history : k <= HighestHistory
    BY <1>4, <2>3 DEF HighestHistory
  <2> QED  BY <1>2, <2>4
<1> QED  BY <1>3, <1>4

\* One line more, or in place of another.
LEMMA SetLineIs ==
    ASSUME NEW h \in Histories, NEW n \in Nat, NEW l \in Lines
    PROVE  /\ SetLine(h, n, l) \in Histories
           /\ DOMAIN SetLine(h, n, l) = DOMAIN h \cup {n}
           /\ SetLine(h, n, l)[n] = l
           /\ \A k \in DOMAIN h \ {n} : SetLine(h, n, l)[k] = h[k]
           /\ Bounded(h) => Bounded(SetLine(h, n, l))
<1>1. DOMAIN h \subseteq Nat /\ \A k \in DOMAIN h : h[k] \in Lines  BY HistoryIs
<1> DEFINE D == DOMAIN h \cup {n}
<1>2. SetLine(h, n, l) \in [D -> Lines]  BY <1>1 DEF SetLine
<1>3. SetLine(h, n, l) \in Histories  BY <1>1, <1>2 DEF Histories
<1>4. ASSUME Bounded(h)  PROVE Bounded(SetLine(h, n, l))
  <2>1. PICK b \in Nat : DOMAIN h \subseteq 0..b  BY <1>4 DEF Bounded
  <2>2. D \subseteq 0..(b + n) /\ b + n \in Nat  BY <2>1
  <2>3. DOMAIN SetLine(h, n, l) = D  BY DEF SetLine
  <2> QED  BY <2>2, <2>3 DEF Bounded
<1> QED  BY <1>3, <1>4 DEF SetLine

\* Updates are added to what a tab has yet to handle.
LEMMA ToldPlaces ==
    ASSUME NEW q \in Seq(Updates), NEW u \in Seq(Updates)
    PROVE  /\ q \o u \in Seq(Updates)
           /\ Len(q) \in Nat /\ Len(u) \in Nat
           /\ DOMAIN q = 1..Len(q) /\ DOMAIN u = 1..Len(u)
           /\ DOMAIN (q \o u) = 1..(Len(q) + Len(u))
           /\ \A i \in 1..Len(q) : (q \o u)[i] = q[i]
           /\ \A i \in 1..Len(u) : (q \o u)[Len(q) + i] = u[i]
OBVIOUS

\* A tab that is told the line of n has it underway.
LEMMA IsTold ==
    ASSUME ReplTypes, NEW t \in Tabs, NEW u \in Seq(Updates), NEW n, NEW i \in DOMAIN u,
           socket'[t] = socket[t] \o u, u[i].number = n, u[i].line = history'[n],
           \A j \in DOMAIN u : j > i => u[j].number # n
    PROVE  Underway(t, n)'
<1>1. socket[t] \in Seq(Updates)  BY DEF ReplTypes
<1> DEFINE l == Len(socket[t])
<1>2. /\ l \in Nat /\ DOMAIN u = 1..Len(u) /\ Len(u) \in Nat
      /\ DOMAIN socket'[t] = 1..(l + Len(u))
      /\ \A k \in 1..Len(u) : socket'[t][l + k] = u[k]
  BY <1>1, ToldPlaces
<1> HIDE DEF l
<1>3. i \in Nat /\ l + i \in DOMAIN socket'[t] /\ socket'[t][l + i] = u[i]
  <2>1. i \in 1..Len(u)  BY <1>2
  <2>2. \A a, b \in Nat : \A k \in 1..b : k \in Nat /\ a + k \in 1..(a + b)  OBVIOUS
  <2> QED  BY <1>2, <2>1, <2>2
<1>4. ASSUME NEW j \in DOMAIN socket'[t], j > l + i  PROVE socket'[t][j].number # n
  <2>1. j - l \in DOMAIN u /\ j - l > i /\ j = l + (j - l)  BY <1>2, <1>3, <1>4
  <2>2. socket'[t][j] = u[j - l]  BY <2>1, <1>2
  <2> QED  BY <2>1, <2>2
<1> QED  BY <1>3, <1>4 DEF Underway

\* A tab that is told of other numbers only stands with n as before.
LEMMA IsNotTold ==
    ASSUME ReplTypes, NEW t \in Tabs, NEW u \in Seq(Updates), NEW n \in Nat,
           Underway(t, n) \/ Shows(t, n),
           history'[n] = history[n], socket'[t] = socket[t] \o u,
           rows'[t] = rows[t], next'[t] \in Nat, next'[t] >= next[t],
           \A j \in DOMAIN u : u[j].number # n
    PROVE  Underway(t, n)' \/ Shows(t, n)'
<1>1. socket[t] \in Seq(Updates) /\ next[t] \in Nat  BY DEF ReplTypes
<1> DEFINE l == Len(socket[t])
<1>2. /\ l \in Nat /\ DOMAIN u = 1..Len(u) /\ Len(u) \in Nat
      /\ DOMAIN socket[t] = 1..l
      /\ DOMAIN socket'[t] = 1..(l + Len(u))
      /\ \A k \in 1..l : socket'[t][k] = socket[t][k]
      /\ \A k \in 1..Len(u) : socket'[t][l + k] = u[k]
  BY <1>1, ToldPlaces
<1> HIDE DEF l
<1>3. ASSUME NEW j \in DOMAIN socket'[t], j \notin DOMAIN socket[t]
      PROVE  socket'[t][j].number # n
  <2>1. j - l \in DOMAIN u /\ j = l + (j - l)  BY <1>2, <1>3
  <2>2. socket'[t][j] = u[j - l]  BY <2>1, <1>2
  <2> QED  BY <2>1, <2>2
<1>4. CASE Underway(t, n)
  <2>1. PICK i \in DOMAIN socket[t] :
          /\ socket[t][i].number = n /\ socket[t][i].line = history[n]
          /\ \A j \in DOMAIN socket[t] : j > i => socket[t][j].number # n
    BY <1>4 DEF Underway
  <2>2. i \in DOMAIN socket'[t] /\ socket'[t][i] = socket[t][i]  BY <1>2
  <2>3. \A j \in DOMAIN socket'[t] : j > i => socket'[t][j].number # n
    BY <1>2, <1>3, <2>1
  <2> QED  BY <2>1, <2>2, <2>3 DEF Underway
<1>5. CASE Shows(t, n)
  <2>1. n < next'[t]  BY <1>1, <1>5 DEF Shows
  <2>2. \A j \in DOMAIN socket'[t] : socket'[t][j].number # n
    BY <1>2, <1>3, <1>5 DEF Shows
  <2> QED  BY <1>5, <2>1, <2>2 DEF Shows
<1> QED  BY <1>4, <1>5

\* Nothing is told, and the tab may hold more numbers for taken.
LEMMA NothingTold ==
    ASSUME ReplTypes, NEW t \in Tabs, NEW n,
           Underway(t, n) \/ Shows(t, n),
           UNCHANGED history, socket'[t] = socket[t],
           rows'[t] = rows[t], next'[t] \in Nat, next'[t] >= next[t], n \in Nat
    PROVE  Underway(t, n)' \/ Shows(t, n)'
<1>1. next[t] \in Nat  BY DEF ReplTypes
<1>2. ASSUME Shows(t, n)  PROVE Shows(t, n)'
  <2>1. n < next'[t]  BY <1>1, <1>2 DEF Shows
  <2> QED  BY <1>2, <2>1 DEF Shows
<1>3. Underway(t, n) => Underway(t, n)'  BY DEF Underway
<1> QED  BY <1>2, <1>3

\* The numbers of a history are naturals.
LEMMA NumbersOfHistory ==
    ASSUME ReplTypes
    PROVE  /\ DOMAIN history \subseteq Nat /\ \A n \in DOMAIN history : history[n] \in Lines
           /\ \A t \in Tabs : next[t] \in Nat /\ socket[t] \in Seq(Updates)
BY HistoryIs DEF ReplTypes

\* The kernel runs, and its history keeps its lines: a request it serves is none
\* of doEval or has its line there.
LEMMA RunKeeps ==
    ASSUME AnsweredInv, Keeps(history', history), UNCHANGED <<saved, saves, answered, dropped>>,
           \A c \in running' : c \in running \/ Evaluated(history', c)
    PROVE  AnsweredInv'
<1>1. \A g : Keeps(history, g) => Keeps(history', g)  BY DEF Keeps
<1>2. \A c : Evaluated(history, c) => Evaluated(history', c)  BY DEF Keeps, Evaluated, Has
<1>3. \A a \in answered' : Has(saved', a) \/ a \in dropped'  BY DEF AnsweredInv
<1>4. Keeps(history', saved')  BY <1>1 DEF AnsweredInv
<1>5. \A s \in saves' : Keeps(history', s.snap) /\ Evaluated(s.snap, s.call)
  BY <1>1 DEF AnsweredInv
<1>6. \A c \in running' : Evaluated(history', c)  BY <1>2 DEF AnsweredInv
<1>7. Keeps(history, saved)'  BY <1>4 DEF Keeps
<1>8. \A a \in answered' : Has(saved, a)' \/ a \in dropped'  BY <1>3 DEF Has
<1> QED  BY <1>5, <1>6, <1>7, <1>8 DEF AnsweredInv, Keeps, Evaluated, Has

\* Nothing of it changes.
LEMMA NothingRun ==
    ASSUME AnsweredInv, UNCHANGED <<history, saved, running, saves, answered, dropped>>
    PROVE  AnsweredInv'
BY RunKeeps DEF Keeps

\* A page connects, or a command is entered in it.
LEMMA PageAsks ==
    ASSUME ReplInv, NEW t \in Tabs, Open(t) \/ SubmitEval(t)
    PROVE  ReplInv'
<1>t. /\ ReplTypes /\ next[t] \in Nat /\ commands \in Nat /\ DOMAIN history \subseteq Nat
      /\ \A s \in Tabs : rows[s] \in Histories /\ next[s] \in Nat
  BY NumbersOfHistory DEF ReplInv, ReplTypes
<1>1. CASE Open(t)
  <2> DEFINE c == Call(t, "getHighestHistory", 0, 0)
  <2>1. /\ tab' = [tab EXCEPT ![t] = "asking"] /\ next' = [next EXCEPT ![t] = 0]
        /\ rows' = [rows EXCEPT ![t] = <<>>] /\ calls' = calls \cup {c}
        /\ UNCHANGED <<history, saved, running, saves, answered, dropped, socket, commands>>
    BY <1>1 DEF Open, NoRows
  <2>2. c \in Calls  BY DEF Call, Calls
  <2> HIDE DEF c
  <2>3. <<>> \in Histories
    <3>1. <<>> \in [{} -> Lines] /\ {} \in SUBSET Nat  OBVIOUS
    <3> QED  BY <3>1 DEF Histories
  <2>4. /\ tab'[t] = "asking" /\ rows'[t] = <<>>
        /\ \A s \in Tabs \ {t} : tab'[s] = tab[s] /\ next'[s] = next[s] /\ rows'[s] = rows[s]
        /\ tab' \in [Tabs -> {"closed", "asking", "ready"}] /\ next' \in [Tabs -> Nat]
        /\ rows' = [s \in Tabs |-> rows'[s]]
    BY <1>t, <2>1 DEF ReplTypes
  <2>5. ReplTypes'
    <3>1. \A s \in Tabs : rows'[s] \in Histories  BY <1>t, <2>3, <2>4
    <3>2. calls' \subseteq Calls  BY <1>t, <2>1, <2>2 DEF ReplTypes
    <3> QED  BY <1>t, <2>1, <2>4, <3>1, <3>2 DEF ReplTypes, Bounded
  <2>6. AnsweredInv'  BY <2>1, NothingRun DEF ReplInv
  <2>7. ASSUME NEW s \in Tabs, ~Behind(s)', NEW n \in DOMAIN history'
        PROVE  Underway(s, n)' \/ Shows(s, n)'
    <3>1. s # t  BY <2>4, <2>7 DEF Behind
    <3>2. ~Behind(s)  BY <2>1, <2>4, <2>7, <3>1 DEF Behind
    <3>3. Underway(s, n) \/ Shows(s, n)  BY <2>1, <2>7, <3>2 DEF ReplInv, TabsInv
    <3>4. /\ socket'[s] = socket[s] /\ rows'[s] = rows[s] /\ next'[s] = next[s]
          /\ n \in Nat /\ history' = history
      BY <1>t, <2>1, <2>4, <3>1
    <3>5. next'[s] \in Nat /\ next'[s] >= next[s]  BY <1>t, <3>4
    <3> QED  BY <1>t, <3>3, <3>4, <3>5, NothingTold
  <2>8. TabsInv'  BY <2>7 DEF TabsInv
  <2> QED  BY <2>5, <2>6, <2>8 DEF ReplInv
<1>2. CASE SubmitEval(t)
  <2> DEFINE c == Call(t, "doEval", next[t], commands + 1)
             l == Line(commands + 1, "sending for eval")
             r == SetLine(rows[t], next[t], l)
  <2>1. /\ commands' = commands + 1 /\ next' = [next EXCEPT ![t] = @ + 1]
        /\ rows' = [rows EXCEPT ![t] = r] /\ calls' = calls \cup {c}
        /\ UNCHANGED <<history, saved, running, saves, answered, dropped, tab, socket>>
    BY <1>2 DEF SubmitEval, ReplTypes
  <2>2. c \in Calls /\ c.type = "doEval"  BY <1>t DEF Call, Calls
  <2>3. l \in Lines  BY <1>t DEF Line, Lines
  <2> HIDE DEF c, l
  <2>4. /\ r \in Histories /\ DOMAIN r = DOMAIN rows[t] \cup {next[t]}
        /\ \A k \in DOMAIN rows[t] \ {next[t]} : r[k] = rows[t][k]
    <3> DEFINE h == rows[t]
               k0 == next[t]
    <3>1. h \in Histories /\ k0 \in Nat  BY <1>t
    <3> HIDE DEF h, k0
    <3>2. /\ SetLine(h, k0, l) \in Histories
          /\ DOMAIN SetLine(h, k0, l) = DOMAIN h \cup {k0}
          /\ \A k \in DOMAIN h \ {k0} : SetLine(h, k0, l)[k] = h[k]
      BY <2>3, <3>1, SetLineIs, SMTT(30)
    <3> QED  BY <3>2 DEF h, k0
  <2> HIDE DEF r
  <2>5. /\ rows'[t] = r /\ next'[t] = next[t] + 1
        /\ \A s \in Tabs \ {t} : next'[s] = next[s] /\ rows'[s] = rows[s]
        /\ next' \in [Tabs -> Nat]
        /\ rows' = [s \in Tabs |-> rows'[s]]
    BY <1>t, <2>1, SMTT(30) DEF ReplTypes
  <2>6. ReplTypes'
    <3>1. \A s \in Tabs : rows'[s] \in Histories  BY <1>t, <2>4, <2>5
    <3>2. calls' \subseteq Calls  BY <1>t, <2>1, <2>2 DEF ReplTypes
    <3>3. commands' \in Nat  BY <1>t, <2>1
    <3> QED  BY <1>t, <2>1, <2>5, <3>1, <3>2, <3>3 DEF ReplTypes, Bounded
  <2>7. AnsweredInv'  BY <2>1, NothingRun DEF ReplInv
  <2>8. ASSUME NEW s \in Tabs, ~Behind(s)', NEW n \in DOMAIN history'
        PROVE  Underway(s, n)' \/ Shows(s, n)'
    <3>1. ~Behind(s)  BY <2>1, <2>8 DEF Behind
    <3>2. Underway(s, n) \/ Shows(s, n)  BY <2>1, <2>8, <3>1 DEF ReplInv, TabsInv
    <3>3. socket' = socket /\ history' = history /\ n \in Nat  BY <1>t, <2>1
    <3>4. CASE s # t
      <4>1. rows'[s] = rows[s] /\ next'[s] = next[s]  BY <2>5, <3>4
      <4>2. next'[s] \in Nat /\ next'[s] >= next[s]  BY <1>t, <4>1
      <4>3. socket'[s] = socket[s]  BY <3>3
      <4> QED  BY <1>t, <3>2, <3>3, <4>1, <4>2, <4>3, NothingTold
    <3>5. CASE s = t /\ Underway(s, n)  BY <3>3, <3>5 DEF Underway
    \* The number the tab takes is none that it shows a line of.
    <3>6. CASE s = t /\ Shows(s, n)
      <4>1. n # next[t] /\ n < next'[t]  BY <1>t, <2>5, <3>3, <3>6 DEF Shows
      <4>2. n \in DOMAIN rows'[t] /\ rows'[t][n] = history[n]
        BY <2>4, <2>5, <3>6, <4>1 DEF Shows
      <4> QED  BY <3>3, <3>6, <4>1, <4>2 DEF Shows
    <3> QED  BY <3>2, <3>4, <3>5, <3>6
  <2>9. TabsInv'  BY <2>8 DEF TabsInv
  <2> QED  BY <2>6, <2>7, <2>9 DEF ReplInv
<1> QED  BY <1>1, <1>2

\* The page handles an update: the line of its number is then on the page, or
\* a later update for it is still to be handled.
LEMMA PageHandles ==
    ASSUME ReplInv, NEW t \in Tabs, HandleMessage(t)
    PROVE  ReplInv'
<1>t. /\ ReplTypes /\ next[t] \in Nat /\ DOMAIN history \subseteq Nat
      /\ \A s \in Tabs : rows[s] \in Histories /\ next[s] \in Nat
      /\ socket[t] \in Seq(Updates)
  BY NumbersOfHistory DEF ReplInv, ReplTypes
<1> DEFINE m == Head(socket[t])
           r == SetLine(rows[t], m.number, m.line)
<1>1. /\ socket[t] # <<>>
      /\ rows' = [rows EXCEPT ![t] = r]
      /\ next' = [next EXCEPT ![t] = Larger(@, m.number + 1)]
      /\ socket' = [socket EXCEPT ![t] = Tail(@)]
      /\ UNCHANGED <<history, saved, calls, running, saves, answered, dropped, tab, commands>>
  BY DEF HandleMessage
<1>2. /\ m = socket[t][1] /\ 1 \in DOMAIN socket[t] /\ m \in Updates
      /\ Tail(socket[t]) \in Seq(Updates)
      /\ DOMAIN socket[t] = 1..Len(socket[t]) /\ Len(socket[t]) \in Nat
      /\ \A i \in DOMAIN Tail(socket[t]) :
           i + 1 \in DOMAIN socket[t] /\ Tail(socket[t])[i] = socket[t][i + 1]
      /\ DOMAIN Tail(socket[t]) = 1..(Len(socket[t]) - 1)
  BY <1>t, <1>1, TailPlaces
<1> HIDE DEF m
<1>3. m.number \in Nat /\ m.line \in Lines  BY <1>2 DEF Updates
<1>4. /\ r \in Histories /\ DOMAIN r = DOMAIN rows[t] \cup {m.number} /\ r[m.number] = m.line
      /\ \A k \in DOMAIN rows[t] \ {m.number} : r[k] = rows[t][k]
  <2> DEFINE h == rows[t]
             k0 == m.number
             l == m.line
  <2>1. h \in Histories /\ k0 \in Nat /\ l \in Lines  BY <1>t, <1>3
  <2> HIDE DEF h, k0, l
  <2>2. /\ SetLine(h, k0, l) \in Histories
        /\ DOMAIN SetLine(h, k0, l) = DOMAIN h \cup {k0}
        /\ SetLine(h, k0, l)[k0] = l
        /\ \A k \in DOMAIN h \ {k0} : SetLine(h, k0, l)[k] = h[k]
    BY <2>1, SetLineIs, SMTT(30)
  <2> QED  BY <2>2 DEF h, k0, l
<1> HIDE DEF r
<1>5. /\ rows'[t] = r /\ socket'[t] = Tail(socket[t])
      /\ next'[t] = Larger(next[t], m.number + 1)
      /\ \A s \in Tabs \ {t} :
           next'[s] = next[s] /\ rows'[s] = rows[s] /\ socket'[s] = socket[s]
      /\ rows' = [s \in Tabs |-> rows'[s]]
  BY <1>t, <1>1 DEF ReplTypes
<1>6. next'[t] \in Nat /\ next'[t] >= next[t] /\ next'[t] > m.number
  BY <1>t, <1>3, <1>5 DEF Larger
<1>7. ReplTypes'
  <2>1. \A s \in Tabs : rows'[s] \in Histories  BY <1>t, <1>4, <1>5
  <2>2. next' \in [Tabs -> Nat]
    <3>1. next' = [s \in Tabs |-> next'[s]]  BY <1>t, <1>1 DEF ReplTypes
    <3>2. \A s \in Tabs : next'[s] \in Nat  BY <1>t, <1>5, <1>6
    <3> QED  BY <3>1, <3>2
  <2>3. socket' \in [Tabs -> Seq(Updates)]
    BY <1>t, <1>1, <1>2 DEF ReplTypes
  <2> QED  BY <1>t, <1>1, <1>5, <2>1, <2>2, <2>3 DEF ReplTypes, Bounded
<1>8. AnsweredInv'  BY <1>1, NothingRun DEF ReplInv
<1>9. ASSUME NEW s \in Tabs, ~Behind(s)', NEW n \in DOMAIN history'
      PROVE  Underway(s, n)' \/ Shows(s, n)'
  <2>1. ~Behind(s)  BY <1>1, <1>9 DEF Behind
  <2>2. Underway(s, n) \/ Shows(s, n)  BY <1>1, <1>9, <2>1 DEF ReplInv, TabsInv
  <2>3. history' = history /\ n \in Nat  BY <1>t, <1>1
  <2>4. CASE s # t
    <3>1. rows'[s] = rows[s] /\ next'[s] = next[s] /\ socket'[s] = socket[s]  BY <1>5, <2>4
    <3>2. next'[s] \in Nat /\ next'[s] >= next[s]  BY <1>t, <3>1
    <3> QED  BY <1>t, <2>2, <2>3, <3>1, <3>2, NothingTold
  <2>5. CASE s = t /\ Underway(t, n)
    <3>1. PICK i \in DOMAIN socket[t] :
            /\ socket[t][i].number = n /\ socket[t][i].line = history[n]
            /\ \A j \in DOMAIN socket[t] : j > i => socket[t][j].number # n
      BY <2>5 DEF Underway
    <3>2. CASE i = 1
      <4>1. m.number = n /\ m.line = history[n]  BY <1>2, <3>1, <3>2
      <4>2. \A j \in DOMAIN socket'[t] : socket'[t][j].number # n
        <5> TAKE j \in DOMAIN socket'[t]
        <5>1. j + 1 \in DOMAIN socket[t] /\ j + 1 > 1 /\ socket'[t][j] = socket[t][j + 1]
          BY <1>2, <1>5
        <5> QED  BY <3>1, <3>2, <5>1
      <4>3. n \in DOMAIN rows'[t] /\ rows'[t][n] = history'[n] /\ n < next'[t]
        BY <1>3, <1>4, <1>5, <1>6, <2>3, <4>1
      <4> QED  BY <2>5, <4>2, <4>3 DEF Shows
    <3>3. CASE i # 1
      <4>1. i - 1 \in DOMAIN socket'[t] /\ socket'[t][i - 1] = socket[t][i]
        BY <1>2, <1>5, <3>3
      <4>2. \A j \in DOMAIN socket'[t] : j > i - 1 => socket'[t][j].number # n
        <5> TAKE j \in DOMAIN socket'[t]
        <5>1. j + 1 \in DOMAIN socket[t] /\ socket'[t][j] = socket[t][j + 1]
          BY <1>2, <1>5
        <5>2. j > i - 1 => j + 1 > i  BY <1>2, <1>5
        <5> QED  BY <3>1, <5>1, <5>2
      <4> QED  BY <2>3, <2>5, <3>1, <4>1, <4>2 DEF Underway
    <3> QED  BY <3>2, <3>3
  <2>6. CASE s = t /\ Shows(t, n)
    <3>1. m.number # n  BY <1>2, <2>6 DEF Shows
    <3>2. n \in DOMAIN rows'[t] /\ rows'[t][n] = history'[n]
      BY <1>4, <1>5, <2>3, <2>6, <3>1 DEF Shows
    <3>3. n < next'[t]  BY <1>t, <1>6, <2>3, <2>6 DEF Shows
    <3>4. \A j \in DOMAIN socket'[t] : socket'[t][j].number # n
      BY <1>2, <1>5, <2>6 DEF Shows
    <3> QED  BY <2>6, <3>2, <3>3, <3>4 DEF Shows
  <2> QED  BY <2>2, <2>4, <2>5, <2>6
<1> QED  BY <1>7, <1>8, <1>9 DEF ReplInv, TabsInv

\* The connection of a tab is lost: what its posts do from then on is for none.
LEMMA PageCloses ==
    ASSUME ReplInv, NEW t \in Tabs, Close(t)
    PROVE  ReplInv'
<1>t. /\ ReplTypes /\ DOMAIN history \subseteq Nat
      /\ \A s \in Tabs : rows[s] \in Histories /\ next[s] \in Nat
  BY NumbersOfHistory DEF ReplInv, ReplTypes
<1>1. /\ tab' = [tab EXCEPT ![t] = "closed"] /\ socket' = [socket EXCEPT ![t] = <<>>]
      /\ calls' = {Orphan(c, t) : c \in calls} /\ running' = {Orphan(c, t) : c \in running}
      /\ saves' = {[s EXCEPT !.call = Orphan(@, t)] : s \in saves}
      /\ UNCHANGED <<history, saved, answered, dropped, next, rows, commands>>
  BY DEF Close
<1>2. ASSUME NEW c \in Calls
      PROVE  /\ Orphan(c, t) \in Calls
             /\ Orphan(c, t).type = c.type /\ Orphan(c, t).number = c.number
             /\ Orphan(c, t).cmd = c.cmd
             /\ c.tab # t => Orphan(c, t) = c
  BY DEF Orphan, Calls
<1>s. ASSUME NEW s \in Snapshots
      PROVE  /\ [s EXCEPT !.call = Orphan(@, t)] \in Snapshots
             /\ [s EXCEPT !.call = Orphan(@, t)].snap = s.snap
             /\ [s EXCEPT !.call = Orphan(@, t)].call = Orphan(s.call, t)
             /\ s.call \in Calls
  <2>1. s \in [call : Calls, snap : Histories] /\ Bounded(s.snap)  BY DEF Snapshots
  <2>2. Orphan(s.call, t) \in Calls  BY <2>1, <1>2
  <2> DEFINE o == [s EXCEPT !.call = Orphan(@, t)]
  <2>3. /\ o \in [call : Calls, snap : Histories]
        /\ o.snap = s.snap /\ o.call = Orphan(s.call, t)
    BY <2>1, <2>2
  <2>4. o \in Snapshots
    <3> HIDE DEF o
    <3> QED  BY <2>1, <2>3 DEF Snapshots
  <2> QED  BY <2>1, <2>3, <2>4
<1>3. ReplTypes'
  <2>1. calls' \subseteq Calls /\ running' \subseteq Calls  BY <1>t, <1>1, <1>2 DEF ReplTypes
  <2>3. saves' \subseteq Snapshots  BY <1>t, <1>1, <1>s DEF ReplTypes
  <2>2. /\ tab' \in [Tabs -> {"closed", "asking", "ready"}]
        /\ socket' \in [Tabs -> Seq(Updates)]
    BY <1>t, <1>1 DEF ReplTypes
  <2> QED  BY <1>t, <1>1, <2>1, <2>2, <2>3 DEF ReplTypes, Bounded
<1>4. AnsweredInv'
  <2>1. \A h : \A c \in Calls : Evaluated(h, c) => Evaluated(h, Orphan(c, t))
    BY <1>2 DEF Evaluated
  <2>2. \A c \in running' : Evaluated(history', c)
    BY <1>t, <1>1, <2>1 DEF ReplInv, ReplTypes, AnsweredInv
  <2>3. \A s \in saves' : Keeps(history', s.snap) /\ Evaluated(s.snap, s.call)
    <3> TAKE s \in saves'
    <3>1. PICK s0 \in saves : s = [s0 EXCEPT !.call = Orphan(@, t)]  BY <1>1
    <3>2. /\ s.snap = s0.snap /\ s.call = Orphan(s0.call, t) /\ s0.call \in Calls
      BY <1>t, <1>s, <3>1 DEF ReplTypes
    <3>3. Keeps(history, s0.snap) /\ Evaluated(s0.snap, s0.call)  BY DEF ReplInv, AnsweredInv
    <3> QED  BY <1>1, <2>1, <3>2, <3>3
  <2> QED  BY <1>1, <2>2, <2>3 DEF ReplInv, AnsweredInv, Keeps, Evaluated, Has
<1>5. ASSUME NEW s \in Tabs, ~Behind(s)', NEW n \in DOMAIN history'
      PROVE  Underway(s, n)' \/ Shows(s, n)'
  <2>1. tab'[t] = "closed"  BY <1>t, <1>1 DEF ReplTypes
  <2>2. s # t  BY <1>5, <2>1 DEF Behind
  <2>3. tab'[s] = tab[s] /\ socket'[s] = socket[s]  BY <1>t, <1>1, <2>2 DEF ReplTypes
  <2>4. ~Behind(s)
    <3>1. ASSUME NEW c \in calls, c.tab = s  PROVE c \in calls'
      <4>1. c = Orphan(c, t)  BY <1>t, <1>2, <2>2, <3>1 DEF ReplTypes
      <4> QED  BY <1>1, <4>1
    <3> QED  BY <1>5, <2>3, <3>1 DEF Behind
  <2>5. Underway(s, n) \/ Shows(s, n)  BY <1>1, <1>5, <2>4 DEF ReplInv, TabsInv
  <2>6. rows'[s] = rows[s] /\ next'[s] \in Nat /\ next'[s] >= next[s] /\ n \in Nat
    BY <1>t, <1>1
  <2> QED  BY <1>t, <1>1, <2>3, <2>5, <2>6, NothingTold
<1> QED  BY <1>3, <1>4, <1>5 DEF ReplInv, TabsInv

\* What the listener broadcasts reaches every tab that is connected.
LEMMA BroadcastIs ==
    ASSUME ReplTypes, NEW u \in Seq(Updates), Broadcast(u)
    PROVE  /\ socket' \in [Tabs -> Seq(Updates)]
           /\ \A t \in Tabs : tab[t] # "closed" => socket'[t] = socket[t] \o u
<1>1. \A t \in Tabs : socket[t] \o u \in Seq(Updates)  BY ToldPlaces DEF ReplTypes
<1> QED  BY <1>1 DEF Broadcast, ReplTypes

\* The line of one number is new, and connected tabs are told it last: they
\* stand with every number as they must.
LEMMA LineIsTold ==
    ASSUME ReplTypes, TabsInv, NEW n \in Nat, NEW l \in Lines, NEW u \in Seq(Updates),
           history' = SetLine(history, n, l), Broadcast(u),
           NEW i \in DOMAIN u, u[i] = Update(n, l),
           \A j \in DOMAIN u : u[j].number = n /\ j <= i,
           UNCHANGED <<tab, rows, next>>,
           \A c \in calls : c.type = "rebroadcastHistory" => c \in calls'
    PROVE  TabsInv'
<1>h. history \in Histories  BY DEF ReplTypes
<1>1. /\ DOMAIN history' = DOMAIN history \cup {n} /\ history'[n] = l
      /\ \A k \in DOMAIN history \ {n} : history'[k] = history[k]
  <2>1. /\ DOMAIN SetLine(history, n, l) = DOMAIN history \cup {n}
        /\ SetLine(history, n, l)[n] = l
        /\ \A k \in DOMAIN history \ {n} : SetLine(history, n, l)[k] = history[k]
    BY <1>h, SetLineIs, ZenonT(30)
  <2> QED  BY <2>1
<1> SUFFICES ASSUME NEW t \in Tabs, ~Behind(t)', NEW k \in DOMAIN history'
             PROVE  Underway(t, k)' \/ Shows(t, k)'
  BY DEF TabsInv
<1>2. ~Behind(t) /\ tab[t] # "closed"  BY DEF Behind
<1>3. socket'[t] = socket[t] \o u  BY <1>2, BroadcastIs
<1>4. DOMAIN history \subseteq Nat /\ next[t] \in Nat  BY NumbersOfHistory
<1>5. CASE k = n
  <2>1. u[i].number = n /\ u[i].line = history'[n]  BY <1>1 DEF Update
  <2>2. DOMAIN u = 1..Len(u) /\ Len(u) \in Nat  OBVIOUS
  <2>3. \A j \in DOMAIN u : j > i => u[j].number # n  BY <2>2
  <2>4. Underway(t, n)'  BY <1>3, <2>1, <2>3, IsTold
  <2> QED  BY <1>5, <2>4
<1>6. CASE k # n
  <2>1. k \in DOMAIN history /\ history'[k] = history[k] /\ k \in Nat  BY <1>1, <1>4, <1>6
  <2>2. Underway(t, k) \/ Shows(t, k)  BY <1>2, <2>1 DEF TabsInv
  <2>3. \A j \in DOMAIN u : u[j].number # k  BY <1>6
  <2>4. next'[t] \in Nat /\ next'[t] >= next[t] /\ rows'[t] = rows[t]  BY <1>4
  <2> QED  BY <1>3, <2>1, <2>2, <2>3, <2>4, IsNotTold
<1> QED  BY <1>5, <1>6

\* An evaluation gets a number that has no line; the file keeps what it has.
LEMMA EvalAt ==
    ASSUME ReplInv, NEW req \in calls, req.type = "doEval",
           NEW n \in Nat, req.number = n, n > HighestHistory,
           NEW l \in Lines, l.cmd = req.cmd, history' = SetLine(history, n, l),
           NEW u1 \in Updates, u1.number = n, Broadcast(<<u1, Update(n, l)>>),
           calls' = calls \ {req}, running' = running \cup {req},
           UNCHANGED <<saved, saves, answered, dropped, tab, next, rows, commands>>
    PROVE  ReplInv'
<1> DEFINE u == <<u1, Update(n, l)>>
<1>t. ReplTypes /\ req \in Calls /\ history \in Histories /\ Bounded(history)
  BY DEF ReplInv, ReplTypes
<1>1. Update(n, l) \in Updates /\ Update(n, l).number = n  BY DEF Update, Updates
<1>2. u \in Seq(Updates) /\ DOMAIN u = 1..2 /\ u[1] = u1 /\ u[2] = Update(n, l)  BY <1>1
<1>3. Broadcast(u)  OBVIOUS
<1> HIDE DEF u
<1>4. n \notin DOMAIN history
  <2>1. HighestHistory \in Int /\ \A x \in DOMAIN history : x <= HighestHistory
    BY <1>t, HighestIs
  <2> QED  BY <2>1
<1>5. /\ history' \in Histories /\ Bounded(history')
      /\ DOMAIN history' = DOMAIN history \cup {n} /\ history'[n] = l
      /\ \A k \in DOMAIN history \ {n} : history'[k] = history[k]
  <2>1. /\ SetLine(history, n, l) \in Histories /\ Bounded(SetLine(history, n, l))
        /\ DOMAIN SetLine(history, n, l) = DOMAIN history \cup {n}
        /\ SetLine(history, n, l)[n] = l
        /\ \A x \in DOMAIN history \ {n} : SetLine(history, n, l)[x] = history[x]
    BY <1>t, SetLineIs
  <2>2. Bounded(SetLine(history, n, l)) => Bounded(history')  BY DEF Bounded
  <2> QED  BY <2>1, <2>2
<1>6. ReplTypes'
  <2>1. socket' \in [Tabs -> Seq(Updates)]  BY <1>t, <1>2, <1>3, BroadcastIs
  <2>2. calls' \subseteq Calls /\ running' \subseteq Calls  BY <1>t DEF ReplTypes
  <2> QED  BY <1>t, <1>5, <2>1, <2>2 DEF ReplTypes, Bounded
<1>7. AnsweredInv'
  <2>1. Keeps(history', history)  BY <1>4, <1>5 DEF Keeps
  <2>2. Evaluated(history', req)  BY <1>5 DEF Evaluated, Has
  <2> QED  BY <2>1, <2>2, RunKeeps DEF ReplInv
<1>8. TabsInv'
  <2>1. \A j \in DOMAIN u : u[j].number = n /\ j <= 2
    <3> TAKE j \in DOMAIN u
    <3>1. j = 1 \/ j = 2  BY <1>2
    <3> QED  BY <1>1, <1>2, <3>1
  <2>2. \A c \in calls : c.type = "rebroadcastHistory" => c \in calls'  OBVIOUS
  <2>3. 2 \in DOMAIN u /\ u[2] = Update(n, l)  BY <1>2
  <2> QED  BY <1>t, <1>2, <1>3, <2>1, <2>2, <2>3, LineIsTold DEF ReplInv
<1> QED  BY <1>6, <1>7, <1>8 DEF ReplInv

\* An evaluation takes a new number and tells every tab of it.
LEMMA EvalKeeps ==
    ASSUME ReplInv, NEW req \in calls, DoEval(req)
    PROVE  ReplInv'
<1>1. PICK how \in {"done", "unresolved Promise"} :
        /\ history' = SetLine(history, req.number, Line(req.cmd, how))
        /\ Broadcast(<<Update(req.number, Line(req.cmd, "working on eval")),
                       Update(req.number, Line(req.cmd, how))>>)
  BY DEF DoEval
<1>2. /\ req.type = "doEval" /\ req.number > HighestHistory
      /\ calls' = calls \ {req} /\ running' = running \cup {req}
      /\ UNCHANGED <<saved, saves, answered, dropped, tab, next, rows, commands>>
  BY DEF DoEval, Serve, Run
<1>3. req \in Calls  BY DEF ReplInv, ReplTypes
<1>4. req.number \in Nat /\ req.cmd \in Nat  BY <1>3 DEF Calls
<1>5. /\ Line(req.cmd, how) \in Lines /\ Line(req.cmd, how).cmd = req.cmd
      /\ Line(req.cmd, "working on eval") \in Lines
  BY <1>4 DEF Line, Lines
<1>6. /\ Update(req.number, Line(req.cmd, "working on eval")) \in Updates
      /\ Update(req.number, Line(req.cmd, "working on eval")).number = req.number
  BY <1>4, <1>5 DEF Update, Updates
<1> QED  BY <1>1, <1>2, <1>4, <1>5, <1>6, EvalAt, Zenon

\* A promise resolves: the line shows its value under the same command.
LEMMA ResolveKeeps ==
    ASSUME ReplInv, NEW n \in DOMAIN history, ResolvePromise(n)
    PROVE  ReplInv'
<1>t. /\ ReplTypes /\ history \in Histories /\ Bounded(history)
      /\ n \in Nat /\ history[n] \in Lines
  BY NumbersOfHistory DEF ReplInv, ReplTypes
<1> DEFINE l == Line(history[n].cmd, "done")
           u == <<Update(n, l)>>
           c0 == Call("none", "inbound", n, 0)
<1>1. /\ history' = SetLine(history, n, l) /\ Broadcast(u)
      /\ running' = running \cup {c0}
      /\ UNCHANGED <<saved, saves, calls, answered, dropped, tab, next, rows, commands>>
  BY DEF ResolvePromise, Run
<1>2. l \in Lines /\ l.cmd = history[n].cmd  BY <1>t DEF Line, Lines
<1> HIDE DEF l
<1>3. Update(n, l) \in Updates /\ Update(n, l).number = n  BY <1>t, <1>2 DEF Update, Updates
<1>4. u \in Seq(Updates) /\ DOMAIN u = {1} /\ u[1] = Update(n, l)  BY <1>3
<1> HIDE DEF u
<1>5. /\ history' \in Histories /\ Bounded(history')
      /\ DOMAIN history' = DOMAIN history \cup {n} /\ history'[n] = l
      /\ \A k \in DOMAIN history \ {n} : history'[k] = history[k]
  <2>1. /\ SetLine(history, n, l) \in Histories /\ Bounded(SetLine(history, n, l))
        /\ DOMAIN SetLine(history, n, l) = DOMAIN history \cup {n}
        /\ SetLine(history, n, l)[n] = l
        /\ \A x \in DOMAIN history \ {n} : SetLine(history, n, l)[x] = history[x]
    BY <1>t, <1>1, <1>2, SetLineIs, ZenonT(30)
  <2>2. history' = SetLine(history, n, l)  BY <1>t, <1>1, <1>2
  <2>3. Bounded(SetLine(history, n, l)) => Bounded(history')  BY <2>2 DEF Bounded
  <2> QED  BY <2>1, <2>2, <2>3
<1>6. c0 \in Calls /\ c0.type = "inbound"  BY <1>t DEF Call, Calls
<1> HIDE DEF c0
<1>7. ReplTypes'
  <2>1. socket' \in [Tabs -> Seq(Updates)]  BY <1>t, <1>1, <1>4, BroadcastIs
  <2> QED  BY <1>t, <1>1, <1>5, <1>6, <2>1 DEF ReplTypes, Bounded
<1>8. AnsweredInv'
  <2>1. Keeps(history', history)  BY <1>2, <1>5 DEF Keeps
  <2>2. Evaluated(history', c0)  BY <1>6 DEF Evaluated
  <2> QED  BY <1>1, <2>1, <2>2, RunKeeps DEF ReplInv
<1>9. TabsInv'
  <2>1. \A j \in DOMAIN u : u[j].number = n /\ j <= 1  BY <1>3, <1>4
  <2>2. 1 \in DOMAIN u  BY <1>4
  <2> QED  BY <1>t, <1>1, <1>2, <1>4, <2>1, <2>2, LineIsTold DEF ReplInv
<1> QED  BY <1>7, <1>8, <1>9 DEF ReplInv

\* A rebroadcast tells a tab the line of every number.
LEMMA RebroadcastKeeps ==
    ASSUME ReplInv, NEW req \in calls, RebroadcastHistory(req)
    PROVE  ReplInv'
<1>t. /\ ReplTypes /\ history \in Histories /\ req \in Calls
      /\ DOMAIN history \subseteq Nat /\ \A k \in DOMAIN history : history[k] \in Lines
  BY NumbersOfHistory DEF ReplInv, ReplTypes
<1>h. /\ HighestHistory \in Int /\ HighestHistory >= -1
      /\ \A n \in DOMAIN history : n <= HighestHistory
  BY <1>t, HighestIs
<1>1. /\ req.type = "rebroadcastHistory"
      /\ calls' = calls \ {req} /\ running' = running \cup {req} /\ Broadcast(Slots)
      /\ UNCHANGED <<history, saved, saves, answered, dropped, tab, next, rows, commands>>
  BY DEF RebroadcastHistory, Serve, Run
<1> DEFINE top == HighestHistory + 1
<1>2. top \in Nat /\ \A n \in DOMAIN history : n + 1 \in 1..top  BY <1>t, <1>h
<1>3. Slots = [i \in 1..top |-> Update(i - 1, LineOf(i - 1))]  BY DEF Slots
<1> HIDE DEF top
<1>4. NoLine \in Lines  BY DEF NoLine, Line, Lines
<1>5. \A i \in 1..top : LineOf(i - 1) \in Lines  BY <1>t, <1>4 DEF LineOf
<1>6. \A i \in 1..top : Update(i - 1, LineOf(i - 1)) \in Updates
  <2> TAKE i \in 1..top
  <2>1. i - 1 \in Nat /\ LineOf(i - 1) \in Lines  BY <1>2, <1>5
  <2> QED  BY <2>1 DEF Update, Updates
<1>7. Slots \in Seq(Updates) /\ DOMAIN Slots = 1..top
  BY <1>2, <1>3, <1>6
<1>8. ASSUME NEW n \in DOMAIN history
      PROVE  /\ n + 1 \in DOMAIN Slots
             /\ Slots[n + 1].number = n /\ Slots[n + 1].line = history[n]
             /\ \A j \in DOMAIN Slots : j > n + 1 => Slots[j].number # n
  <2>1. n \in Nat /\ n + 1 \in 1..top /\ (n + 1) - 1 = n  BY <1>t, <1>2
  <2>2. LineOf(n) = history[n]  BY DEF LineOf
  <2>3. Slots[n + 1] = Update(n, history[n])  BY <1>3, <2>1, <2>2
  <2>4. \A j \in 1..top : Slots[j].number = j - 1  BY <1>3 DEF Update
  <2> QED  BY <1>2, <1>7, <2>1, <2>3, <2>4 DEF Update
<1>9. ReplTypes'
  <2>1. socket' \in [Tabs -> Seq(Updates)]  BY <1>t, <1>1, <1>7, BroadcastIs
  <2>2. calls' \subseteq Calls /\ running' \subseteq Calls  BY <1>t, <1>1 DEF ReplTypes
  <2> QED  BY <1>t, <1>1, <2>1, <2>2 DEF ReplTypes, Bounded
<1>10. AnsweredInv'
  <2>1. Keeps(history', history) /\ Evaluated(history', req)  BY <1>1 DEF Keeps, Evaluated
  <2> QED  BY <1>1, <2>1, RunKeeps DEF ReplInv
<1>11. ASSUME NEW t \in Tabs, ~Behind(t)', NEW n \in DOMAIN history'
       PROVE  Underway(t, n)'
  <2>1. tab[t] # "closed" /\ n \in DOMAIN history /\ history' = history
    BY <1>1, <1>11 DEF Behind
  <2>2. socket'[t] = socket[t] \o Slots  BY <1>t, <1>1, <1>7, <2>1, BroadcastIs
  <2>3. /\ n + 1 \in DOMAIN Slots
        /\ Slots[n + 1].number = n /\ Slots[n + 1].line = history'[n]
        /\ \A j \in DOMAIN Slots : j > n + 1 => Slots[j].number # n
    BY <1>8, <2>1
  <2> DEFINE i == n + 1
             u == Slots
  <2>4. /\ u \in Seq(Updates) /\ i \in DOMAIN u /\ socket'[t] = socket[t] \o u
        /\ u[i].number = n /\ u[i].line = history'[n]
        /\ \A j \in DOMAIN u : j > i => u[j].number # n
    BY <1>7, <2>2, <2>3
  <2> HIDE DEF i, u
  <2> QED  BY <1>t, <2>4, IsTold
<1> QED  BY <1>9, <1>10, <1>11 DEF ReplInv, TabsInv

\* A request that leaves history and pages alone: an evaluation that throws, or
\* the question for the highest number.
LEMMA QuietKeeps ==
    ASSUME ReplInv, NEW req \in calls, DoEvalThrows(req) \/ GetHighestHistory(req)
    PROVE  ReplInv'
<1>t. ReplTypes /\ req \in Calls /\ DOMAIN history \subseteq Nat
  BY NumbersOfHistory DEF ReplInv, ReplTypes
<1>h. HighestHistory + 1 \in Nat  BY <1>t, HighestIs
<1> DEFINE refused == [req EXCEPT !.type = "refused"]
           asked == [req EXCEPT !.number = HighestHistory + 1]
<1>o. PICK past \in Calls :
        /\ past.type # "doEval" /\ calls' = calls \ {req} /\ running' = running \cup {past}
        /\ req.type # "rebroadcastHistory"
        /\ UNCHANGED <<history, saved, saves, answered, dropped, tab, next, rows, socket, commands>>
  <2>1. refused \in Calls /\ refused.type = "refused"  BY <1>t DEF Calls
  <2>2. asked \in Calls /\ asked.type = req.type  BY <1>t, <1>h DEF Calls
  <2>3. CASE DoEvalThrows(req)
    <3>1. /\ req.type = "doEval" /\ calls' = calls \ {req}
          /\ running' = running \cup {refused}
          /\ UNCHANGED <<history, saved, saves, answered, dropped, tab, next, rows, socket,
                         commands>>
      BY <2>3 DEF DoEvalThrows, Serve, Run
    <3> HIDE DEF refused
    <3> QED  BY <2>1, <3>1
  <2>4. CASE GetHighestHistory(req)
    <3>1. /\ req.type = "getHighestHistory" /\ calls' = calls \ {req}
          /\ running' = running \cup {asked}
          /\ UNCHANGED <<history, saved, saves, answered, dropped, tab, next, rows, socket,
                         commands>>
      BY <2>4 DEF GetHighestHistory, Serve, Run
    <3> HIDE DEF asked
    <3> QED  BY <2>2, <3>1
  <2> QED  BY <2>3, <2>4
<1>1. /\ req.type # "rebroadcastHistory"
      /\ calls' = calls \ {req} /\ running' = running \cup {past}
      /\ UNCHANGED <<history, saved, saves, answered, dropped, tab, next, rows, socket, commands>>
  BY <1>o
<1>2. ReplTypes'
  <2>1. calls' \subseteq Calls /\ running' \subseteq Calls  BY <1>t, <1>1 DEF ReplTypes
  <2> QED  BY <1>t, <1>1, <2>1 DEF ReplTypes, Bounded
<1>3. AnsweredInv'
  <2>1. Keeps(history', history) /\ Evaluated(history', past)
    BY <1>o, <1>1 DEF Keeps, Evaluated
  <2> QED  BY <1>1, <2>1, RunKeeps DEF ReplInv
<1>4. ASSUME NEW t \in Tabs, ~Behind(t)', NEW n \in DOMAIN history'
      PROVE  Underway(t, n)' \/ Shows(t, n)'
  <2>1. ~Behind(t)  BY <1>1, <1>4 DEF Behind
  <2>2. Underway(t, n) \/ Shows(t, n)  BY <1>1, <1>4, <2>1 DEF ReplInv, TabsInv
  <2> QED  BY <1>1, <2>2 DEF Underway, Shows
<1> QED  BY <1>2, <1>3, <1>4 DEF ReplInv, TabsInv

\* The kernel is done with a request, and the snapshot is what the vat has.
LEMMA TakeSnapshotKeeps ==
    ASSUME ReplInv, NEW c \in running, TakeSnapshot(c)
    PROVE  ReplInv'
<1>t. /\ ReplTypes /\ c \in Calls /\ history \in Histories /\ Bounded(history)
  BY DEF ReplInv, ReplTypes
<1> DEFINE s0 == [call |-> c, snap |-> history]
<1>1. /\ running' = running \ {c} /\ saves' = saves \cup {s0}
      /\ UNCHANGED <<history, saved, calls, answered, dropped, tab, next, rows, socket, commands>>
  BY DEF TakeSnapshot
<1>2. s0 \in Snapshots /\ s0.call = c /\ s0.snap = history  BY <1>t DEF Snapshots
<1> HIDE DEF s0
<1>3. ReplTypes'
  <2>1. saves' \subseteq Snapshots /\ running' \subseteq Calls  BY <1>t, <1>1, <1>2 DEF ReplTypes
  <2> QED  BY <1>t, <1>1, <2>1 DEF ReplTypes, Bounded
<1>4. AnsweredInv'
  <2>1. Keeps(history, s0.snap) /\ Evaluated(s0.snap, s0.call)
    BY <1>2 DEF ReplInv, AnsweredInv, Keeps
  <2> QED  BY <1>1, <2>1 DEF ReplInv, AnsweredInv, Keeps, Evaluated, Has
<1>5. TabsInv'  BY <1>1 DEF ReplInv, TabsInv, Behind, Underway, Shows
<1> QED  BY <1>3, <1>4, <1>5 DEF ReplInv

\* The state is saved and the request answered: a tab that now knows how far
\* the history goes has yet to be sent it.
LEMMA ReturnKeeps ==
    ASSUME ReplInv, NEW s \in saves, ReturnCommand(s)
    PROVE  ReplInv'
<1>t. /\ ReplTypes /\ DOMAIN history \subseteq Nat
      /\ s.call \in Calls /\ s.snap \in Histories /\ Bounded(s.snap)
      /\ \A t \in Tabs : next[t] \in Nat
  BY NumbersOfHistory DEF ReplInv, ReplTypes, Snapshots
<1>b. PICK req \in Calls : req = s.call  BY <1>t
<1>n. req.number \in Nat  BY DEF Calls
<1> DEFINE c == Call(req.tab, "rebroadcastHistory", 0, 0)
           asked == req.type = "getHighestHistory" /\ req.tab \in Tabs
<1>1. /\ saved' = s.snap /\ saves' = saves \ {s}
      /\ answered' = IF req.type = "doEval" THEN answered \cup {<<req.number, req.cmd>>}
                                             ELSE answered
      /\ dropped' = {a \in dropped : ~Has(s.snap, a)}
                       \cup {a \in answered : Has(saved, a) /\ ~Has(s.snap, a)}
      /\ calls' = IF req.type = "getHighestHistory" THEN calls \cup {c} ELSE calls
      /\ IF asked
         THEN /\ next' = [next EXCEPT ![req.tab] = Larger(@, req.number)]
              /\ tab' = [tab EXCEPT ![req.tab] = "ready"]
         ELSE UNCHANGED <<next, tab>>
      /\ UNCHANGED <<history, running, rows, socket, commands>>
  BY <1>b DEF ReturnCommand, SaveState
<1>2. c \in Calls /\ c.tab = req.tab /\ c.type = "rebroadcastHistory"
  BY DEF Call, Calls
<1> HIDE DEF c
<1>3. /\ next' \in [Tabs -> Nat] /\ \A t \in Tabs : next'[t] >= next[t]
      /\ tab' \in [Tabs -> {"closed", "asking", "ready"}]
      /\ \A t \in Tabs : tab'[t] = tab[t] \/ (asked /\ t = req.tab)
  <2>1. CASE ~asked
    <3>1. next' = next /\ tab' = tab  BY <1>1, <2>1
    <3> QED  BY <1>t, <3>1 DEF ReplTypes
  <2>2. CASE asked
    <3> DEFINE t0 == req.tab
               v == Larger(next[t0], req.number)
    <3>1. t0 \in Tabs /\ next' = [next EXCEPT ![t0] = v] /\ tab' = [tab EXCEPT ![t0] = "ready"]
      BY <1>1, <2>2
    <3>2. v \in Nat /\ v >= next[t0]
      <4>1. next[t0] \in Nat  BY <1>t, <3>1
      <4> QED  BY <1>n, <4>1 DEF Larger
    <3> HIDE DEF t0, v
    <3>3. /\ next' \in [Tabs -> Nat]
          /\ \A t \in Tabs : next'[t] = IF t = t0 THEN v ELSE next[t]
      BY <1>t, <3>1, <3>2 DEF ReplTypes
    <3>4. \A t \in Tabs : next'[t] >= next[t]  BY <1>t, <3>2, <3>3
    <3>5. /\ tab' \in [Tabs -> {"closed", "asking", "ready"}]
          /\ \A t \in Tabs \ {t0} : tab'[t] = tab[t]
      BY <1>t, <3>1 DEF ReplTypes
    <3> QED  BY <2>2, <3>3, <3>4, <3>5 DEF t0
  <2> QED  BY <2>1, <2>2
<1>4. ReplTypes'
  <2>1. calls' \subseteq Calls /\ running' \subseteq Calls /\ saves' \subseteq Snapshots
    BY <1>t, <1>1, <1>2 DEF ReplTypes
  <2>2. saved' \in Histories /\ Bounded(saved)'  BY <1>t, <1>1 DEF ReplTypes, Bounded
  <2>3. history' \in Histories /\ Bounded(history)'  BY <1>t, <1>1 DEF ReplTypes, Bounded
  <2> QED  BY <1>t, <1>1, <1>3, <2>1, <2>2, <2>3 DEF ReplTypes
<1>5. AnsweredInv'
  <2>1. \A a \in answered' : Has(s.snap, a) \/ a \in dropped'
    <3> SUFFICES ASSUME NEW a \in answered', ~Has(s.snap, a)  PROVE a \in dropped'
      OBVIOUS
    <3>1. Evaluated(s.snap, req)  BY <1>b DEF ReplInv, AnsweredInv
    <3>2. a \in answered  BY <1>1, <3>1 DEF Evaluated
    <3>3. Has(saved, a) \/ a \in dropped  BY <3>2 DEF ReplInv, AnsweredInv
    <3> QED  BY <1>1, <3>2, <3>3
  <2>2. Keeps(history, s.snap)  BY DEF ReplInv, AnsweredInv
  <2>3. saved' = s.snap /\ saves' \subseteq saves /\ UNCHANGED <<history, running>>  BY <1>1
  <2> QED  BY <2>1, <2>2, <2>3 DEF ReplInv, AnsweredInv, Keeps, Evaluated, Has
<1>6. ASSUME NEW t \in Tabs, ~Behind(t)', NEW n \in DOMAIN history'
      PROVE  Underway(t, n)' \/ Shows(t, n)'
  <2>1. ~(asked /\ t = req.tab)  BY <1>1, <1>2, <1>6 DEF Behind
  <2>2. tab'[t] = tab[t]  BY <1>3, <2>1
  <2>3. \A x \in calls : x \in calls'  BY <1>1
  <2>4. ~Behind(t)  BY <1>6, <2>2, <2>3 DEF Behind
  <2>5. Underway(t, n) \/ Shows(t, n)  BY <1>1, <1>6, <2>4 DEF ReplInv, TabsInv
  <2>6. next'[t] \in Nat /\ next'[t] >= next[t] /\ n \in Nat  BY <1>t, <1>1, <1>3
  <2>7. history' = history /\ socket'[t] = socket[t] /\ rows'[t] = rows[t]  BY <1>1
  <2> QED  BY <1>t, <2>5, <2>6, <2>7, NothingTold
<1> QED  BY <1>4, <1>5, <1>6 DEF ReplInv, TabsInv

\* A step of the REPL keeps all that is said of it.
LEMMA ReplStep ==
    ASSUME ReplInv, [Next]_vars
    PROVE  ReplInv'
<1>1. ASSUME NEW t \in Tabs, Open(t) \/ SubmitEval(t) \/ HandleMessage(t) \/ Close(t)
      PROVE  ReplInv'
  BY <1>1, PageAsks, PageHandles, PageCloses
<1>2. ASSUME NEW req \in calls,
             \/ DoEval(req) \/ DoEvalThrows(req)
             \/ GetHighestHistory(req) \/ RebroadcastHistory(req)
      PROVE  ReplInv'
  BY <1>2, EvalKeeps, QuietKeeps, RebroadcastKeeps
<1>3. ASSUME NEW n \in DOMAIN history, ResolvePromise(n)  PROVE ReplInv'
  BY <1>3, ResolveKeeps
<1>4. ASSUME NEW s \in saves, ReturnCommand(s)  PROVE ReplInv'
  BY <1>4, ReturnKeeps
<1>7. ASSUME NEW c \in running, TakeSnapshot(c)  PROVE ReplInv'
  BY <1>7, TakeSnapshotKeeps
<1>5. CASE Crash
  <2>1. /\ history' = saved /\ calls' = {} /\ running' = {} /\ saves' = {}
        /\ tab' = [t \in Tabs |-> "closed"] /\ socket' = [t \in Tabs |-> <<>>]
        /\ UNCHANGED <<saved, answered, dropped, next, rows, commands>>
    BY <1>5 DEF Crash
  <2>3. ReplTypes'
    <3>1. socket' \in [Tabs -> Seq(Updates)]  BY <2>1
    <3>2. history' \in Histories /\ Bounded(history)' /\ saved' \in Histories /\ Bounded(saved)'
      BY <2>1 DEF ReplInv, ReplTypes, Bounded
    <3> QED  BY <2>1, <3>1, <3>2 DEF ReplInv, ReplTypes
  <2>4. Keeps(history', saved')  BY <2>1 DEF Keeps
  <2>5. Keeps(history, saved)'  BY <2>4 DEF Keeps
  <2>6. AnsweredInv'  BY <2>1, <2>5 DEF ReplInv, AnsweredInv, Has
  <2>7. TabsInv'  BY <2>1 DEF TabsInv, Behind
  <2> QED  BY <2>3, <2>6, <2>7 DEF ReplInv
<1>6. CASE UNCHANGED vars
  <2>1. UNCHANGED <<history, saved, calls, running, saves, answered, dropped, tab, next, rows,
                    socket, commands>>
    BY <1>6 DEF vars
  <2>2. ReplTypes'  BY <2>1 DEF ReplInv, ReplTypes, Bounded
  <2>3. AnsweredInv'  BY <2>1, NothingRun DEF ReplInv
  <2>4. TabsInv'  BY <2>1 DEF ReplInv, TabsInv, Behind, Underway, Shows
  <2> QED  BY <2>2, <2>3, <2>4 DEF ReplInv
<1> QED
  BY <1>1, <1>2, <1>3, <1>4, <1>5, <1>6, <1>7 DEF Next

\* Initially no tab is open and nothing was evaluated.
LEMMA ReplStart ==
    ASSUME Init
    PROVE  ReplInv
<1>1. /\ history = <<>> /\ saved = <<>> /\ calls = {} /\ running = {} /\ saves = {}
      /\ answered = {}
      /\ tab = [t \in Tabs |-> "closed"] /\ next = [t \in Tabs |-> 0]
      /\ rows = [t \in Tabs |-> <<>>] /\ socket = [t \in Tabs |-> <<>>]
      /\ commands = 0
  BY DEF Init, NoRows
<1>2. <<>> \in Histories
  <2>1. <<>> \in [{} -> Lines] /\ {} \in SUBSET Nat  OBVIOUS
  <2> QED  BY <2>1 DEF Histories
<1>3. Bounded(history) /\ Bounded(saved)
  <2>1. 0 \in Nat /\ DOMAIN history \subseteq 0..0 /\ DOMAIN saved \subseteq 0..0  BY <1>1
  <2> QED  BY <2>1 DEF Bounded
<1>5. ReplTypes
  <2>1. socket \in [Tabs -> Seq(Updates)]  BY <1>1
  <2>2. next \in [Tabs -> Nat]  BY <1>1
  <2> QED  BY <1>1, <1>2, <1>3, <2>1, <2>2 DEF ReplTypes
<1>6. AnsweredInv  BY <1>1 DEF AnsweredInv, Keeps
<1>7. TabsInv  BY <1>1 DEF TabsInv, Behind
<1> QED  BY <1>5, <1>6, <1>7 DEF ReplInv

\* For any number of tabs, commands, requests served together, lost connections
\* and crashes: an evaluation whose request was answered keeps its number and its
\* command, unless the rename of an older snapshot took it out of the state file
\* (vats/repl.js doEval, start.js deliverInboundCommand and its TODO).
THEOREM AnsweredStaysAnswered == MCSpec => []AnsweredStays
<1>1. MCInit => ReplInv  BY ReplStart DEF MCInit, EdgesInit
<1>2. ReplInv /\ [MCNext]_mcVars => ReplInv'  BY EachPart, ReplStep
<1>3. ReplInv => AnsweredStays
  BY DEF ReplInv, AnsweredInv, Keeps, Has, AnsweredStays
<1> QED  BY <1>1, <1>2, <1>3, PTL DEF MCSpec, mcVars

\* For any number of tabs, commands, lost connections and crashes: when nothing
\* is on its way, a connected page shows every evaluation as the vat has it
\* (html/main.js updateHistory, vats/repl.js).
THEOREM TabsComeToAgree == MCSpec => []TabsAgree
<1>1. MCInit => ReplInv  BY ReplStart DEF MCInit, EdgesInit
<1>2. ReplInv /\ [MCNext]_mcVars => ReplInv'  BY EachPart, ReplStep
<1>3. ReplInv => TabsAgree
  <2> SUFFICES ASSUME ReplInv, calls = {}, NEW t \in Tabs, tab[t] = "ready", socket[t] = <<>>,
                      NEW n \in DOMAIN history
               PROVE  n \in DOMAIN rows[t] /\ rows[t][n] = history[n]
    BY DEF TabsAgree
  <2>1. ~Behind(t)  BY DEF Behind
  <2>2. Underway(t, n) \/ Shows(t, n)  BY <2>1 DEF ReplInv, TabsInv
  <2>3. ~Underway(t, n)  BY DEF Underway
  <2> QED  BY <2>2, <2>3 DEF Shows
<1> QED  BY <1>1, <1>2, <1>3, PTL DEF MCSpec, mcVars

-----------------------------------------------------------------------------
(* Canvas. *)

Unpainted == Gallery!None
Painted == Gallery!States \ {Unpainted}
Canvases == Painted \cup {Unpainted}

CanvasTypes ==
    /\ lastPublished \in Canvases /\ canvasState \in Canvases
    /\ notifications \in Seq(Painted) /\ pageSocket \in Seq(Painted)
    /\ runs \in 0..MaxRuns
    /\ call \in [1..MaxRuns -> {"none", "asks", "answered", "heard"}]
    /\ answer \in [1..MaxRuns -> Canvases]
    /\ oldState \in [1..MaxRuns -> Canvases]

\* The run that is connected has begun, later ones have not.
RunsInv ==
    /\ open => runs \in 1..MaxRuns
    /\ ~open => pageSocket = <<>>
    /\ \A r \in 1..MaxRuns : r > runs => call[r] = "none" /\ oldState[r] = Unpainted

\* What comes last at the HTTP vat, once it has all, is what was published last.
SoloInv ==
    IF ~subscribed THEN notifications = <<>> /\ canvasState = Unpainted
    ELSE IF notifications = <<>> THEN canvasState = lastPublished
    ELSE notifications[Len(notifications)] = lastPublished

\* And what comes last at the page is what the vat has, unless the page has
\* had no broadcast yet and still gets its answer, or an answer came late.
PageInv ==
    /\ runs # 0 /\ late # "old" /\ oldState[runs] # Unpainted => shown = oldState[runs]
    /\ open /\ pageSocket # <<>> => pageSocket[Len(pageSocket)] = canvasState
    /\ open /\ pageSocket = <<>> =>
         /\ oldState[runs] # Unpainted /\ late = "no" => oldState[runs] = canvasState
         /\ oldState[runs] = Unpainted =>
              /\ call[runs] = "answered" => answer[runs] = canvasState
              /\ call[runs] = "heard" => canvasState = Unpainted

CanvasInv == CanvasTypes /\ RunsInv /\ SoloInv /\ PageInv

\* What is published is a canvas, and never the empty one.
LEMMA PublishedIsPainted ==
    ASSUME CanvasTypes, NEW m \in Gallery!States, m # lastPublished
    PROVE  m \in Painted
<1> SUFFICES ASSUME m = <<>>  PROVE FALSE  BY DEF Painted, Unpainted, Gallery!None
<1>1. Pixels = {}  BY DEF Gallery!States
<1>2. lastPublished = <<>>
  BY <1>1 DEF CanvasTypes, Canvases, Painted, Unpainted, Gallery!States, Gallery!None
<1> QED  BY <1>2

\* A state that is painted over what a run takes for shown is shown, if that
\* was shown or the run has shown nothing.
LEMMA UpdateShows ==
    ASSUME CanvasTypes, NEW r \in 1..MaxRuns, NEW state \in Painted,
           Gallery!UpdateCanvas(r, state)
    PROVE  /\ oldState' \in [1..MaxRuns -> Canvases]
           /\ oldState'[r] = state
           /\ \A q \in 1..MaxRuns \ {r} : oldState'[q] = oldState[q]
           /\ oldState[r] = Unpainted \/ shown = oldState[r] => shown' = state
<1>1. oldState' = [oldState EXCEPT ![r] = state]
  BY DEF Gallery!UpdateCanvas, Gallery!SetOldState
<1>2. oldState \in [1..MaxRuns -> Canvases] /\ state \in Canvases
  BY DEF CanvasTypes, Canvases
<1>3. ASSUME oldState[r] = Unpainted  PROVE  shown' = state
  BY <1>3 DEF Gallery!UpdateCanvas, Unpainted
<1>4. ASSUME oldState[r] # Unpainted, shown = oldState[r]  PROVE  shown' = state
  <2>1. shown' = [p \in Pixels |-> IF state[p] # oldState[r][p] THEN state[p] ELSE shown[p]]
    BY <1>4 DEF Gallery!UpdateCanvas, Unpainted
  <2>2. state \in [Pixels -> Colors]  BY DEF Painted, Gallery!States
  <2> QED  BY <2>1, <2>2, <1>4
<1> QED  BY <1>1, <1>2, <1>3, <1>4

\* The last of a sequence is the last of its tail, or its one element.
LEMMA TailLasts ==
    ASSUME NEW S, NEW q \in Seq(S), q # <<>>
    PROVE  /\ Tail(q) = <<>> => Len(q) = 1
           /\ Tail(q) # <<>> => Tail(q)[Len(Tail(q))] = q[Len(q)]
<1>1. Tail(q) # <<>> => Tail(q)[Len(Tail(q))] = q[Len(q)]  OBVIOUS
<1>2. ASSUME Len(q) # 1  PROVE Tail(q) # <<>>
  <2>1. 1 \in DOMAIN Tail(q)
    <3>1. DOMAIN Tail(q) = 1..(Len(q) - 1) /\ Len(q) \in Nat  BY TailPlaces
    <3>2. Len(q) # 0  BY EmptySeq
    <3>3. \A n \in Nat : n # 0 /\ n # 1 => 1 \in 1..(n - 1)  OBVIOUS
    <3> QED  BY <1>2, <3>1, <3>2, <3>3, Zenon
  <2>2. DOMAIN <<>> = {}  OBVIOUS
  <2> QED  BY <2>1, <2>2, Zenon
<1> QED  BY <1>1, <1>2

\* The publisher and the subscription.
LEMMA PublisherKeeps ==
    ASSUME CanvasInv, (\E m \in Gallery!States : Gallery!Publish(m)) \/ Gallery!Subscribe
    PROVE  CanvasInv'
<1>1. UNCHANGED <<canvasState, open, runs, call, answer, pageSocket, oldState, shown, late>>
  BY DEF Gallery!Publish, Gallery!Subscribe, Gallery!pageVars
<1>2. PageInv' /\ RunsInv'  BY <1>1 DEF CanvasInv, PageInv, RunsInv
<1>3. ASSUME NEW m \in Gallery!States, Gallery!Publish(m)  PROVE CanvasTypes' /\ SoloInv'
  <2>1. m \in Painted  BY <1>3, PublishedIsPainted DEF CanvasInv, Gallery!Publish
  <2>2. notifications \in Seq(Painted)  BY DEF CanvasInv, CanvasTypes
  <2>3. lastPublished' = m /\ subscribed' = subscribed
    BY <1>3 DEF Gallery!Publish
  <2>4. CASE subscribed
    <3>1. notifications' = Append(notifications, m)  BY <1>3, <2>4 DEF Gallery!Publish
    <3>2. notifications' \in Seq(Painted) /\ Len(notifications') = Len(notifications) + 1
          /\ notifications'[Len(notifications) + 1] = m /\ notifications' # <<>>
      BY <2>1, <2>2, <3>1, AppendPlaces
    <3> QED
      BY <1>1, <2>1, <2>3, <2>4, <3>2 DEF CanvasInv, CanvasTypes, SoloInv, Canvases
  <2>5. CASE ~subscribed
    <3>1. notifications' = notifications  BY <1>3, <2>5 DEF Gallery!Publish
    <3> QED
      BY <1>1, <2>1, <2>3, <2>5, <3>1 DEF CanvasInv, CanvasTypes, SoloInv, Canvases
  <2> QED  BY <2>4, <2>5
<1>4. ASSUME Gallery!Subscribe  PROVE CanvasTypes' /\ SoloInv'
  <2>1. notifications = <<>> /\ canvasState = Unpainted /\ ~subscribed /\ subscribed'
        /\ lastPublished' = lastPublished
    BY <1>4 DEF CanvasInv, SoloInv, Gallery!Subscribe
  <2>2. CASE lastPublished = Unpainted
    <3>1. notifications' = notifications
      BY <1>4, <2>2 DEF Gallery!Subscribe, Unpainted
    <3> QED  BY <1>1, <2>1, <2>2, <3>1 DEF CanvasInv, CanvasTypes, SoloInv
  <2>3. CASE lastPublished # Unpainted
    <3>1. notifications' = Append(notifications, lastPublished)
      BY <1>4, <2>3 DEF Gallery!Subscribe, Unpainted
    <3>2. lastPublished \in Painted /\ notifications \in Seq(Painted)
      BY <2>3 DEF CanvasInv, CanvasTypes, Canvases
    <3>3. notifications' \in Seq(Painted) /\ Len(notifications') = Len(notifications) + 1
          /\ notifications'[Len(notifications) + 1] = lastPublished /\ notifications' # <<>>
      BY <3>1, <3>2, AppendPlaces
    <3> QED  BY <1>1, <2>1, <3>3 DEF CanvasInv, CanvasTypes, SoloInv
  <2> QED  BY <2>2, <2>3
<1> QED  BY <1>2, <1>3, <1>4 DEF CanvasInv

\* The vat takes a notification and tells the page of it.
LEMMA NotifyKeeps ==
    ASSUME CanvasInv, Gallery!Notify
    PROVE  CanvasInv'
<1> DEFINE c == Head(notifications)
<1>1. UNCHANGED <<lastPublished, subscribed, open, runs, call, answer, oldState, shown, late>>
      /\ notifications # <<>> /\ notifications' = Tail(notifications) /\ canvasState' = c
  BY DEF Gallery!Notify, Gallery!pageVars
<1>2. notifications \in Seq(Painted) /\ pageSocket \in Seq(Painted)
  BY DEF CanvasInv, CanvasTypes
<1>3. c \in Painted /\ notifications' \in Seq(Painted) /\ c = notifications[1]
  BY <1>1, <1>2
<1>4. subscribed  BY <1>1 DEF CanvasInv, SoloInv
<1>5. SoloInv'
  <2>1. CASE Tail(notifications) = <<>>
    <3>1. Len(notifications) = 1  BY <1>1, <1>2, <2>1, TailLasts
    <3> QED  BY <1>1, <1>3, <1>4, <2>1, <3>1 DEF CanvasInv, SoloInv
  <2>2. CASE Tail(notifications) # <<>>
    <3>1. Tail(notifications)[Len(Tail(notifications))] = notifications[Len(notifications)]
      BY <1>1, <1>2, <2>2, TailLasts
    <3> QED  BY <1>1, <1>4, <2>2, <3>1 DEF CanvasInv, SoloInv
  <2> QED  BY <2>1, <2>2
<1>6. CASE open
  <2>1. pageSocket' = Append(pageSocket, c)  BY <1>1, <1>6 DEF Gallery!Notify
  <2>2. pageSocket' \in Seq(Painted) /\ Len(pageSocket') = Len(pageSocket) + 1
        /\ pageSocket'[Len(pageSocket) + 1] = c /\ pageSocket' # <<>>
    BY <1>2, <1>3, <2>1, AppendPlaces
  <2>3. CanvasTypes'
    BY <1>1, <1>3, <2>2 DEF CanvasInv, CanvasTypes, Canvases
  <2>4. RunsInv' /\ PageInv'
    BY <1>1, <1>6, <2>2 DEF CanvasInv, RunsInv, PageInv
  <2> QED  BY <1>5, <2>3, <2>4 DEF CanvasInv
<1>7. CASE ~open
  <2>1. pageSocket' = pageSocket  BY <1>7 DEF Gallery!Notify
  <2>2. CanvasTypes'
    BY <1>1, <1>3, <2>1 DEF CanvasInv, CanvasTypes, Canvases
  <2>3. RunsInv' /\ PageInv'
    BY <1>1, <1>7, <2>1 DEF CanvasInv, RunsInv, PageInv
  <2> QED  BY <1>5, <2>2, <2>3 DEF CanvasInv
<1> QED  BY <1>6, <1>7

\* The page connects, disconnects, asks.
LEMMA ConnectionKeeps ==
    ASSUME CanvasInv,
           \/ Gallery!Open \/ Gallery!Close
           \/ \E r \in 1..MaxRuns : Gallery!GetCanvasState(r)
    PROVE  CanvasInv'
<1>1. UNCHANGED <<lastPublished, subscribed, notifications, canvasState, oldState, shown>>
  BY DEF Gallery!Open, Gallery!Close, Gallery!GetCanvasState
<1>2. SoloInv'  BY <1>1 DEF CanvasInv, SoloInv
<1>3. ASSUME Gallery!Open  PROVE CanvasInv'
  <2>1. ~open /\ open' /\ runs < MaxRuns /\ runs' = runs + 1 /\ late' = "no"
        /\ call' = [call EXCEPT ![runs'] = "asks"] /\ UNCHANGED <<answer, pageSocket>>
    BY <1>3 DEF Gallery!Open
  <2>2. runs' \in 1..MaxRuns /\ runs \in 0..MaxRuns
    BY <2>1, RunsAssumption DEF CanvasInv, CanvasTypes
  <2>3. CanvasTypes'  BY <1>1, <2>1, <2>2 DEF CanvasInv, CanvasTypes
  <2>4. pageSocket = <<>>  BY <2>1 DEF CanvasInv, RunsInv
  <2>5. RunsInv'
    BY <1>1, <2>1, <2>2, <2>4, RunsAssumption DEF CanvasInv, RunsInv, CanvasTypes
  <2>6. oldState[runs'] = Unpainted /\ call'[runs'] = "asks"
    BY <2>1, <2>2, RunsAssumption DEF CanvasInv, RunsInv, CanvasTypes
  <2>7. PageInv'  BY <1>1, <2>1, <2>4, <2>6 DEF PageInv
  <2> QED  BY <1>2, <2>3, <2>5, <2>7 DEF CanvasInv
<1>4. ASSUME Gallery!Close  PROVE CanvasInv'
  <2>1. ~open' /\ pageSocket' = <<>> /\ UNCHANGED <<runs, call, answer, late>>
    BY <1>4 DEF Gallery!Close
  <2>2. CanvasTypes'  BY <1>1, <2>1 DEF CanvasInv, CanvasTypes
  <2>3. RunsInv' /\ PageInv'  BY <1>1, <2>1 DEF CanvasInv, RunsInv, PageInv
  <2> QED  BY <1>2, <2>2, <2>3 DEF CanvasInv
<1>5. ASSUME NEW r \in 1..MaxRuns, Gallery!GetCanvasState(r)  PROVE CanvasInv'
  <2>1. call[r] = "asks" /\ call' = [call EXCEPT ![r] = "answered"]
        /\ answer' = [answer EXCEPT ![r] = canvasState]
        /\ UNCHANGED <<open, runs, pageSocket, late>>
    BY <1>5 DEF Gallery!GetCanvasState
  <2>2. CanvasTypes'  BY <1>1, <2>1 DEF CanvasInv, CanvasTypes
  <2>3. RunsInv'  BY <1>1, <2>1 DEF CanvasInv, RunsInv, CanvasTypes
  <2>4. PageInv'  BY <1>1, <2>1 DEF CanvasInv, PageInv, RunsInv, CanvasTypes
  <2> QED  BY <1>2, <2>2, <2>3, <2>4 DEF CanvasInv
<1> QED  BY <1>3, <1>4, <1>5

\* The page hears the answer to the request of one of its runs.
LEMMA AnswerKeeps ==
    ASSUME CanvasInv, NEW r \in 1..MaxRuns, Gallery!HearAnswer(r)
    PROVE  CanvasInv'
<1>1. UNCHANGED <<lastPublished, subscribed, notifications, canvasState, open, runs, answer,
                  pageSocket>>
      /\ call[r] = "answered" /\ call' = [call EXCEPT ![r] = "heard"]
  BY DEF Gallery!HearAnswer
<1>2. SoloInv'  BY <1>1 DEF CanvasInv, SoloInv
<1>3. r <= runs /\ runs \in 1..MaxRuns
  BY <1>1, RunsAssumption DEF CanvasInv, RunsInv, CanvasTypes
<1>4. call' \in [1..MaxRuns -> {"none", "asks", "answered", "heard"}]
  BY <1>1 DEF CanvasInv, CanvasTypes
<1>5. CASE answer[r] = Unpainted
  <2>1. UNCHANGED <<oldState, shown, late>>
    BY <1>5 DEF Gallery!HearAnswer, Unpainted
  <2>2. CanvasTypes'  BY <1>1, <1>4, <2>1 DEF CanvasInv, CanvasTypes
  <2>3. RunsInv'  BY <1>1, <2>1, <1>3 DEF CanvasInv, RunsInv, CanvasTypes
  <2>4. PageInv'
    BY <1>1, <1>3, <1>5, <2>1 DEF CanvasInv, PageInv, CanvasTypes
  <2> QED  BY <1>2, <2>2, <2>3, <2>4 DEF CanvasInv
<1>6. CASE answer[r] # Unpainted
  <2>1. Gallery!UpdateCanvas(r, answer[r])
        /\ late' = CASE r = runs /\ late = "no" /\ oldState[r] \notin {Unpainted, answer[r]} -> "mended"
                     [] r # runs /\ oldState[runs] # Unpainted -> "old"
                     [] OTHER -> late
    BY <1>6 DEF Gallery!HearAnswer, Unpainted
  <2>2. answer[r] \in Painted  BY <1>6 DEF CanvasInv, CanvasTypes, Canvases
  <2>3. /\ oldState' \in [1..MaxRuns -> Canvases]
        /\ oldState'[r] = answer[r]
        /\ \A q \in 1..MaxRuns \ {r} : oldState'[q] = oldState[q]
        /\ oldState[r] = Unpainted \/ shown = oldState[r] => shown' = answer[r]
    BY <2>1, <2>2, UpdateShows DEF CanvasInv
  <2>4. CanvasTypes'  BY <1>1, <1>4, <2>3 DEF CanvasInv, CanvasTypes
  <2>5. RunsInv'  BY <1>1, <1>3, <2>3 DEF CanvasInv, RunsInv, CanvasTypes
  <2>6. CASE r # runs
    <3>1. oldState'[runs] = oldState[runs] /\ call'[runs] = call[runs]
      BY <1>1, <1>3, <2>3, <2>6 DEF CanvasInv, CanvasTypes
    <3>2. late' = IF oldState[runs] # Unpainted THEN "old" ELSE late
      BY <2>1, <2>6
    <3>3. PageInv'  BY <1>1, <3>1, <3>2 DEF CanvasInv, PageInv
    <3> QED  BY <1>2, <2>4, <2>5, <3>3 DEF CanvasInv
  <2>7. CASE r = runs
    <3>1. late' = IF late = "no" /\ oldState[r] \notin {Unpainted, answer[r]} THEN "mended" ELSE late
      BY <2>1, <2>7
    <3>2. oldState'[runs] = answer[runs] /\ oldState'[runs] # Unpainted  BY <1>6, <2>3, <2>7
    <3>3. late' # "old" => shown' = oldState'[runs]
      <4>1. SUFFICES ASSUME late # "old"  PROVE shown' = answer[r]
        BY <2>7, <3>1, <3>2
      <4>2. oldState[r] = Unpainted \/ shown = oldState[r]
        BY <1>3, <2>7, <4>1 DEF CanvasInv, PageInv
      <4> QED  BY <4>2, <2>3
    <3>4. ASSUME open, pageSocket = <<>>, late' = "no"  PROVE answer[runs] = canvasState
      <4>1. late = "no" /\ oldState[runs] \in {Unpainted, answer[runs]}
        BY <2>7, <3>1, <3>4
      <4> QED  BY <1>1, <2>7, <3>4, <4>1 DEF CanvasInv, PageInv
    <3>5. PageInv'
      BY <1>1, <3>2, <3>3, <3>4 DEF CanvasInv, PageInv
    <3> QED  BY <1>2, <2>4, <2>5, <3>5 DEF CanvasInv
  <2> QED  BY <2>6, <2>7
<1> QED  BY <1>5, <1>6

\* The page handles a broadcast.
LEMMA MessageKeeps ==
    ASSUME CanvasInv, Gallery!HandleMessage
    PROVE  CanvasInv'
<1> DEFINE c == Head(pageSocket)
<1>1. /\ UNCHANGED <<lastPublished, subscribed, notifications, canvasState, open, runs, call,
                     answer>>
      /\ pageSocket # <<>> /\ pageSocket' = Tail(pageSocket)
      /\ Gallery!UpdateCanvas(runs, c)
      /\ late' = IF late = "mended" THEN "no" ELSE late
  BY DEF Gallery!HandleMessage
<1>2. pageSocket \in Seq(Painted)  BY DEF CanvasInv, CanvasTypes
<1>3. c \in Painted /\ pageSocket' \in Seq(Painted) /\ c = pageSocket[1]
  BY <1>1, <1>2
<1>4. open /\ runs \in 1..MaxRuns  BY <1>1 DEF CanvasInv, RunsInv
<1>5. /\ oldState' \in [1..MaxRuns -> Canvases]
      /\ oldState'[runs] = c
      /\ \A q \in 1..MaxRuns \ {runs} : oldState'[q] = oldState[q]
      /\ oldState[runs] = Unpainted \/ shown = oldState[runs] => shown' = c
  BY <1>1, <1>3, <1>4, UpdateShows DEF CanvasInv
<1>6. SoloInv'  BY <1>1 DEF CanvasInv, SoloInv
<1>7. CanvasTypes'  BY <1>1, <1>3, <1>5 DEF CanvasInv, CanvasTypes
<1>8. RunsInv'
  BY <1>1, <1>4, <1>5, RunsAssumption DEF CanvasInv, RunsInv
<1>9. late' # "old" => shown' = c
  <2>1. SUFFICES ASSUME late # "old"  PROVE shown' = c  BY <1>1
  <2> QED  BY <1>4, <1>5, <2>1 DEF CanvasInv, PageInv
<1>10. pageSocket' # <<>> => pageSocket'[Len(pageSocket')] = pageSocket[Len(pageSocket)]
  BY <1>1, <1>2, TailLasts
<1>11. pageSocket' = <<>> => c = pageSocket[Len(pageSocket)]
  <2>1. pageSocket' = <<>> => Len(pageSocket) = 1  BY <1>1, <1>2, TailLasts
  <2> QED  BY <1>3, <2>1
<1>12. pageSocket[Len(pageSocket)] = canvasState  BY <1>1, <1>4 DEF CanvasInv, PageInv
<1>13. c # Unpainted  BY <1>3 DEF Painted
<1> HIDE DEF c
<1>14. PageInv'
  BY <1>1, <1>5, <1>9, <1>10, <1>11, <1>12, <1>13 DEF PageInv
<1> QED  BY <1>6, <1>7, <1>8, <1>14 DEF CanvasInv

\* Every step of the canvas keeps its invariant.
LEMMA CanvasStep ==
    ASSUME CanvasInv, [Gallery!Next]_canvasVars
    PROVE  CanvasInv'
<1>1. CASE (\E m \in Gallery!States : Gallery!Publish(m)) \/ Gallery!Subscribe
  BY <1>1, PublisherKeeps
<1>2. CASE Gallery!Notify  BY <1>2, NotifyKeeps
<1>3. CASE \/ Gallery!Open \/ Gallery!Close
           \/ \E r \in 1..MaxRuns : Gallery!GetCanvasState(r)
  BY <1>3, ConnectionKeeps
<1>4. ASSUME NEW r \in 1..MaxRuns, Gallery!HearAnswer(r)  PROVE CanvasInv'
  BY <1>4, AnswerKeeps
<1>5. CASE Gallery!HandleMessage  BY <1>5, MessageKeeps
<1>6. CASE UNCHANGED canvasVars
  <2>1. CanvasTypes' /\ RunsInv' /\ SoloInv' /\ PageInv'
    BY <1>6 DEF canvasVars, CanvasInv, CanvasTypes, RunsInv, SoloInv, PageInv
  <2> QED  BY <2>1 DEF CanvasInv
<1> QED
  BY <1>1, <1>2, <1>3, <1>4, <1>5, <1>6 DEF Gallery!Next

\* Initially nothing is published and no page connected.
LEMMA CanvasStart ==
    ASSUME Gallery!Init
    PROVE  CanvasInv
<1>1. Unpainted \in Canvases  BY DEF Canvases
<1>2. CanvasTypes
  BY <1>1, RunsAssumption DEF Gallery!Init, CanvasTypes, Unpainted
<1>3. RunsInv /\ SoloInv /\ PageInv
  BY DEF Gallery!Init, RunsInv, SoloInv, PageInv, Unpainted
<1> QED  BY <1>2, <1>3 DEF CanvasInv

\* For any canvas, number of states and of connections: when nothing is on its
\* way, a connected page shows what was published last, unless its answer came
\* after a newer broadcast (vats/pubsub.js, vat-http.js, html/main.js
\* updateCanvas).
THEOREM PageShowsCanvas == MCSpec => []ShowsLastPublished
<1>1. MCInit => CanvasInv  BY CanvasStart DEF MCInit, EdgesInit
<1>2. CanvasInv /\ [MCNext]_mcVars => CanvasInv'  BY EachPart, CanvasStep
<1>3. CanvasInv => ShowsLastPublished
  <2> SUFFICES ASSUME CanvasInv, subscribed, lastPublished # Unpainted, notifications = <<>>,
                      open, call[runs] = "heard", pageSocket = <<>>, late = "no"
               PROVE  shown = lastPublished
    BY DEF ShowsLastPublished, Gallery!ShowsLastPublished, Unpainted
  <2>1. canvasState = lastPublished  BY DEF CanvasInv, SoloInv
  <2>2. oldState[runs] # Unpainted  BY <2>1 DEF CanvasInv, PageInv
  <2>3. runs # 0  BY DEF CanvasInv, RunsInv
  <2> QED  BY <2>1, <2>2, <2>3 DEF CanvasInv, PageInv
<1> QED  BY <1>1, <1>2, <1>3, PTL DEF MCSpec, mcVars

-----------------------------------------------------------------------------
(* Pledger. *)

HasPurse == {"sent", "done"}

PurseTypes ==
    /\ deposit \in [Deposits -> {"none", "asks", "makes", "sent", "done"}]
    /\ slot \in [Deposits -> Purses!Slots]
    /\ assayPurses \in [Purses!Slots -> SUBSET Deposits]
    /\ purse \in [Deposits -> SUBSET Deposits]
    /\ balance \in [Deposits -> Nat]
    /\ taken \in [Purses!Slots -> Nat]

\* A purse is of the account and assay of the deposit that asked for it, and
\* nothing is in it before it was made.
OwnPurses ==
    /\ \A d \in Deposits : deposit[d] \notin HasPurse => balance[d] = 0
    /\ \A d \in Deposits : deposit[d] = "sent" =>
         \E p \in Deposits : purse[d] = {p} /\ slot[p] = slot[d] /\ deposit[p] \in HasPurse
    /\ \A s \in Purses!Slots : assayPurses[s] # {} =>
         \E p \in Deposits : assayPurses[s] = {p} /\ slot[p] = s /\ deposit[p] \in HasPurse

\* An account for whose assay no two deposits asked at once has one purse from
\* its first deposit on.
OnePurse(s) ==
    /\ assayPurses[s] = {} =>
         taken[s] = 0 /\ \A d \in Deposits : slot[d] = s => deposit[d] \notin HasPurse
    /\ assayPurses[s] # {} =>
         \A d \in Deposits : slot[d] = s =>
            deposit[d] # "makes" /\ (deposit[d] = "sent" => purse[d] = assayPurses[s])
    /\ \A d, e \in Deposits :
         slot[d] = s /\ slot[e] = s /\ deposit[d] = "makes" /\ deposit[e] = "makes" => d = e

PurseInv ==
    /\ PurseTypes /\ OwnPurses
    /\ \A s \in Purses!Slots \ overlapped : OnePurse(s)
    /\ \A s \in Purses!Slots \ overlapped : Purses!Shown(s) + taken[s] = Purses!Paid(s)


\* What an account shows is what is in its purse.
LEMMA ShownIs ==
    ASSUME NEW s, NEW p, assayPurses[s] = {p}
    PROVE  Purses!Shown(s) = balance[p]
<1>1. (CHOOSE q \in {p} : TRUE) = p  OBVIOUS
<1> QED  BY <1>1 DEF Purses!Shown

\* Paid counts with the cardinality of the standard module.
LEMMA PaidIs ==
    ASSUME NEW s
    PROVE  Purses!Paid(s) = Cardinality({d \in Deposits : slot[d] = s /\ deposit[d] = "done"})
<1>1. \A S : Purses!Cardinality(S) = Cardinality(S)  BY DEF Purses!Cardinality, Cardinality
<1> QED  BY <1>1 DEF Purses!Paid

\* The same of the state that a step leads to.
LEMMA PaidIsNext ==
    ASSUME NEW s
    PROVE  Purses!Paid(s)' = Cardinality({d \in Deposits : slot'[d] = s /\ deposit'[d] = "done"})
<1>1. \A S : Purses!Cardinality(S) = Cardinality(S)  BY DEF Purses!Cardinality, Cardinality
<1> QED  BY <1>1 DEF Purses!Paid

\* Deposits that are under way but not done do not count as paid.
LEMMA PaidKept ==
    ASSUME slot' = slot,
           \A d \in Deposits : deposit'[d] = "done" <=> deposit[d] = "done",
           NEW s
    PROVE  Purses!Paid(s)' = Purses!Paid(s)
<1>1. {d \in Deposits : slot'[d] = s /\ deposit'[d] = "done"}
        = {d \in Deposits : slot[d] = s /\ deposit[d] = "done"}
  OBVIOUS
<1> QED  BY <1>1 DEF Purses!Paid

\* A deposit begins, or finds the purse of its account.
LEMMA DepositKeeps ==
    ASSUME PurseInv, NEW d \in Deposits, Purses!DepositAll(d) \/ Purses!UsePurse(d)
    PROVE  PurseInv'
<1>1. UNCHANGED <<slot, assayPurses, balance, taken, overlapped>>
  BY DEF Purses!DepositAll, Purses!UsePurse
<1>2. \A s \in Purses!Slots : Purses!Shown(s)' = Purses!Shown(s)
  BY <1>1 DEF Purses!Shown
<1>3. CASE Purses!DepositAll(d)
  <2>1. deposit[d] = "none" /\ deposit' = [deposit EXCEPT ![d] = "asks"] /\ purse' = purse
    BY <1>3 DEF Purses!DepositAll
  <2>2. \A s : Purses!Paid(s)' = Purses!Paid(s)
    BY <1>1, <2>1, PaidKept DEF PurseInv, PurseTypes
  <2>3. PurseTypes'  BY <1>1, <2>1 DEF PurseInv, PurseTypes
  <2>4. OwnPurses'  BY <1>1, <2>1 DEF PurseInv, PurseTypes, OwnPurses, HasPurse
  <2>5. \A s \in Purses!Slots \ overlapped : OnePurse(s)'
    BY <1>1, <2>1 DEF PurseInv, PurseTypes, OnePurse, HasPurse
  <2> QED  BY <1>1, <1>2, <2>2, <2>3, <2>4, <2>5 DEF PurseInv
<1>4. CASE Purses!UsePurse(d)
  <2>1. /\ deposit[d] = "asks" /\ deposit' = [deposit EXCEPT ![d] = "sent"]
        /\ assayPurses[slot[d]] # {}
        /\ purse' = [purse EXCEPT ![d] = assayPurses[slot[d]]]
    BY <1>4 DEF Purses!UsePurse
  <2>2. \A s : Purses!Paid(s)' = Purses!Paid(s)
    BY <1>1, <2>1, PaidKept DEF PurseInv, PurseTypes
  <2>3. PurseTypes'  BY <1>1, <2>1 DEF PurseInv, PurseTypes
  <2>4. OwnPurses'  BY <1>1, <2>1 DEF PurseInv, PurseTypes, OwnPurses, HasPurse
  <2>5. ASSUME NEW s \in Purses!Slots \ overlapped  PROVE OnePurse(s)'
    BY <1>1, <2>1 DEF PurseInv, PurseTypes, OnePurse, HasPurse
  <2> QED  BY <1>1, <1>2, <2>2, <2>3, <2>4, <2>5 DEF PurseInv
<1> QED  BY <1>3, <1>4

\* A deposit asks for a purse; a second one that does so overlaps.
LEMMA MakeEmptyPurseKeeps ==
    ASSUME PurseInv, NEW d \in Deposits, Purses!MakeEmptyPurse(d)
    PROVE  PurseInv'
<1>1. /\ UNCHANGED <<slot, assayPurses, purse, balance, taken>>
      /\ deposit[d] = "asks" /\ assayPurses[slot[d]] = {}
      /\ deposit' = [deposit EXCEPT ![d] = "makes"]
      /\ overlapped' = overlapped \cup {s \in {slot[d]} : Purses!Making(s) # {}}
  BY DEF Purses!MakeEmptyPurse
<1>2. \A s \in Purses!Slots : Purses!Shown(s)' = Purses!Shown(s)
  BY <1>1 DEF Purses!Shown
<1>3. \A s : Purses!Paid(s)' = Purses!Paid(s)
  BY <1>1, PaidKept DEF PurseInv, PurseTypes
<1>4. PurseTypes'  BY <1>1 DEF PurseInv, PurseTypes
<1>5. OwnPurses'  BY <1>1 DEF PurseInv, PurseTypes, OwnPurses, HasPurse
<1>6. ASSUME NEW s \in Purses!Slots \ overlapped'  PROVE OnePurse(s)'
  <2>1. s \notin overlapped  BY <1>1
  <2>2. s = slot[d] => \A e \in Deposits : slot[e] = s => deposit[e] # "makes"
    BY <1>1 DEF Purses!Making
  <2> QED
    BY <1>1, <2>1, <2>2 DEF PurseInv, PurseTypes, OnePurse, HasPurse
<1>7. \A s \in Purses!Slots \ overlapped' : s \notin overlapped  BY <1>1
<1> QED  BY <1>1, <1>2, <1>3, <1>4, <1>5, <1>6, <1>7 DEF PurseInv

\* The new purse is entered: it is empty, and so is the account unless another
\* deposit overlapped.
LEMMA SetPurseKeeps ==
    ASSUME PurseInv, NEW d \in Deposits, Purses!SetPurse(d)
    PROVE  PurseInv'
<1>1. /\ UNCHANGED <<slot, balance, taken, overlapped>>
      /\ deposit[d] = "makes" /\ deposit' = [deposit EXCEPT ![d] = "sent"]
      /\ assayPurses' = [assayPurses EXCEPT ![slot[d]] = {d}]
      /\ purse' = [purse EXCEPT ![d] = {d}]
  BY DEF Purses!SetPurse
<1>2. slot[d] \in Purses!Slots  BY DEF PurseInv, PurseTypes
<1>3. \A s : Purses!Paid(s)' = Purses!Paid(s)
  BY <1>1, PaidKept DEF PurseInv, PurseTypes
<1>4. PurseTypes'  BY <1>1, <1>2 DEF PurseInv, PurseTypes
<1>5. OwnPurses'
  BY <1>1, <1>2 DEF PurseInv, PurseTypes, OwnPurses, HasPurse
<1>6. ASSUME NEW s \in Purses!Slots \ overlapped
      PROVE  OnePurse(s)' /\ Purses!Shown(s)' + taken'[s] = Purses!Paid(s)'
  <2>1. OnePurse(s) /\ Purses!Shown(s) + taken[s] = Purses!Paid(s)  BY DEF PurseInv
  <2>2. CASE s # slot[d]
    <3>1. assayPurses'[s] = assayPurses[s]  BY <1>1, <1>2, <2>2 DEF PurseInv, PurseTypes
    <3>2. OnePurse(s)'
      BY <1>1, <1>2, <2>1, <2>2, <3>1 DEF PurseInv, PurseTypes, OnePurse, HasPurse
    <3>3. \A P : P = assayPurses[s] =>
            (IF P = {} THEN 0 ELSE balance[CHOOSE p \in P : TRUE]) = Purses!Shown(s)
      BY DEF Purses!Shown
    <3>4. Purses!Shown(s)' = Purses!Shown(s)
      <4>1. Purses!Shown(s)' = (IF assayPurses'[s] = {} THEN 0
                                ELSE balance'[CHOOSE p \in assayPurses'[s] : TRUE])
        BY DEF Purses!Shown
      <4> QED  BY <1>1, <3>1, <3>3, <4>1, Zenon
    <3> QED  BY <1>1, <1>3, <2>1, <3>2, <3>4
  <2>3. CASE s = slot[d]
    <3>1. assayPurses[s] = {}  BY <1>1, <2>1, <2>3 DEF OnePurse
    <3>2. assayPurses'[s] = {d}  BY <1>1, <1>2, <2>3 DEF PurseInv, PurseTypes
    <3>3. OnePurse(s)'
      BY <1>1, <2>1, <2>3, <3>1, <3>2 DEF PurseInv, PurseTypes, OnePurse, HasPurse
    <3>4. balance[d] = 0  BY <1>1 DEF PurseInv, OwnPurses, HasPurse
    <3>5. Purses!Shown(s) = 0  BY <3>1 DEF Purses!Shown
    <3>6. \A p : assayPurses'[s] = {p} => Purses!Shown(s)' = balance'[p]
      <4>1. SUFFICES ASSUME NEW p, assayPurses'[s] = {p}  PROVE Purses!Shown(s)' = balance'[p]
        OBVIOUS
      <4>2. (CHOOSE q \in {p} : TRUE) = p  OBVIOUS
      <4> QED  BY <4>1, <4>2 DEF Purses!Shown
    <3> QED  BY <1>1, <1>3, <2>1, <3>2, <3>3, <3>4, <3>5, <3>6
  <2> QED  BY <2>2, <2>3
<1> QED  BY <1>1, <1>4, <1>5, <1>6 DEF PurseInv

\* A payment arrives in the purse it was sent to, which is the account's.
LEMMA DepositedKeeps ==
    ASSUME PurseInv, NEW d \in Deposits, Purses!Deposited(d)
    PROVE  PurseInv'
<1>1. /\ UNCHANGED <<slot, assayPurses, purse, taken, overlapped>>
      /\ deposit[d] = "sent" /\ deposit' = [deposit EXCEPT ![d] = "done"]
      /\ balance' = [p \in Deposits |-> IF p \in purse[d] THEN balance[p] + 1 ELSE balance[p]]
  BY DEF Purses!Deposited
<1>2. PICK p \in Deposits : purse[d] = {p} /\ slot[p] = slot[d] /\ deposit[p] \in HasPurse
  BY <1>1 DEF PurseInv, OwnPurses
<1>3. balance' \in [Deposits -> Nat]  BY <1>1 DEF PurseInv, PurseTypes
<1>4. PurseTypes'  BY <1>1, <1>3 DEF PurseInv, PurseTypes
<1>5. OwnPurses'
  <2>1. \A e \in Deposits : deposit'[e] \in HasPurse <=> deposit[e] \in HasPurse
    BY <1>1 DEF PurseInv, PurseTypes, HasPurse
  <2>2. \A e \in Deposits : deposit'[e] = "sent" => deposit[e] = "sent"
    BY <1>1 DEF PurseInv, PurseTypes
  <2>3. \A e \in Deposits : deposit[e] \notin HasPurse => balance'[e] = balance[e]
    BY <1>1, <1>2
  <2> QED  BY <1>1, <2>1, <2>2, <2>3 DEF PurseInv, OwnPurses
<1>6. ASSUME NEW s \in Purses!Slots \ overlapped
      PROVE  OnePurse(s)' /\ Purses!Shown(s)' + taken'[s] = Purses!Paid(s)'
  <2>1. OnePurse(s) /\ Purses!Shown(s) + taken[s] = Purses!Paid(s)  BY DEF PurseInv
  <2>2. OnePurse(s)'
    BY <1>1, <2>1 DEF PurseInv, PurseTypes, OnePurse, HasPurse
  <2> DEFINE done == {e \in Deposits : slot[e] = s /\ deposit[e] = "done"}
             done2 == {e \in Deposits : slot'[e] = s /\ deposit'[e] = "done"}
  <2>3. CASE s # slot[d]
    <3>1. done2 = done  BY <1>1, <2>3 DEF PurseInv, PurseTypes
    <3>2. Purses!Paid(s)' = Purses!Paid(s)  BY <3>1 DEF Purses!Paid
    <3>3. CASE assayPurses[s] = {}
      BY <1>1, <2>1, <2>2, <3>2, <3>3 DEF Purses!Shown
    <3>4. CASE assayPurses[s] # {}
      <4>1. PICK q \in Deposits : assayPurses[s] = {q} /\ slot[q] = s
        BY <3>4 DEF PurseInv, OwnPurses
      <4>2. balance'[q] = balance[q]  BY <1>1, <1>2, <2>3, <4>1
      <4>3. assayPurses' = assayPurses /\ balance'[CHOOSE x \in {q} : TRUE] = balance[CHOOSE x \in {q} : TRUE]
        BY <1>1, <4>2
      <4>4. Purses!Shown(s)' = Purses!Shown(s)
        BY <4>1, <4>3 DEF Purses!Shown
      <4> QED  BY <1>1, <2>1, <2>2, <3>2, <4>4
    <3> QED  BY <3>3, <3>4
  <2>4. CASE s = slot[d]
    <3>1. done2 = done \cup {d} /\ d \notin done  BY <1>1, <2>4 DEF PurseInv, PurseTypes
    <3>2. IsFiniteSet(done)  BY DepositsAssumption, FS_Subset
    <3>3. Cardinality(done \cup {d}) = Cardinality(done) + 1
      BY <3>1, <3>2, FS_AddElement
    <3>4. Purses!Paid(s)' = Purses!Paid(s) + 1
      <4>1. Purses!Paid(s) = Cardinality(done) /\ Purses!Paid(s)' = Cardinality(done2)
        BY PaidIs, PaidIsNext
      <4> QED  BY <3>1, <3>3, <4>1
    <3>5. assayPurses[s] # {}
      BY <1>1, <2>1, <2>4 DEF OnePurse, HasPurse
    <3>6. assayPurses[s] = {p}  BY <1>1, <1>2, <2>1, <2>4, <3>5 DEF OnePurse
    <3>7. Purses!Shown(s) = balance[p]  BY <3>6, ShownIs
    <3>8. balance'[p] = balance[p] + 1  BY <1>1, <1>2
    <3>9. (CHOOSE x \in {p} : TRUE) = p  OBVIOUS
    <3>10. Purses!Shown(s)' = balance'[p]  BY <1>1, <3>6, <3>9 DEF Purses!Shown
    <3>11. balance[p] \in Nat /\ taken[s] \in Nat  BY DEF PurseInv, PurseTypes
    <3> QED  BY <1>1, <2>1, <2>2, <3>4, <3>7, <3>8, <3>10, <3>11
  <2> QED  BY <2>3, <2>4
<1> QED  BY <1>1, <1>4, <1>5, <1>6 DEF PurseInv

\* What is withdrawn comes out of the account's purse.
LEMMA WithdrawKeeps ==
    ASSUME PurseInv, NEW s \in Purses!Slots, Purses!WithdrawExactly(s)
    PROVE  PurseInv'
<1>1. PICK p \in assayPurses[s] :
        /\ balance[p] > 0 /\ balance' = [balance EXCEPT ![p] = @ - 1]
        /\ taken' = [taken EXCEPT ![s] = @ + 1]
        /\ UNCHANGED <<deposit, slot, assayPurses, purse, overlapped>>
  BY DEF Purses!WithdrawExactly
<1>2. p \in Deposits /\ assayPurses[s] = {p} /\ slot[p] = s /\ deposit[p] \in HasPurse
  BY <1>1 DEF PurseInv, OwnPurses
<1>3. balance[p] \in Nat /\ taken[s] \in Nat  BY <1>2 DEF PurseInv, PurseTypes
<1>4. PurseTypes'  BY <1>1, <1>2, <1>3 DEF PurseInv, PurseTypes
<1>5. OwnPurses'  BY <1>1, <1>2 DEF PurseInv, PurseTypes, OwnPurses
<1>6. ASSUME NEW r \in Purses!Slots \ overlapped
      PROVE  OnePurse(r)' /\ Purses!Shown(r)' + taken'[r] = Purses!Paid(r)'
  <2>1. OnePurse(r) /\ Purses!Shown(r) + taken[r] = Purses!Paid(r)  BY DEF PurseInv
  <2>2. Purses!Paid(r)' = Purses!Paid(r)  BY <1>1, PaidKept
  <2>3. CASE r # s
    <3>1. taken'[r] = taken[r]  BY <1>1, <2>3 DEF PurseInv, PurseTypes
    <3>2. OnePurse(r)'  BY <1>1, <2>1, <3>1 DEF OnePurse
    <3>3. CASE assayPurses[r] = {}
      BY <1>1, <2>1, <2>2, <3>1, <3>2, <3>3 DEF Purses!Shown
    <3>4. CASE assayPurses[r] # {}
      <4>1. PICK q \in Deposits : assayPurses[r] = {q} /\ slot[q] = r
        BY <3>4 DEF PurseInv, OwnPurses
      <4>2. balance'[q] = balance[q]
        BY <1>1, <1>2, <2>3, <4>1 DEF PurseInv, PurseTypes
      <4>3. (CHOOSE x \in {q} : TRUE) = q  OBVIOUS
      <4>4. Purses!Shown(r)' = Purses!Shown(r)
        BY <1>1, <4>1, <4>2, <4>3 DEF Purses!Shown
      <4> QED  BY <2>1, <2>2, <3>1, <3>2, <4>4
    <3> QED  BY <3>3, <3>4
  <2>4. CASE r = s
    <3>1. taken'[r] = taken[r] + 1  BY <1>1, <2>4 DEF PurseInv, PurseTypes
    <3>2. OnePurse(r)'  BY <1>1, <1>2, <2>1, <2>4 DEF OnePurse
    <3>3. Purses!Shown(r) = balance[p]  BY <1>2, <2>4, ShownIs
    <3>4. balance'[p] = balance[p] - 1  BY <1>1, <1>2 DEF PurseInv, PurseTypes
    <3>5. (CHOOSE x \in {p} : TRUE) = p  OBVIOUS
    <3>6. Purses!Shown(r)' = balance'[p]
      BY <1>1, <1>2, <2>4, <3>5 DEF Purses!Shown
    <3> QED  BY <1>3, <2>1, <2>2, <2>4, <3>1, <3>2, <3>3, <3>4, <3>6
  <2> QED  BY <2>3, <2>4
<1> QED  BY <1>1, <1>4, <1>5, <1>6 DEF PurseInv

\* Every step of the pledger keeps its invariant.
LEMMA PurseStep ==
    ASSUME PurseInv, [Purses!Next]_purseVars
    PROVE  PurseInv'
<1>1. ASSUME NEW d \in Deposits,
             \/ Purses!DepositAll(d) \/ Purses!UsePurse(d) \/ Purses!MakeEmptyPurse(d)
             \/ Purses!SetPurse(d) \/ Purses!Deposited(d)
      PROVE  PurseInv'
  BY <1>1, DepositKeeps, MakeEmptyPurseKeeps, SetPurseKeeps, DepositedKeeps
<1>2. ASSUME NEW s \in Purses!Slots, Purses!WithdrawExactly(s)  PROVE PurseInv'
  BY <1>2, WithdrawKeeps
<1>3. CASE UNCHANGED purseVars
  <2>1. UNCHANGED <<deposit, slot, assayPurses, purse, balance, taken, overlapped>>
    BY <1>3 DEF purseVars
  <2>2. PurseTypes' /\ OwnPurses'  BY <2>1 DEF PurseInv, PurseTypes, OwnPurses
  <2>3. \A s \in Purses!Slots : OnePurse(s)' <=> OnePurse(s)  BY <2>1 DEF OnePurse
  <2>4. \A s \in Purses!Slots :
          Purses!Shown(s)' = Purses!Shown(s) /\ Purses!Paid(s)' = Purses!Paid(s)
    BY <2>1 DEF Purses!Shown, Purses!Paid
  <2> QED  BY <2>1, <2>2, <2>3, <2>4 DEF PurseInv
<1> QED  BY <1>1, <1>2, <1>3 DEF Purses!Next

\* Initially no account has a purse and nothing was paid.
LEMMA PurseStart ==
    ASSUME Purses!Init
    PROVE  PurseInv
<1>1. /\ deposit = [d \in Deposits |-> "none"] /\ slot \in [Deposits -> Purses!Slots]
      /\ assayPurses = [s \in Purses!Slots |-> {}] /\ purse = [d \in Deposits |-> {}]
      /\ balance = [d \in Deposits |-> 0] /\ taken = [s \in Purses!Slots |-> 0]
  BY DEF Purses!Init
<1>2. PurseTypes /\ OwnPurses  BY <1>1 DEF PurseTypes, OwnPurses, HasPurse
<1>3. \A s \in Purses!Slots : OnePurse(s)  BY <1>1 DEF OnePurse, HasPurse
<1>4. ASSUME NEW s \in Purses!Slots  PROVE Purses!Shown(s) + taken[s] = Purses!Paid(s)
  <2>1. {d \in Deposits : slot[d] = s /\ deposit[d] = "done"} = {}  BY <1>1
  <2>2. Purses!Paid(s) = 0
    <3>1. Cardinality({}) = 0  BY FS_EmptySet
    <3> QED  BY <2>1, <3>1, PaidIs
  <2>3. Purses!Shown(s) = 0 /\ taken[s] = 0  BY <1>1 DEF Purses!Shown
  <2> QED  BY <2>2, <2>3
<1> QED  BY <1>2, <1>3, <1>4 DEF PurseInv

\* For any accounts, assays, deposits and withdrawals: what was deposited in an
\* account and not withdrawn from it is what it shows, unless two deposits asked
\* for its purse at once (vat-pledger.js depositAll).
THEOREM AccountShowsPayments == MCSpec => []ShowsWhatIsPaid
<1>1. MCInit => PurseInv  BY PurseStart DEF MCInit, EdgesInit
<1>2. PurseInv /\ [MCNext]_mcVars => PurseInv'  BY EachPart, PurseStep
<1>3. PurseInv => ShowsWhatIsPaid
  BY DEF PurseInv, ShowsWhatIsPaid, Purses!ShowsWhatIsPaid
<1> QED  BY <1>1, <1>2, <1>3, PTL DEF MCSpec, mcVars

-----------------------------------------------------------------------------
(* BaseDir. *)

\* The connections to the first n chains of the network and to further ones.
Known(n) == UNION {Dir!ConnOf(g) : g \in (1..n) \cup OtherGCIs}

Whole == files = Dir!Files /\ gci # 0 /\ Dir!Connected(gci)

DirTypes ==
    /\ network.gci \in 1..MaxChains /\ network \in Dir!ConnOf(network.gci)
    /\ connections \in Seq(Known(network.gci)) /\ target \in Known(network.gci)
    /\ files \subseteq Dir!Files
    /\ torn \in BOOLEAN

\* There are no connections before the files they need are there.
FilesInv ==
    /\ "connections" \notin files \/ "key" \notin files => connections = <<>>
    /\ doing \in {"init", "asks"} => connections = <<>>
    /\ doing = "init" => stage \in 1..7 /\ \A j \in 1..7 : j < stage => Dir!InitStages[j] \in files
    /\ doing \in {"asks", "ingress", "gci"} => files = Dir!Files

\* What is connected to the chain of the network is whole, unless it was torn or
\* is about to be told of another chain.
ConnectedInv ==
    /\ doing = "wipe" => ~Dir!Connected(network.gci)
    /\ doing = "gci" => Dir!Connected(target.gci)
    /\ doing # "gci" /\ Dir!Connected(network.gci) /\ ~torn => Whole
    /\ doing = "up" /\ ~torn => Whole

DirInv == DirTypes /\ FilesInv /\ ConnectedInv


\* A connection that is added is there, and the others are old ones.
LEMMA AddPlaces ==
    ASSUME NEW C, NEW list \in Seq(C), NEW c \in C
    PROVE  /\ Dir!Add(list, c) \in Seq(C)
           /\ \E i \in DOMAIN Dir!Add(list, c) : Dir!Add(list, c)[i] = c
<1> DEFINE same == {i \in DOMAIN list : Dir!Duplicates(list[i], c)}
<1>1. CASE same = {}
  <2>1. Dir!Add(list, c) = Append(list, c)  BY <1>1 DEF Dir!Add
  <2>2. /\ Append(list, c) \in Seq(C) /\ Len(list) + 1 \in DOMAIN Append(list, c)
        /\ Append(list, c)[Len(list) + 1] = c
    OBVIOUS
  <2> QED  BY <2>1, <2>2
<1>2. CASE same # {}
  <2>1. same \in SUBSET Nat  OBVIOUS
  <2>2. Dir!Add(list, c) = [list EXCEPT ![Dir!Min(same)] = c]  BY <1>2 DEF Dir!Add
  <2>3. Dir!Min(same) \in same
    <3> HIDE DEF same
    <3> QED  BY <1>2, <2>1, LeastOf DEF Dir!Min
  <2>4. Dir!Min(same) \in DOMAIN list  BY <2>3
  <2> HIDE DEF same
  <2>5. ASSUME NEW m \in DOMAIN list
        PROVE  [list EXCEPT ![m] = c] \in Seq(C) /\ m \in DOMAIN [list EXCEPT ![m] = c]
                 /\ [list EXCEPT ![m] = c][m] = c
    OBVIOUS
  <2> QED  BY <2>2, <2>4, <2>5
<1> QED  BY <1>1, <1>2

\* The function that set-gci-ingress folds the connections with.
Folded(f, list) ==
    f = [s \in SUBSET DOMAIN list |->
           IF s = {} THEN <<>> ELSE Dir!Add(f[s \ {Dir!Max(s)}], list[Dir!Max(s)])]

\* The same on the first n connections.
FoldedTo(f, list, n) ==
    \A s \in SUBSET (1..n) :
        f[s] = IF s = {} THEN <<>> ELSE Dir!Add(f[s \ {Dir!Max(s)}], list[Dir!Max(s)])

\* The fold of connections.json is such a function, on all of the list.
LEMMA FoldIs ==
    ASSUME NEW list
    PROVE  Dir!FoldLeft(Dir!Add, <<>>, list) = (CHOOSE f : Folded(f, list))[DOMAIN list]
BY DEF Dir!FoldLeft, Dir!MapThenFoldSet, Folded

\* The greatest of a set is the one that all others are at most.
LEMMA GreatestIs ==
    ASSUME NEW n \in Nat, NEW s \in SUBSET (1..n), n \in s
    PROVE  Dir!Max(s) = n
<1>1. \A x \in s : (\A y \in s : x >= y) <=> x = n  OBVIOUS
<1> QED  BY <1>1 DEF Dir!Max

\* There is such a function for any number of connections: that for one more
\* adds the last to what the one before gives.
LEMMA FoldExists ==
    ASSUME NEW C, NEW list \in Seq(C)
    PROVE  \E f : Folded(f, list)
<1> DEFINE Can(n) == \E f \in [SUBSET (1..n) -> Seq(C)] : FoldedTo(f, list, n)
           Not == {n \in 0..Len(list) : ~Can(n)}
<1>1. Can(0)
  <2> DEFINE f == [s \in SUBSET (1..0) |-> <<>>]
  <2>1. \A s \in SUBSET (1..0) : s = {}  OBVIOUS
  <2>2. f \in [SUBSET (1..0) -> Seq(C)]  OBVIOUS
  <2>3. FoldedTo(f, list, 0)  BY <2>1 DEF FoldedTo
  <2> QED  BY <2>2, <2>3
<1>2. ASSUME NEW n \in 1..Len(list), Can(n - 1)  PROVE Can(n)
  <2>1. PICK g \in [SUBSET (1..(n - 1)) -> Seq(C)] : FoldedTo(g, list, n - 1)  BY <1>2
  <2> DEFINE f == [s \in SUBSET (1..n) |->
                     IF n \in s THEN Dir!Add(g[s \ {n}], list[n]) ELSE g[s]]
  <2>2. \A s \in SUBSET (1..n) : s \ {n} \in SUBSET (1..(n - 1))  OBVIOUS
  <2>3. list[n] \in C  OBVIOUS
  <2>4. ASSUME NEW s \in SUBSET (1..n)
        PROVE  /\ f[s] \in Seq(C)
               /\ f[s] = IF s = {} THEN <<>>
                         ELSE Dir!Add(f[s \ {Dir!Max(s)}], list[Dir!Max(s)])
    <3>1. CASE n \in s
      <4>1. Dir!Max(s) = n  BY <3>1, GreatestIs
      <4>2. f[s \ {n}] = g[s \ {n}] /\ g[s \ {n}] \in Seq(C)  BY <2>2
      <4>3. f[s] = Dir!Add(g[s \ {n}], list[n])  BY <3>1
      <4>4. Dir!Add(g[s \ {n}], list[n]) \in Seq(C)  BY <2>3, <4>2, AddPlaces
      <4> HIDE DEF f
      <4> QED  BY <3>1, <4>1, <4>2, <4>3, <4>4
    <3>2. CASE n \notin s
      <4>1. s \in SUBSET (1..(n - 1))  BY <2>2, <3>2
      <4>2. \A m : s \ {m} \in SUBSET (1..(n - 1)) /\ s \ {m} \in SUBSET (1..n) /\ n \notin s \ {m}
        BY <3>2, <4>1
      <4>3. f[s] = g[s] /\ \A m : f[s \ {m}] = g[s \ {m}]  BY <3>2, <4>2
      <4>4. g[s] \in Seq(C)  BY <4>1
      <4> HIDE DEF f
      <4> QED  BY <2>1, <4>1, <4>3, <4>4 DEF FoldedTo
    <3> QED  BY <3>1, <3>2
  <2>5. f \in [SUBSET (1..n) -> Seq(C)]  BY <2>4
  <2> HIDE DEF f
  <2>6. FoldedTo(f, list, n)  BY <2>4 DEF FoldedTo
  <2> QED  BY <2>5, <2>6
<1> HIDE DEF Can
<1>3. Not = {}
  <2> SUFFICES ASSUME Not # {}  PROVE FALSE  OBVIOUS
  <2>1. Not \in SUBSET Nat  OBVIOUS
  <2>2. PICK n \in Not : \A k \in Not : n <= k
    <3> HIDE DEF Not
    <3> QED  BY <2>1, LeastOf
  <2>3. n # 0 /\ n - 1 \in 0..Len(list) /\ n \in 1..Len(list)  BY <1>1
  <2>4. Can(n - 1)  BY <2>2, <2>3
  <2> QED  BY <1>2, <2>3, <2>4
<1>4. Can(Len(list))  BY <1>3
<1>5. PICK g \in [SUBSET (1..Len(list)) -> Seq(C)] : FoldedTo(g, list, Len(list))
  BY <1>4 DEF Can
<1>6. DOMAIN list = 1..Len(list)  OBVIOUS
<1>7. Folded(g, list)
  <2>1. g = [s \in SUBSET (1..Len(list)) |-> g[s]]  BY <1>5
  <2>2. g = [s \in SUBSET (1..Len(list)) |->
               IF s = {} THEN <<>> ELSE Dir!Add(g[s \ {Dir!Max(s)}], list[Dir!Max(s)])]
    BY <1>5, <2>1 DEF FoldedTo
  <2> QED  BY <1>6, <2>2 DEF Folded
<1> QED  BY <1>7

\* Folding connections gives connections.
LEMMA FoldPlaces ==
    ASSUME NEW C, NEW list \in Seq(C)
    PROVE  Dir!FoldLeft(Dir!Add, <<>>, list) \in Seq(C)
<1>1. PICK f : f = (CHOOSE g : Folded(g, list)) /\ Folded(f, list)
  BY FoldExists
<1> DEFINE Not == {n \in 0..Len(list) : f[1..n] \notin Seq(C)}
<1>2. DOMAIN list = 1..Len(list) /\ Len(list) \in Nat  OBVIOUS
<1>3. \A n \in 0..Len(list) : 1..n \in SUBSET DOMAIN list  BY <1>2
<1>4. f[1..0] \in Seq(C)
  <2>1. 1..0 = {} /\ {} \in SUBSET DOMAIN list  OBVIOUS
  <2>2. f[{}] = <<>>  BY <1>1, <2>1 DEF Folded
  <2>3. f[1..0] = <<>>  BY <2>1, <2>2, Zenon
  <2>4. <<>> \in Seq(C)  OBVIOUS
  <2> QED  BY <2>3, <2>4, Zenon
<1>5. ASSUME NEW n \in 1..Len(list), f[1..(n - 1)] \in Seq(C)  PROVE f[1..n] \in Seq(C)
  <2>1. Dir!Max(1..n) = n  BY GreatestIs
  <2>2. (1..n) \ {n} = 1..(n - 1) /\ 1..n # {} /\ 1..n \in SUBSET DOMAIN list
    <3>1. n \in 1..n  OBVIOUS
    <3>2. \A k : k \in (1..n) \ {n} <=> k \in 1..(n - 1)  OBVIOUS
    <3> QED  BY <1>3, <3>1, <3>2
  <2>3. f[1..n] = Dir!Add(f[(1..n) \ {Dir!Max(1..n)}], list[Dir!Max(1..n)])
    BY <1>1, <2>2 DEF Folded
  <2>4. f[1..n] = Dir!Add(f[1..(n - 1)], list[n])  BY <2>1, <2>2, <2>3
  <2>5. list[n] \in C  OBVIOUS
  <2>6. Dir!Add(f[1..(n - 1)], list[n]) \in Seq(C)  BY <1>5, <2>5, AddPlaces
  <2> QED  BY <2>4, <2>6, Zenon
<1>6. Not = {}
  <2> SUFFICES ASSUME Not # {}  PROVE FALSE  OBVIOUS
  <2>1. Not \in SUBSET Nat  OBVIOUS
  <2>2. PICK n \in Not : \A k \in Not : n <= k
    <3> HIDE DEF Not
    <3> QED  BY <2>1, LeastOf
  <2>3. n # 0 /\ n - 1 \in 0..Len(list) /\ n \in 1..Len(list)  BY <1>4
  <2>4. f[1..(n - 1)] \in Seq(C)  BY <2>2, <2>3
  <2> QED  BY <1>5, <2>3, <2>4
<1>7. f[1..Len(list)] \in Seq(C)  BY <1>2, <1>6
<1> QED  BY <1>1, <1>2, <1>7, FoldIs


\* The files in the order in which init makes them.
LEMMA InitStagesAre ==
    /\ Len(Dir!InitStages) = 7
    /\ Dir!Files = {"dir", "connections", "html", "vats", "state", "key", "readme"}
    /\ Dir!InitStages[1] = "dir" /\ Dir!InitStages[2] = "connections"
    /\ Dir!InitStages[3] = "html" /\ Dir!InitStages[4] = "vats" /\ Dir!InitStages[5] = "state"
    /\ Dir!InitStages[6] = "key" /\ Dir!InitStages[7] = "readme"
<1>1. DOMAIN Dir!InitStages = 1..7  BY DEF Dir!InitStages
<1>2. /\ Len(Dir!InitStages) = 7
      /\ Dir!InitStages[1] = "dir" /\ Dir!InitStages[2] = "connections"
      /\ Dir!InitStages[3] = "html" /\ Dir!InitStages[4] = "vats" /\ Dir!InitStages[5] = "state"
      /\ Dir!InitStages[6] = "key" /\ Dir!InitStages[7] = "readme"
  BY DEF Dir!InitStages
<1>3. Dir!Files = {Dir!InitStages[i] : i \in 1..7}  BY <1>1 DEF Dir!Files, Dir!ToSet
<1>4. \A i \in 1..7 : i = 1 \/ i = 2 \/ i = 3 \/ i = 4 \/ i = 5 \/ i = 6 \/ i = 7  OBVIOUS
<1> QED  BY <1>2, <1>3, <1>4

\* No connection is to a chain that the network does not have yet.
LEMMA NotYetConnected ==
    ASSUME NEW n \in 1..MaxChains, n < MaxChains, connections \in Seq(Known(n))
    PROVE  ~Dir!Connected(n + 1) /\ Known(n) \subseteq Known(n + 1)
<1>1. n + 1 \notin (1..n) \cup OtherGCIs  BY ChainsAssumption
<1>2. \A c \in Known(n) : c.gci \in (1..n) \cup OtherGCIs  BY DEF Known, Dir!ConnOf
<1>3. \A i \in DOMAIN connections : connections[i] \in Known(n)  OBVIOUS
<1>4. ~Dir!Connected(n + 1)  BY <1>1, <1>2, <1>3 DEF Dir!Connected
<1>5. 1..n \subseteq 1..(n + 1)  OBVIOUS
<1> QED  BY <1>4, <1>5 DEF Known

\* Without connections no chain is connected.
LEMMA EmptyIsUnconnected ==
    ASSUME connections = <<>>
    PROVE  /\ \A g : ~Dir!Connected(g)
           /\ \A C : connections \in Seq(C)
BY DEF Dir!Connected

\* What the network does.
LEMMA NewChainKeeps ==
    ASSUME DirInv, Dir!NewChain
    PROVE  DirInv'
<1>1. /\ UNCHANGED <<files, connections, gci, doing, stage, fresh, target, torn>>
      /\ network.gci < MaxChains /\ network' \in Dir!ConnOf(network.gci + 1)
  BY DEF Dir!NewChain, Dir!dirVars
<1>2. network.gci \in 1..MaxChains /\ connections \in Seq(Known(network.gci))
  BY DEF DirInv, DirTypes
<1>3. network'.gci = network.gci + 1  BY <1>1 DEF Dir!ConnOf
<1>4. network'.gci \in 1..MaxChains  BY <1>1, <1>2, <1>3, ChainsAssumption
<1>5. ~Dir!Connected(network'.gci) /\ Known(network.gci) \subseteq Known(network'.gci)
  BY <1>1, <1>2, <1>3, NotYetConnected
<1>6. connections \in Seq(Known(network'.gci))  BY <1>2, <1>5
<1>7. DirTypes'
  BY <1>1, <1>3, <1>4, <1>5, <1>6 DEF DirInv, DirTypes
<1>8. FilesInv'  BY <1>1 DEF DirInv, FilesInv
<1>9. \A g : Dir!Connected(g)' <=> Dir!Connected(g)  BY <1>1 DEF Dir!Connected
<1>10. ~Dir!Connected(network.gci)'
  <2>1. \A g : g = network'.gci => ~(\E i \in DOMAIN connections' : connections'[i].gci = g)
    BY <1>1, <1>5 DEF Dir!Connected
  <2> QED  BY <2>1 DEF Dir!Connected
<1>11. ConnectedInv'
  BY <1>1, <1>9, <1>10 DEF DirInv, ConnectedInv, Whole, Dir!Connected
<1> QED  BY <1>7, <1>8, <1>11 DEF DirInv

\* A command begins, or goes on without touching the directory.
LEMMA CommandKeeps ==
    ASSUME DirInv,
           \/ Dir!RunClient \/ Dir!Restart \/ Dir!BlowAway \/ Dir!Upgrade
           \/ Dir!ServerMessage \/ Dir!StopSolo
           \/ \E c \in UNION {Dir!ConnOf(g) : g \in OtherGCIs} : Dir!AddChain(c)
    PROVE  DirInv'
<1>1. UNCHANGED <<network, files, connections, gci, torn>>
  BY DEF Dir!RunClient, Dir!Restart, Dir!BlowAway, Dir!Upgrade, Dir!ServerMessage,
         Dir!StopSolo, Dir!AddChain, Dir!dirVars
<1>2. network \in Known(network.gci)  BY DEF DirInv, DirTypes, Known
<1>3. \A g : Dir!Connected(g)' <=> Dir!Connected(g)  BY <1>1 DEF Dir!Connected
<1>4. target' \in Known(network.gci)
  <2>1. ASSUME NEW c \in UNION {Dir!ConnOf(g) : g \in OtherGCIs}  PROVE c \in Known(network.gci)
    BY DEF Known
  <2>2. target' \in {target, network} \/ \E c \in UNION {Dir!ConnOf(g) : g \in OtherGCIs} : target' = c
    BY DEF Dir!RunClient, Dir!Restart, Dir!BlowAway, Dir!Upgrade, Dir!ServerMessage,
           Dir!StopSolo, Dir!AddChain
  <2> QED  BY <1>2, <2>1, <2>2 DEF DirInv, DirTypes
<1>5. DirTypes'  BY <1>1, <1>4 DEF DirInv, DirTypes
<1>6. Whole' <=> Whole  BY <1>1 DEF Whole, Dir!Connected
<1>7. /\ Dir!Connected(network.gci)' <=> Dir!Connected(network.gci)
      /\ \A g : ~Dir!Connected(g) => ~Dir!Connected(g)'
  BY <1>1 DEF Dir!Connected
<1>8. CASE Dir!RunClient \/ Dir!Upgrade
  <2>1. doing' = "init" /\ stage' = 1 /\ connections = <<>>
    BY <1>8 DEF Dir!RunClient, Dir!Upgrade, DirInv, FilesInv
  <2>2. FilesInv'  BY <1>1, <2>1 DEF DirInv, FilesInv
  <2>3. ConnectedInv'
    BY <1>1, <1>7, <2>1, EmptyIsUnconnected DEF ConnectedInv
  <2> QED  BY <1>5, <2>2, <2>3 DEF DirInv
<1>9. CASE Dir!Restart
  <2>1. doing = "idle" /\ doing' = "up" /\ Dir!Connected(network.gci)
    BY <1>9 DEF Dir!Restart, Dir!Already
  <2>2. FilesInv'  BY <1>1, <2>1 DEF DirInv, FilesInv
  <2>3. ConnectedInv'
    BY <1>1, <1>6, <2>1 DEF DirInv, ConnectedInv
  <2> QED  BY <1>5, <2>2, <2>3 DEF DirInv
<1>10. CASE Dir!BlowAway
  <2>1. doing = "idle" /\ doing' = "wipe" /\ ~Dir!Connected(network.gci)
    BY <1>10 DEF Dir!BlowAway, Dir!Already
  <2>2. FilesInv'  BY <1>1, <2>1 DEF DirInv, FilesInv
  <2>3. ConnectedInv'  BY <1>7, <2>1 DEF ConnectedInv
  <2> QED  BY <1>5, <2>2, <2>3 DEF DirInv
<1>11. CASE Dir!ServerMessage
  <2>1. doing = "asks" /\ doing' = "ingress"  BY <1>11 DEF Dir!ServerMessage
  <2>2. connections = <<>>  BY <2>1 DEF DirInv, FilesInv
  <2>3. FilesInv'  BY <1>1, <2>1 DEF DirInv, FilesInv
  <2>4. ConnectedInv'  BY <1>7, <2>1, <2>2, EmptyIsUnconnected DEF ConnectedInv
  <2> QED  BY <1>5, <2>3, <2>4 DEF DirInv
<1>12. CASE Dir!StopSolo
  <2>1. doing = "up" /\ doing' = "idle"  BY <1>12 DEF Dir!StopSolo
  <2>2. FilesInv'  BY <1>1, <2>1 DEF DirInv, FilesInv
  <2>3. ConnectedInv'  BY <1>1, <1>6, <1>7, <2>1 DEF DirInv, ConnectedInv
  <2> QED  BY <1>5, <2>2, <2>3 DEF DirInv
<1>13. ASSUME NEW c, Dir!AddChain(c)  PROVE DirInv'
  <2>1. doing = "idle" /\ doing' = "ingress" /\ files = Dir!Files
    BY <1>13 DEF Dir!AddChain
  <2>2. FilesInv'  BY <1>1, <2>1 DEF DirInv, FilesInv
  <2>3. ConnectedInv'  BY <1>1, <1>6, <1>7, <2>1 DEF DirInv, ConnectedInv
  <2> QED  BY <1>5, <2>2, <2>3 DEF DirInv
<1> QED  BY <1>8, <1>9, <1>10, <1>11, <1>12, <1>13

\* What is removed with connections.json are the connections.
LEMMA RemoveFileKeeps ==
    ASSUME DirInv, NEW f, Dir!RemoveFile(f)
    PROVE  DirInv'
<1>1. /\ UNCHANGED <<network, doing, stage, target, torn>>
      /\ doing = "wipe" /\ f # "key" /\ files' = files \ {f}
      /\ connections' = IF f = "connections" THEN <<>> ELSE connections
  BY DEF Dir!RemoveFile
<1>2. connections' \in Seq(Known(network.gci))
  <2>1. <<>> \in Seq(Known(network.gci))  OBVIOUS
  <2>2. connections' = <<>> \/ connections' = connections  BY <1>1
  <2> QED  BY <2>1, <2>2 DEF DirInv, DirTypes
<1>3. DirTypes'  BY <1>1, <1>2 DEF DirInv, DirTypes
<1>4. FilesInv'  BY <1>1 DEF DirInv, FilesInv
<1>5. ~Dir!Connected(network.gci)'
  BY <1>1 DEF DirInv, ConnectedInv, Dir!Connected
<1>6. ConnectedInv'  BY <1>1, <1>5 DEF ConnectedInv
<1> QED  BY <1>3, <1>4, <1>6 DEF DirInv

\* A run that fails or is killed.
LEMMA TroubleKeeps ==
    ASSUME DirInv, Dir!Cleanup \/ Dir!Killed \/ Dir!InitThrows
    PROVE  DirInv'
<1>1. /\ UNCHANGED <<network, target>> /\ doing' = "idle"
      /\ doing \notin {"idle", "up"}
  BY DEF Dir!Cleanup, Dir!Killed, Dir!InitThrows, Dir!Abort
<1>2. torn' \in BOOLEAN
  BY DEF Dir!Cleanup, Dir!Killed, Dir!InitThrows, DirInv, DirTypes
<1>3. CASE files' = {} /\ connections' = <<>>
  <2>1. DirTypes'  BY <1>1, <1>2, <1>3 DEF DirInv, DirTypes
  <2>2. FilesInv'  BY <1>1, <1>3 DEF FilesInv
  <2>3. ConnectedInv'  BY <1>1, <1>3 DEF ConnectedInv, Dir!Connected
  <2> QED  BY <2>1, <2>2, <2>3 DEF DirInv
<1>4. CASE UNCHANGED <<files, connections, gci>> /\ (doing = "gci" => torn') /\ (torn => torn')
  <2>1. DirTypes'  BY <1>1, <1>2, <1>4 DEF DirInv, DirTypes
  <2>2. FilesInv'  BY <1>1, <1>4 DEF DirInv, FilesInv
  <2>3. Whole' <=> Whole  BY <1>4 DEF Whole, Dir!Connected
  <2>4. Dir!Connected(network.gci)' <=> Dir!Connected(network.gci)
    BY <1>1, <1>4 DEF Dir!Connected
  <2>5. ConnectedInv'
    BY <1>1, <1>4, <2>3, <2>4 DEF DirInv, ConnectedInv
  <2> QED  BY <2>1, <2>2, <2>5 DEF DirInv
<1>5. ASSUME Dir!Cleanup
      PROVE  \/ files' = {} /\ connections' = <<>>
             \/ UNCHANGED <<files, connections, gci>> /\ (doing = "gci" => torn') /\ (torn => torn')
  BY <1>5 DEF Dir!Cleanup, Dir!Abort, Dir!dirVars
<1>6. ASSUME Dir!Killed
      PROVE  UNCHANGED <<files, connections, gci>> /\ (doing = "gci" => torn') /\ (torn => torn')
  BY <1>6 DEF Dir!Killed, Dir!dirVars
<1>7. ASSUME Dir!InitThrows
      PROVE  \/ files' = {} /\ connections' = <<>>
             \/ UNCHANGED <<files, connections, gci>> /\ (doing = "gci" => torn') /\ (torn => torn')
  BY <1>7 DEF Dir!InitThrows, Dir!Abort, Dir!dirVars
<1> QED  BY <1>3, <1>4, <1>5, <1>6, <1>7

\* init makes a file.
LEMMA InitBasedirKeeps ==
    ASSUME DirInv, Dir!InitBasedir
    PROVE  DirInv'
<1>1. /\ UNCHANGED <<network, target, torn>> /\ doing = "init"
      /\ files' = files \cup {Dir!InitStages[stage]}
      /\ connections' = IF Dir!InitStages[stage] = "connections" THEN <<>> ELSE connections
      /\ IF stage < 7 THEN stage' = stage + 1 /\ doing' = doing
         ELSE doing' \in {"asks", "ingress"}
  BY InitStagesAre DEF Dir!InitBasedir
<1>2. connections = <<>> /\ stage \in 1..7 /\ \A j \in 1..7 : j < stage => Dir!InitStages[j] \in files
  BY <1>1 DEF DirInv, FilesInv
<1>3. connections' = <<>>  BY <1>1, <1>2
<1>4. Dir!InitStages[stage] \in Dir!Files  BY <1>2, InitStagesAre
<1>5. DirTypes'
  <2>1. <<>> \in Seq(Known(network.gci))  OBVIOUS
  <2>2. connections' \in Seq(Known(network.gci))  BY <1>3, <2>1
  <2> QED  BY <1>1, <1>4, <2>2 DEF DirInv, DirTypes
<1>6. doing' # "init" => files' = Dir!Files
  <2> SUFFICES ASSUME doing' # "init"  PROVE files' = Dir!Files  OBVIOUS
  <2>1. stage = 7  BY <1>1, <1>2
  <2>2. \A j \in 1..7 : Dir!InitStages[j] \in files'  BY <1>1, <1>2, <2>1
  <2>3. 1 \in 1..7 /\ 2 \in 1..7 /\ 3 \in 1..7 /\ 4 \in 1..7 /\ 5 \in 1..7 /\ 6 \in 1..7 /\ 7 \in 1..7
    OBVIOUS
  <2>4. Dir!Files \subseteq files'  BY <2>2, <2>3, InitStagesAre
  <2> QED  BY <1>5, <2>4 DEF DirTypes
<1>7. doing' = "init" => stage' \in 1..7 /\ \A j \in 1..7 : j < stage' => Dir!InitStages[j] \in files'
  <2> SUFFICES ASSUME doing' = "init"
               PROVE  stage' \in 1..7 /\ \A j \in 1..7 : j < stage' => Dir!InitStages[j] \in files'
    OBVIOUS
  <2>1. stage < 7 /\ stage' = stage + 1  BY <1>1
  <2>2. \A j \in 1..7 : j < stage' => j < stage \/ j = stage  BY <1>2, <2>1
  <2> QED  BY <1>1, <1>2, <2>1, <2>2
<1>8. FilesInv'  BY <1>3, <1>6, <1>7 DEF FilesInv
<1>9. ~Dir!Connected(network.gci)'  BY <1>3 DEF Dir!Connected
<1>10. doing' \in {"init", "asks", "ingress"}  BY <1>1
<1>11. ConnectedInv'  BY <1>9, <1>10 DEF ConnectedInv
<1> QED  BY <1>5, <1>8, <1>11 DEF DirInv

\* set-gci-ingress writes its two files.
LEMMA IngressKeeps ==
    ASSUME DirInv, Dir!SetGCIIngress \/ Dir!WriteGCI
    PROVE  DirInv'
<1>1. UNCHANGED <<network, files, target>>  BY DEF Dir!SetGCIIngress, Dir!WriteGCI
<1>2. CASE Dir!SetGCIIngress
  <2>1. /\ doing = "ingress" /\ doing' = "gci" /\ torn' = torn
        /\ connections' = Dir!Add(Dir!FoldLeft(Dir!Add, <<>>, connections), target)
    BY <1>2 DEF Dir!SetGCIIngress
  <2> DEFINE list == Dir!FoldLeft(Dir!Add, <<>>, connections)
  <2>2. connections \in Seq(Known(network.gci)) /\ target \in Known(network.gci)
    BY DEF DirInv, DirTypes
  <2>3. list \in Seq(Known(network.gci))  BY <2>2, FoldPlaces
  <2>4. connections' = Dir!Add(list, target)  BY <2>1
  <2> HIDE DEF list
  <2>5. /\ connections' \in Seq(Known(network.gci))
        /\ \E i \in DOMAIN connections' : connections'[i] = target
    BY <2>2, <2>3, <2>4, AddPlaces
  <2>6. files = Dir!Files  BY <2>1 DEF DirInv, FilesInv
  <2>7. "connections" \in files /\ "key" \in files  BY <2>6, InitStagesAre
  <2>8. DirTypes'  BY <1>1, <2>1, <2>5 DEF DirInv, DirTypes
  <2>9. FilesInv'  BY <1>1, <2>1, <2>6, <2>7 DEF FilesInv
  <2>10. Dir!Connected(target.gci)'  BY <1>1, <2>5 DEF Dir!Connected
  <2>11. ConnectedInv'  BY <2>1, <2>10 DEF ConnectedInv
  <2> QED  BY <2>8, <2>9, <2>11 DEF DirInv
<1>3. CASE Dir!WriteGCI
  <2>1. /\ doing = "gci" /\ doing' \in {"idle", "up"} /\ torn' = FALSE
        /\ gci' = target.gci /\ connections' = connections
    BY <1>3 DEF Dir!WriteGCI
  <2>2. files = Dir!Files  BY <2>1 DEF DirInv, FilesInv
  <2>3. target.gci # 0
    <3>1. target.gci \in (1..network.gci) \cup OtherGCIs
      BY DEF DirInv, DirTypes, Known, Dir!ConnOf
    <3>2. 0 \notin OtherGCIs  BY ChainsAssumption
    <3> QED  BY <3>1, <3>2 DEF DirInv, DirTypes
  <2>4. Dir!Connected(target.gci)  BY <2>1 DEF DirInv, ConnectedInv
  <2>5. Whole'
    <3>1. Dir!Connected(gci)'  BY <2>1, <2>4 DEF Dir!Connected
    <3> QED  BY <1>1, <2>1, <2>2, <2>3, <3>1 DEF Whole
  <2>6. DirTypes'  BY <1>1, <2>1 DEF DirInv, DirTypes
  <2>7. FilesInv'  BY <1>1, <2>1 DEF DirInv, FilesInv
  <2>8. ConnectedInv'  BY <2>1, <2>5 DEF ConnectedInv
  <2> QED  BY <2>6, <2>7, <2>8 DEF DirInv
<1> QED  BY <1>2, <1>3

\* Every step of the base directory keeps its invariant.
LEMMA DirStep ==
    ASSUME DirInv, [Dir!Next]_dirVars
    PROVE  DirInv'
<1>1. CASE Dir!NewChain  BY <1>1, NewChainKeeps
<1>2. CASE \/ Dir!RunClient \/ Dir!Restart \/ Dir!BlowAway \/ Dir!Upgrade
           \/ Dir!ServerMessage \/ Dir!StopSolo
           \/ \E c \in UNION {Dir!ConnOf(g) : g \in OtherGCIs} : Dir!AddChain(c)
  BY <1>2, CommandKeeps
<1>3. ASSUME NEW f, Dir!RemoveFile(f)  PROVE DirInv'  BY <1>3, RemoveFileKeeps
<1>4. CASE Dir!Cleanup \/ Dir!Killed \/ Dir!InitThrows  BY <1>4, TroubleKeeps
<1>5. CASE Dir!InitBasedir  BY <1>5, InitBasedirKeeps
<1>6. CASE Dir!SetGCIIngress \/ Dir!WriteGCI  BY <1>6, IngressKeeps
<1>7. CASE UNCHANGED dirVars
  <2>1. UNCHANGED <<network, files, connections, gci, doing, stage, fresh, target, torn>>
    BY <1>7 DEF dirVars
  <2>2. DirTypes' /\ FilesInv'  BY <2>1 DEF DirInv, DirTypes, FilesInv
  <2>3. ConnectedInv'  BY <2>1 DEF DirInv, ConnectedInv, Whole, Dir!Connected
  <2> QED  BY <2>2, <2>3 DEF DirInv
<1> QED
  BY <1>1, <1>2, <1>3, <1>4, <1>5, <1>6, <1>7 DEF Dir!Next

\* Initially there is no directory.
LEMMA DirStart ==
    ASSUME Dir!Init
    PROVE  DirInv
<1>1. /\ network \in Dir!ConnOf(1) /\ files = {} /\ connections = <<>> /\ doing = "idle"
      /\ target = network /\ torn = FALSE
  BY DEF Dir!Init
<1>2. network.gci = 1  BY <1>1 DEF Dir!ConnOf
<1>3. 1 \in 1..MaxChains  BY ChainsAssumption
<1>4. network \in Known(network.gci)  BY <1>1, <1>2 DEF Known
<1>5. DirTypes
  <2>1. <<>> \in Seq(Known(network.gci))  OBVIOUS
  <2>2. connections \in Seq(Known(network.gci))  BY <1>1, <2>1
  <2> QED  BY <1>1, <1>2, <1>3, <1>4, <2>2 DEF DirTypes
<1>6. FilesInv  BY <1>1 DEF FilesInv
<1>7. ConnectedInv  BY <1>1 DEF ConnectedInv, Dir!Connected
<1> QED  BY <1>5, <1>6, <1>7 DEF DirInv

\* For any number of chains, of connections and of runs that fail: a solo that is
\* started has all its files and a connection to the chain that its vats are told
\* of, unless set-gci-ingress was cut short (init-basedir.js, set-gci-ingress.js,
\* ag_setup_solo main.py).
THEOREM StartedIsWhole == MCSpec => []StartsWhole
<1>1. MCInit => DirInv  BY DirStart DEF MCInit, EdgesInit
<1>2. DirInv /\ [MCNext]_mcVars => DirInv'  BY EachPart, DirStep
<1>3. DirInv => StartsWhole
  BY DEF DirInv, ConnectedInv, Whole, StartsWhole, Dir!StartsWhole
<1> QED  BY <1>1, <1>2, <1>3, PTL DEF MCSpec, mcVars

=============================================================================
