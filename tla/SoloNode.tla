------------------------------ MODULE SoloNode ------------------------------
(***************************************************************************)
(* A solo node: buildSwingset of lib/ag-solo/start.js with the delivery    *)
(* tracker of lib/ag-solo/outbound.js.  Inbound messages and commands each *)
(* start a processKernel call (run the kernel, save a snapshot, hand the   *)
(* new outbound messages over); nothing keeps two calls apart, and the     *)
(* node may crash and restart from its state file at any await.            *)
(*                                                                         *)
(* The kernel and the mailbox device are external: they are modelled from  *)
(* the results start.js and outbound.js rely on.  The body of an outbound  *)
(* message is the incarnation that produced it, which is what tells two    *)
(* messages of the same number apart.                                      *)
(***************************************************************************)
EXTENDS Integers, FiniteSetsExt, SequencesExt

CONSTANTS
    Peers,     \* the machines the kernel has a mailbox for
    Targets,   \* those with a deliverator (connections.json)
    Procs,     \* the processKernel calls that may be under way together
    MaxOut,    \* bound: outbound messages per peer
    MaxIn,     \* bound: inbound messages per peer
    MaxEpoch,  \* bound: incarnations of the process
    MaxCmd     \* bound: commands per incarnation

ASSUME SoloAssumption ==
    /\ Targets \subseteq Peers
    /\ {MaxOut, MaxIn, MaxEpoch, MaxCmd} \subseteq Nat
    /\ MaxEpoch # 0

Phases == {"idle", "running", "saving", "saved"}
Messages == (1..MaxOut) \X (1..MaxEpoch)

\* What a snapshot holds: the inbound numbers delivered to the kernel and
\* acknowledged by it, the outbox with the highest number used, the highest
\* ack received, and whether the kernel has work in its queue.
States ==
    [delivered : [Peers -> 0..MaxIn],
     inboundAck : [Peers -> 0..MaxIn],
     outbox : [Peers -> SUBSET Messages],
     sent : [Peers -> 0..MaxOut],
     acked : [Peers -> 0..MaxOut],
     work : BOOLEAN]

Trackers == [highestSent : 0..MaxOut, highestAck : 0..MaxIn]

VARIABLES
    mem,      \* the live kernel and mailbox state
    stateFile,     \* the state file (swingstate.json)
    phase,    \* where each processKernel call is
    snap,     \* the snapshot a call is writing or has written, blank without one
    tracker,  \* knownTargets: highestSent and highestAck
    up,       \* "down", "booting" or "running"
    epoch,    \* which incarnation this is
    cmds,     \* commands received by this incarnation
    failed,   \* history: a save failed and no call has delivered since
    interrupted,  \* history: a call began, or a message came, during a call
    calls,    \* history: the deliverator calls of this incarnation
    handed,   \* history: every <<number, body>> ever handed over
    ackSent   \* history: the highest ack ever handed over

soloVars == <<mem, stateFile, phase, snap, tracker, up, epoch, cmds, failed, interrupted, calls, handed, ackSent>>

SoloTypeOK ==
    /\ mem \in States
    /\ stateFile \in States
    /\ phase \in [Procs -> Phases]
    /\ snap \in [Procs -> States]
    /\ tracker \in [Targets -> Trackers]
    /\ up \in {"down", "booting", "running"}
    /\ epoch \in 1..MaxEpoch
    /\ cmds \in 0..MaxCmd
    /\ failed \in BOOLEAN /\ interrupted \in BOOLEAN
    /\ calls \in [Targets -> Seq([msgs : SUBSET Messages, ack : 0..MaxIn])]
    /\ handed \in [Targets -> SUBSET Messages]
    /\ ackSent \in [Targets -> 0..MaxIn]

Blank ==
    [delivered |-> [p \in Peers |-> 0],
     inboundAck |-> [p \in Peers |-> 0],
     outbox |-> [p \in Peers |-> {}],
     sent |-> [p \in Peers |-> 0],
     acked |-> [p \in Peers |-> 0],
     work |-> TRUE]

\* addDeliveryTarget: every incarnation starts with nothing sent.
FreshTracker == [t \in Targets |-> [highestSent |-> 0, highestAck |-> 0]]

\* The first start: the kernel has its bootstrap message to run, and the
\* initial processKernel is under way.
SoloInit ==
    /\ mem = Blank
    /\ stateFile = Blank
    /\ \E q \in Procs : phase = [r \in Procs |-> IF r = q THEN "running" ELSE "idle"]
    /\ snap = [q \in Procs |-> Blank]
    /\ tracker = FreshTracker
    /\ up = "booting"
    /\ epoch = 1
    /\ cmds = 0
    /\ failed = FALSE /\ interrupted = FALSE
    /\ calls = [t \in Targets |-> <<>>]
    /\ handed = [t \in Targets |-> {}]
    /\ ackSent = [t \in Targets |-> 0]

-----------------------------------------------------------------------------

Numbers(msgs) == {m[1] : m \in msgs}

\* What mb.deliverInbound does with messages up to number hi and an ack: its
\* result is whether anything in them is new.
IsNews(p, hi, ack) == hi > mem.delivered[p] \/ ack > mem.acked[p]

Accept(p, hi, ack) ==
    [mem EXCEPT !.delivered[p] = Max({@, hi}), !.acked[p] = Max({@, ack}), !.work = TRUE]

\* A processKernel call is under way.
Busy == \E q \in Procs : phase[q] # "idle"

\* A mailbox read from peer p: messages up to hi, and an ack of messages that
\* were handed to it.  Stale reads change nothing and start nothing.
DeliverInbound(p, hi, ack) ==
    /\ up = "running"
    /\ IsNews(p, hi, ack)
    /\ \E q \in Procs :
        /\ phase[q] = "idle"
        /\ phase' = [phase EXCEPT ![q] = "running"]
    /\ mem' = Accept(p, hi, ack)
    /\ interrupted' = (interrupted \/ Busy)
    /\ UNCHANGED <<stateFile, snap, tracker, up, epoch, cmds, failed, calls, handed, ackSent>>

\* A command from the HTTP listener.
DeliverInboundCommand ==
    /\ up = "running"
    /\ cmds < MaxCmd
    /\ \E q \in Procs :
        /\ phase[q] = "idle"
        /\ phase' = [phase EXCEPT ![q] = "running"]
    /\ mem' = [mem EXCEPT !.work = TRUE]
    /\ cmds' = cmds + 1
    /\ interrupted' = (interrupted \/ Busy)
    /\ UNCHANGED <<stateFile, snap, tracker, up, epoch, failed, calls, handed, ackSent>>

\* The kernel works its queue off: acknowledges what was delivered, drops what
\* was acknowledged, and produces a message for some of its peers.
Crank ==
    /\ up # "down"
    /\ mem.work
    /\ \E q \in Procs : phase[q] = "running"
    /\ \E grow \in SUBSET {p \in Peers : mem.sent[p] < MaxOut} :
        LET produced(p) == IF p \in grow THEN {<<mem.sent[p] + 1, epoch>>} ELSE {}
            kept(p) == {m \in mem.outbox[p] : m[1] > mem.acked[p]}
        IN mem' = [mem EXCEPT
            !.inboundAck = mem.delivered,
            !.outbox = [p \in Peers |-> kept(p) \cup produced(p)],
            !.sent = [p \in Peers |-> @[p] + Cardinality(produced(p))],
            !.work = FALSE]
    /\ UNCHANGED <<stateFile, phase, snap, tracker, up, epoch, cmds, failed, interrupted, calls, handed, ackSent>>

\* controller.run() resolves with the queue empty; saveState takes its
\* snapshot at once and starts writing it to a temporary file.
SaveState(q) ==
    /\ phase[q] = "running"
    /\ ~mem.work
    /\ snap' = [snap EXCEPT ![q] = mem]
    /\ phase' = [phase EXCEPT ![q] = "saving"]
    /\ UNCHANGED <<mem, stateFile, tracker, up, epoch, cmds, failed, interrupted, calls, handed, ackSent>>

\* atomicReplaceFile: the rename makes the whole snapshot the state file.
Rename(q) ==
    /\ phase[q] = "saving"
    /\ stateFile' = snap[q]
    /\ phase' = [phase EXCEPT ![q] = "saved"]
    /\ UNCHANGED <<mem, snap, tracker, up, epoch, cmds, failed, interrupted, calls, handed, ackSent>>

\* atomicReplaceFile: opening, writing or renaming throws; the temporary file
\* is removed, processKernel rejects, and nothing is handed over.  When it was
\* the initial call, start() fails and the node is not running.
SaveFails(q) ==
    /\ phase[q] = "saving"
    /\ phase' = [phase EXCEPT ![q] = "idle"]
    /\ up' = IF up = "booting" THEN "down" ELSE up
    /\ failed' = TRUE
    /\ snap' = [snap EXCEPT ![q] = Blank]
    /\ UNCHANGED <<mem, stateFile, tracker, epoch, cmds, interrupted, calls, handed, ackSent>>

\* Mutant: highestSent is taken for the next number to send.
NewMessagesOffByOne(t) == {m \in mem.outbox[t] : m[1] > tracker[t].highestSent + 1}

\* The messages outbound.deliver picks for target t, and whether it calls the
\* deliverator.
NewMessages(t) == {m \in mem.outbox[t] : m[1] > tracker[t].highestSent}
\* Mutant: a new ack alone does not call the deliverator.
InvokedForMessages(t) == NewMessages(t) # {}

Invoked(t) == NewMessages(t) # {} \/ mem.inboundAck[t] # tracker[t].highestAck

\* Mutant: only the ack is noted.
TrackerAfterAck(t) ==
    IF Invoked(t) THEN [tracker[t] EXCEPT !.highestAck = mem.inboundAck[t]] ELSE tracker[t]

TrackerAfter(t) ==
    IF Invoked(t)
    THEN [highestSent |-> Max(Numbers(NewMessages(t)) \cup {tracker[t].highestSent}),
          highestAck |-> mem.inboundAck[t]]
    ELSE tracker[t]

\* Mutant: saveState is not awaited, and its rename comes too late.
DeliverUnsaved(q) ==
    /\ phase[q] = "saving"
    /\ calls' = [t \in Targets |->
                    IF Invoked(t)
                    THEN Append(calls[t], [msgs |-> NewMessages(t), ack |-> mem.inboundAck[t]])
                    ELSE calls[t]]
    /\ handed' = [t \in Targets |-> handed[t] \cup NewMessages(t)]
    /\ ackSent' = [t \in Targets |->
                    IF Invoked(t) THEN Max({ackSent[t], mem.inboundAck[t]}) ELSE ackSent[t]]
    /\ tracker' = [t \in Targets |-> TrackerAfter(t)]
    /\ phase' = [phase EXCEPT ![q] = "idle"]
    /\ up' = "running"
    /\ failed' = FALSE
    /\ snap' = [snap EXCEPT ![q] = Blank]
    /\ UNCHANGED <<mem, stateFile, epoch, cmds, interrupted>>

\* deliver(mbs): hand the live outbox over, and note at once what was handed.
Deliver(q) ==
    /\ phase[q] = "saved"
    /\ calls' = [t \in Targets |->
                    IF Invoked(t)
                    THEN Append(calls[t], [msgs |-> NewMessages(t), ack |-> mem.inboundAck[t]])
                    ELSE calls[t]]
    /\ handed' = [t \in Targets |-> handed[t] \cup NewMessages(t)]
    /\ ackSent' = [t \in Targets |->
                    IF Invoked(t) THEN Max({ackSent[t], mem.inboundAck[t]}) ELSE ackSent[t]]
    /\ tracker' = [t \in Targets |-> TrackerAfter(t)]
    /\ phase' = [phase EXCEPT ![q] = "idle"]
    /\ up' = "running"
    /\ failed' = FALSE
    /\ snap' = [snap EXCEPT ![q] = Blank]
    /\ UNCHANGED <<mem, stateFile, epoch, cmds, interrupted>>

\* The process dies: the state file, whatever it holds, is all that is left.
Crash ==
    /\ up # "down"
    /\ up' = "down"
    /\ phase' = [q \in Procs |-> "idle"]
    /\ snap' = [q \in Procs |-> Blank]
    /\ UNCHANGED <<mem, stateFile, tracker, epoch, cmds, failed, interrupted, calls, handed, ackSent>>

\* start(): read the state file, add the targets, run the kernel once.
Restart ==
    /\ up = "down"
    /\ epoch < MaxEpoch
    /\ up' = "booting"
    /\ epoch' = epoch + 1
    /\ mem' = stateFile
    /\ \E q \in Procs : phase' = [phase EXCEPT ![q] = "running"]
    /\ tracker' = FreshTracker
    /\ cmds' = 0
    /\ failed' = FALSE
    /\ calls' = [t \in Targets |-> <<>>]
    /\ UNCHANGED <<stateFile, snap, interrupted, handed, ackSent>>

ProcStep(q) == SaveState(q) \/ Rename(q) \/ Deliver(q)

\* A peer acks only numbers that were handed to it at some time.
Inbound ==
    \E p \in Targets, hi \in 0..MaxIn :
        \E ack \in {0} \cup Numbers(handed[p]) : DeliverInbound(p, hi, ack)

SoloNext ==
    \/ Inbound
    \/ DeliverInboundCommand
    \/ Crank
    \/ \E q \in Procs : ProcStep(q) \/ SaveFails(q)
    \/ Crash
    \/ Restart

SoloSpec == SoloInit /\ [][SoloNext]_soloVars

\* The event loop keeps running: kernel runs and file operations end.
Fairness == WF_soloVars(Crank) /\ \A q \in Procs : WF_soloVars(ProcStep(q))

FairSolo == SoloSpec /\ Fairness

-----------------------------------------------------------------------------

\* Within one incarnation, the deliverator is handed each message once, in
\* ascending order, with acks that never fall back, however processKernel
\* calls overlap (outbound.js l.13-30).
HandedInOrder ==
    \A t \in Targets : \A i, j \in DOMAIN calls[t] : i < j =>
        /\ \A m \in Numbers(calls[t][i].msgs), n \in Numbers(calls[t][j].msgs) : m < n
        /\ calls[t][i].ack <= calls[t][j].ack

\* The messages that deliver(mbs) hands over are in the state file: processKernel
\* runs the kernel, saves the state and only then delivers (start.js l.103-107).
\* It is so as long as no other call runs the kernel while this one saves, which
\* is what the comment at l.122-123 asks for.
SendsWhatItSaved ==
    \A q \in Procs : phase[q] = "saved" =>
        \A t \in Targets : NewMessages(t) \subseteq stateFile.outbox[t]

\* What was handed over survives a crash, unless calls overlapped (start.js
\* l.103-107).  Two different messages are never handed over under one number,
\* whatever crashes come between.  And an ack is on disk: the peer drops what it
\* acks, so a state file behind it would lose inbound messages for good.
SentSurvives ==
    ~interrupted => \A t \in Targets :
        /\ \A m, n \in handed[t] : m[1] = n[1] => m = n
        /\ ackSent[t] <= stateFile.delivered[t]

\* When no call is under way the deliverator has everything in the outbox and
\* the current ack, however the calls overlapped; only a failed save leaves
\* something for the next call.
IdleMeansSent ==
    up = "running" /\ ~failed /\ ~Busy =>
        \A t \in Targets :
            /\ tracker[t].highestAck = mem.inboundAck[t]
            /\ \A m \in mem.outbox[t] : m[1] <= tracker[t].highestSent

\* What the kernel produced for a known target is handed over, unless the
\* process dies or a save fails first, or calls overlapped.
OutboxDrains ==
    \A t \in Targets : \A m \in Messages :
        m \in mem.outbox[t] /\ up # "down"
            ~> m \in handed[t] \/ up = "down" \/ failed \/ interrupted

=============================================================================
