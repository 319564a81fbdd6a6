--------------------------- MODULE SoloNodeProofs ---------------------------
(***************************************************************************)
(* Theorems about SoloNode, for any number of peers, targets, calls of     *)
(* processKernel, messages and restarts.                                   *)
(***************************************************************************)
EXTENDS SoloNode, FiniteSetTheorems, WellFoundedInduction, TLAPS

\* What every kernel state looks like, in memory, on disk or in a snapshot: it
\* acks only what it was delivered, and has one message per number.
Wellformed(s) ==
    \A p \in Peers :
        /\ s.inboundAck[p] <= s.delivered[p]
        /\ \A m \in s.outbox[p] : m[1] <= s.sent[p]
        /\ \A m, n \in s.outbox[p] : m[1] = n[1] => m = n

StatesWellformed ==
    Wellformed(mem) /\ Wellformed(stateFile) /\ \A q \in Procs : Wellformed(snap[q])

\* The tracker is ahead of all that was handed over in this incarnation.
TrackerInv ==
    \A t \in Targets :
        /\ tracker[t].highestAck <= mem.inboundAck[t]
        /\ \A i \in DOMAIN calls[t] :
             /\ \A m \in calls[t][i].msgs : m[1] <= tracker[t].highestSent
             /\ calls[t][i].ack <= tracker[t].highestAck

\* As long as calls do not overlap, there is one at a time, and what it saves
\* is what it hands over.
OneCall ==
    /\ \A q, r \in Procs : phase[q] # "idle" /\ phase[r] # "idle" => q = r
    /\ up = "down" => ~Busy

SavesLiveState ==
    \A q \in Procs :
        /\ phase[q] = "saving" => snap[q] = mem /\ ~mem.work
        /\ phase[q] = "saved" => stateFile = mem /\ ~mem.work

\* What was handed over is on disk or older than it, and memory is newer.
DiskInv ==
    /\ \A p \in Peers : stateFile.sent[p] <= mem.sent[p] /\ stateFile.delivered[p] <= mem.delivered[p]
    /\ \A t \in Targets :
        /\ ackSent[t] <= stateFile.delivered[t]
        /\ \A m \in handed[t] : m[1] <= stateFile.sent[t]
        /\ \A m, n \in handed[t] : m[1] = n[1] => m = n
        /\ \A m \in handed[t], n \in mem.outbox[t] \cup stateFile.outbox[t] : m[1] = n[1] => m = n

NoOverlapInv == ~interrupted => OneCall /\ SavesLiveState /\ DiskInv

-----------------------------------------------------------------------------

\* A bounded set of numbers that is not empty has the maximum that Max picks.
LEMMA MaxOfBounded ==
    ASSUME NEW n \in Nat, NEW S \in SUBSET (0..n), S # {}
    PROVE  Max(S) \in S /\ \A y \in S : Max(S) >= y
<1> DEFINE less == OpToRel(<, Nat)
           T == {x \in 0..n : n - x \in S}
<1>1. T \subseteq Nat /\ T # {}
  <2>1. PICK y \in S : TRUE
    OBVIOUS
  <2>2. n - y \in 0..n /\ n - (n - y) = y
    BY <2>1
  <2>3. n - y \in T
    BY <2>1, <2>2
  <2>4. T \subseteq Nat
    OBVIOUS
  <2> QED
    BY <2>3, <2>4
<1>2. PICK x \in T : \A y \in T : <<y, x>> \notin less
  <2> HIDE DEF T, less
  <2>1. IsWellFoundedOn(less, Nat)
    BY NatLessThanWellFounded DEF less
  <2> QED
    BY <1>1, <2>1, WFMin
<1>3. \A y \in T : ~(y < x)
  BY <1>1, <1>2 DEF OpToRel
<1>4. n - x \in S /\ \A y \in S : n - x >= y
  <2>1. \A y \in S : n - y \in T
    OBVIOUS
  <2> QED
    BY <1>3, <2>1
<1> QED
  BY <1>4 DEF Max

\* The larger of two numbers.
LEMMA MaxOfTwo ==
    ASSUME NEW a \in Nat, NEW b \in Nat
    PROVE  Max({a, b}) = IF a >= b THEN a ELSE b
<1> DEFINE m == IF a >= b THEN a ELSE b
<1>1. m \in {a, b} /\ \A y \in {a, b} : m >= y
  OBVIOUS
<1>2. \A x \in {a, b} : (\A y \in {a, b} : x >= y) => x = m
  OBVIOUS
<1> QED
  BY <1>1, <1>2 DEF Max

\* Taking inbound messages and an ack only raises what was delivered and acked.
LEMMA AcceptType ==
    ASSUME mem \in States,
           NEW p \in Peers, NEW hi \in 0..MaxIn, NEW ack \in 0..MaxOut
    PROVE  /\ Accept(p, hi, ack) \in States
           /\ \A q \in Peers : mem.delivered[q] <= Accept(p, hi, ack).delivered[q]
           /\ Accept(p, hi, ack).inboundAck = mem.inboundAck
           /\ Accept(p, hi, ack).outbox = mem.outbox
           /\ Accept(p, hi, ack).sent = mem.sent
<1> DEFINE del == Max({mem.delivered[p], hi})
           ackd == Max({mem.acked[p], ack})
<1>1. /\ mem.delivered \in [Peers -> 0..MaxIn]
      /\ mem.acked \in [Peers -> 0..MaxOut]
      /\ MaxIn \in Nat /\ MaxOut \in Nat
  BY SoloAssumption DEF States
<1>2. mem.delivered[p] \in 0..MaxIn /\ mem.acked[p] \in 0..MaxOut
  BY <1>1
<1>3. del \in 0..MaxIn /\ mem.delivered[p] <= del
  BY <1>1, <1>2, MaxOfTwo
<1>4. ackd \in 0..MaxOut
  BY <1>1, <1>2, MaxOfTwo
<1>5. Accept(p, hi, ack) = [mem EXCEPT !.delivered = [mem.delivered EXCEPT ![p] = del],
                                       !.acked = [mem.acked EXCEPT ![p] = ackd],
                                       !.work = TRUE]
  BY DEF Accept, States
<1> HIDE DEF del, ackd
<1>6. /\ [mem.delivered EXCEPT ![p] = del] \in [Peers -> 0..MaxIn]
      /\ [mem.acked EXCEPT ![p] = ackd] \in [Peers -> 0..MaxOut]
  BY <1>1, <1>3, <1>4
<1>7. \A q \in Peers : mem.delivered[q] <= [mem.delivered EXCEPT ![p] = del][q]
  BY <1>1, <1>3
<1> QED
  BY <1>5, <1>6, <1>7 DEF States

\* A run of the kernel acks what was delivered, and adds at most one message
\* per peer, of the next number, to what is left of the outbox.
LEMMA CrankMemory ==
    ASSUME SoloTypeOK, Crank
    PROVE  /\ mem' \in States
           /\ mem'.delivered = mem.delivered
           /\ mem'.inboundAck = mem.delivered
           /\ \A p \in Peers :
                /\ mem.sent[p] <= mem'.sent[p]
                /\ \A m \in mem'.outbox[p] :
                     \/ m \in mem.outbox[p]
                     \/ /\ m = <<mem.sent[p] + 1, epoch>>
                        /\ mem'.sent[p] = mem.sent[p] + 1
<1> DEFINE produced(grow, p) == IF p \in grow THEN {<<mem.sent[p] + 1, epoch>>} ELSE {}
           kept(p) == {m \in mem.outbox[p] : m[1] > mem.acked[p]}
           outbox(grow) == [p \in Peers |-> kept(p) \cup produced(grow, p)]
           sent(grow) == [p \in Peers |-> mem.sent[p] + Cardinality(produced(grow, p))]
<1>1. /\ mem \in States
      /\ mem.delivered \in [Peers -> 0..MaxIn]
      /\ mem.outbox \in [Peers -> SUBSET Messages]
      /\ mem.sent \in [Peers -> 0..MaxOut]
      /\ MaxOut \in Nat /\ epoch \in 1..MaxEpoch
  BY SoloAssumption DEF SoloTypeOK, States
<1>2. PICK grow \in SUBSET {p \in Peers : mem.sent[p] < MaxOut} :
        mem' = [mem EXCEPT !.inboundAck = mem.delivered,
                           !.outbox = outbox(grow),
                           !.sent = sent(grow),
                           !.work = FALSE]
  BY <1>1 DEF Crank
<1>3. ASSUME NEW p \in Peers
      PROVE  /\ produced(grow, p) \in SUBSET Messages
             /\ sent(grow)[p] \in 0..MaxOut
             /\ mem.sent[p] <= sent(grow)[p]
             /\ kept(p) \in SUBSET Messages
             /\ \A m \in produced(grow, p) :
                  m = <<mem.sent[p] + 1, epoch>> /\ sent(grow)[p] = mem.sent[p] + 1
  <2>0. mem.sent[p] \in 0..MaxOut /\ mem.outbox[p] \in SUBSET Messages
    BY <1>1
  <2>1. CASE p \in grow
    <3>1. Cardinality(produced(grow, p)) = 1
      BY <2>1, FS_Singleton
    <3>2. mem.sent[p] < MaxOut
      BY <2>1
    <3>3. <<mem.sent[p] + 1, epoch>> \in Messages
      BY <1>1, <2>0, <3>2 DEF Messages
    <3>4. sent(grow)[p] = mem.sent[p] + 1
      BY <3>1
    <3> QED
      BY <1>1, <2>0, <2>1, <3>2, <3>3, <3>4
  <2>2. CASE p \notin grow
    <3>1. Cardinality(produced(grow, p)) = 0
      BY <2>2, FS_EmptySet
    <3>2. sent(grow)[p] = mem.sent[p]
      BY <1>1, <2>0, <3>1
    <3> QED
      BY <1>1, <2>0, <2>2, <3>2
  <2> QED
    BY <2>1, <2>2
<1>4. outbox(grow) \in [Peers -> SUBSET Messages]
  BY <1>3
<1>5. sent(grow) \in [Peers -> 0..MaxOut]
  BY <1>3
<1>6. mem' \in States
  <2> HIDE DEF outbox, sent
  <2> QED
    BY <1>1, <1>2, <1>4, <1>5 DEF States
<1>7. /\ mem'.delivered = mem.delivered
      /\ mem'.inboundAck = mem.delivered
      /\ mem'.outbox = outbox(grow)
      /\ mem'.sent = sent(grow)
  <2> HIDE DEF outbox, sent
  <2> QED
    BY <1>1, <1>2 DEF States
<1>8. ASSUME NEW p \in Peers, NEW m \in mem'.outbox[p]
      PROVE  \/ m \in mem.outbox[p]
             \/ m = <<mem.sent[p] + 1, epoch>> /\ mem'.sent[p] = mem.sent[p] + 1
  <2>1. m \in kept(p) \/ m \in produced(grow, p)
    BY <1>7
  <2> QED
    BY <2>1, <1>3, <1>7
<1> QED
  BY <1>3, <1>6, <1>7, <1>8

\* The numbers of messages are within the bound.
LEMMA NumbersBounded ==
    ASSUME NEW S \in SUBSET Messages
    PROVE  Numbers(S) \in SUBSET (1..MaxOut)
BY DEF Numbers, Messages

\* What deliver picks for a target, and how it moves the target's tracker.
LEMMA DeliverPicks ==
    ASSUME SoloTypeOK, NEW t \in Targets
    PROVE  /\ NewMessages(t) \in SUBSET Messages
           /\ TrackerAfter(t) \in Trackers
           /\ TrackerAfter(t).highestAck = mem.inboundAck[t]
           /\ tracker[t].highestSent <= TrackerAfter(t).highestSent
           /\ \A m \in mem.outbox[t] : m[1] <= TrackerAfter(t).highestSent
           /\ mem.inboundAck[t] \in 0..MaxIn
<1>1. /\ mem \in States /\ tracker[t] \in Trackers
      /\ t \in Peers /\ MaxOut \in Nat /\ MaxIn \in Nat
  BY SoloAssumption DEF SoloTypeOK
<1>2. mem.outbox[t] \in SUBSET Messages /\ mem.inboundAck[t] \in 0..MaxIn
  BY <1>1 DEF States
<1>3. tracker[t].highestSent \in 0..MaxOut /\ tracker[t].highestAck \in 0..MaxIn
  BY <1>1 DEF Trackers
<1>4. NewMessages(t) \in SUBSET Messages
  BY <1>2 DEF NewMessages
<1>5. \A m \in mem.outbox[t] : m[1] \in 1..MaxOut
  BY <1>2 DEF Messages
<1>6. CASE Invoked(t)
  <2> DEFINE S == Numbers(NewMessages(t)) \cup {tracker[t].highestSent}
  <2>1. S \in SUBSET (0..MaxOut) /\ S # {}
    BY <1>1, <1>3, <1>4, NumbersBounded
  <2>2. Max(S) \in 0..MaxOut /\ \A y \in S : Max(S) >= y
    BY <1>1, <2>1, MaxOfBounded
  <2>3. TrackerAfter(t) = [highestSent |-> Max(S), highestAck |-> mem.inboundAck[t]]
    BY <1>6 DEF TrackerAfter
  <2>4. tracker[t].highestSent <= Max(S)
    BY <1>1, <1>3, <2>2
  <2>5. ASSUME NEW m \in mem.outbox[t]
        PROVE  m[1] <= Max(S)
    <3>1. CASE m[1] > tracker[t].highestSent
      <4>1. m[1] \in S
        BY <3>1 DEF NewMessages, Numbers
      <4> QED
        BY <1>5, <2>2, <4>1
    <3>2. CASE ~(m[1] > tracker[t].highestSent)
      BY <1>1, <1>3, <1>5, <2>2, <2>4, <3>2
    <3> QED
      BY <3>1, <3>2
  <2> HIDE DEF S
  <2> QED
    BY <1>2, <1>4, <2>2, <2>3, <2>4, <2>5 DEF Trackers
<1>7. CASE ~Invoked(t)
  <2>1. TrackerAfter(t) = tracker[t] /\ tracker[t].highestAck = mem.inboundAck[t]
    BY <1>7 DEF TrackerAfter, Invoked
  <2>2. \A m \in mem.outbox[t] : ~(m[1] > tracker[t].highestSent)
    BY <1>7 DEF Invoked, NewMessages
  <2> QED
    BY <1>1, <1>2, <1>3, <1>4, <1>5, <2>1, <2>2
<1> QED
  BY <1>6, <1>7

\* A sequence stays one of its type when an element is appended.
LEMMA AppendTyped ==
    ASSUME NEW S, NEW s \in Seq(S), NEW e \in S
    PROVE  Append(s, e) \in Seq(S)
OBVIOUS

\* A fresh kernel and a fresh tracker are of their types.
LEMMA FreshTypes ==
    Blank \in States /\ FreshTracker \in [Targets -> Trackers]
<1>1. 0 \in 0..MaxIn /\ 0 \in 0..MaxOut
  BY SoloAssumption
<1> QED
  BY <1>1 DEF Blank, States, FreshTracker, Trackers

\* The type invariant holds in every step.
LEMMA TypeStep ==
    ASSUME SoloTypeOK, [SoloNext]_soloVars
    PROVE  SoloTypeOK'
<1> USE DEF SoloTypeOK
<1>0. /\ Targets \subseteq Peers /\ MaxOut \in Nat /\ MaxIn \in Nat
      /\ MaxEpoch \in Nat /\ MaxCmd \in Nat
  BY SoloAssumption
<1>1. CASE Inbound
  <2>1. PICK p \in Targets, hi \in 0..MaxIn : \E ack \in {0} \cup Numbers(handed[p]) :
          DeliverInbound(p, hi, ack)
    BY <1>1 DEF Inbound
  <2>2. PICK ack \in {0} \cup Numbers(handed[p]) : DeliverInbound(p, hi, ack)
    BY <2>1
  <2>3. ack \in 0..MaxOut
    <3>1. handed[p] \in SUBSET Messages
      OBVIOUS
    <3>2. Numbers(handed[p]) \in SUBSET (1..MaxOut)
      BY <3>1, NumbersBounded
    <3> QED
      BY <1>0, <3>2
  <2>4. mem' \in States
    BY <1>0, <2>2, <2>3, AcceptType DEF DeliverInbound
  <2>5. phase' \in [Procs -> Phases]
    BY <2>2 DEF DeliverInbound, Phases
  <2>6. interrupted' \in BOOLEAN
    BY <2>2 DEF DeliverInbound
  <2> QED
    BY <2>2, <2>4, <2>5, <2>6 DEF DeliverInbound
<1>2. CASE DeliverInboundCommand
  <2>1. mem' \in States
    BY <1>2 DEF DeliverInboundCommand, States
  <2>2. phase' \in [Procs -> Phases]
    BY <1>2 DEF DeliverInboundCommand, Phases
  <2>3. cmds' \in 0..MaxCmd
    BY <1>0, <1>2 DEF DeliverInboundCommand
  <2>4. interrupted' \in BOOLEAN
    BY <1>2 DEF DeliverInboundCommand
  <2> QED
    BY <1>2, <2>1, <2>2, <2>3, <2>4 DEF DeliverInboundCommand
<1>3. CASE Crank
  <2>1. mem' \in States
    BY <1>3, CrankMemory
  <2> QED
    BY <1>3, <2>1 DEF Crank
<1>4. ASSUME NEW q \in Procs, SaveState(q) PROVE SoloTypeOK'
  BY <1>4 DEF SaveState, Phases
<1>5. ASSUME NEW q \in Procs, Rename(q) PROVE SoloTypeOK'
  BY <1>5 DEF Rename, Phases
<1>6. ASSUME NEW q \in Procs, SaveFails(q) PROVE SoloTypeOK'
  <2>1. snap' \in [Procs -> States] /\ phase' \in [Procs -> Phases]
    BY <1>6, FreshTypes DEF SaveFails, Phases
  <2> QED
    BY <1>6, <2>1 DEF SaveFails
<1>7. ASSUME NEW q \in Procs, Deliver(q) PROVE SoloTypeOK'
  <2>1. \A t \in Targets : /\ NewMessages(t) \in SUBSET Messages
                           /\ TrackerAfter(t) \in Trackers
                           /\ mem.inboundAck[t] \in 0..MaxIn
    BY DeliverPicks
  <2>2. tracker' \in [Targets -> Trackers]
    BY <1>7, <2>1 DEF Deliver
  <2>3. handed' \in [Targets -> SUBSET Messages]
    BY <1>7, <2>1 DEF Deliver
  <2>4. ASSUME NEW t \in Targets
        PROVE  Max({ackSent[t], mem.inboundAck[t]}) \in 0..MaxIn
    <3>1. ackSent[t] \in 0..MaxIn /\ mem.inboundAck[t] \in 0..MaxIn
      BY <2>1
    <3>2. ackSent[t] \in Nat /\ mem.inboundAck[t] \in Nat
      BY <1>0, <3>1
    <3> QED
      BY <3>1, <3>2, MaxOfTwo
  <2>5. ackSent' \in [Targets -> 0..MaxIn]
    BY <1>7, <2>4 DEF Deliver
  <2>6. ASSUME NEW t \in Targets
        PROVE  Append(calls[t], [msgs |-> NewMessages(t), ack |-> mem.inboundAck[t]])
                 \in Seq([msgs : SUBSET Messages, ack : 0..MaxIn])
    <3> DEFINE S == [msgs : SUBSET Messages, ack : 0..MaxIn]
    <3>1. [msgs |-> NewMessages(t), ack |-> mem.inboundAck[t]] \in S
      BY <2>1
    <3>2. calls[t] \in Seq(S)
      OBVIOUS
    <3> QED
      BY <3>1, <3>2, AppendTyped
  <2>7. calls' \in [Targets -> Seq([msgs : SUBSET Messages, ack : 0..MaxIn])]
    BY <1>7, <2>6 DEF Deliver
  <2>8. snap' \in [Procs -> States] /\ phase' \in [Procs -> Phases]
    BY <1>7, FreshTypes DEF Deliver, Phases
  <2> QED
    BY <1>7, <2>2, <2>3, <2>5, <2>7, <2>8 DEF Deliver
<1>8. CASE Crash
  BY <1>8, FreshTypes DEF Crash, Phases
<1>9. CASE Restart
  <2>1. phase' \in [Procs -> Phases]
    BY <1>9 DEF Restart, Phases
  <2>2. epoch' \in 1..MaxEpoch /\ cmds' \in 0..MaxCmd
    BY <1>0, <1>9 DEF Restart
  <2>3. calls' \in [Targets -> Seq([msgs : SUBSET Messages, ack : 0..MaxIn])]
    BY <1>9 DEF Restart
  <2> QED
    BY <1>9, <2>1, <2>2, <2>3, FreshTypes DEF Restart
<1>10. CASE UNCHANGED soloVars
  BY <1>10 DEF soloVars
<1> QED
  BY <1>1, <1>2, <1>3, <1>4, <1>5, <1>6, <1>7, <1>8, <1>9, <1>10 DEF SoloNext, ProcStep

\* Every variable stays within its type: no step leaves the bounds.
THEOREM TypeCorrect == SoloSpec => []SoloTypeOK
<1>1. SoloInit => SoloTypeOK
  <2>1. SUFFICES ASSUME SoloInit PROVE SoloTypeOK
    OBVIOUS
  <2>2. phase \in [Procs -> Phases]
    BY <2>1 DEF SoloInit, Phases
  <2>3. epoch \in 1..MaxEpoch /\ cmds \in 0..MaxCmd /\ 0 \in 0..MaxIn
    BY <2>1, SoloAssumption DEF SoloInit
  <2>4. calls \in [Targets -> Seq([msgs : SUBSET Messages, ack : 0..MaxIn])]
    BY <2>1 DEF SoloInit
  <2> QED
    BY <2>1, <2>2, <2>3, <2>4, FreshTypes DEF SoloInit, SoloTypeOK
<1> QED
  BY <1>1, TypeStep, PTL DEF SoloSpec

\* Every kernel state there is stays well formed: a run of the kernel is the
\* only step that makes messages and acks, and saving and restarting copy.
LEMMA WellformedStep ==
    ASSUME SoloTypeOK, StatesWellformed, [SoloNext]_soloVars
    PROVE  StatesWellformed'
<1>0. /\ mem \in States /\ stateFile \in States /\ snap \in [Procs -> States]
      /\ MaxOut \in Nat /\ MaxIn \in Nat /\ Targets \subseteq Peers
  BY SoloAssumption DEF SoloTypeOK
<1>b. Wellformed(Blank)
  BY DEF Wellformed, Blank
<1>1. CASE Inbound
  <2>1. PICK p \in Targets, hi \in 0..MaxIn : \E ack \in {0} \cup Numbers(handed[p]) :
          DeliverInbound(p, hi, ack)
    BY <1>1 DEF Inbound
  <2>2. PICK ack \in {0} \cup Numbers(handed[p]) : DeliverInbound(p, hi, ack)
    BY <2>1
  <2>3. ack \in 0..MaxOut
    <3>1. handed[p] \in SUBSET Messages
      BY DEF SoloTypeOK
    <3> QED
      BY <1>0, <3>1, NumbersBounded
  <2>4. /\ mem' \in States /\ p \in Peers
        /\ \A r \in Peers : mem.delivered[r] <= mem'.delivered[r]
        /\ mem'.inboundAck = mem.inboundAck
        /\ mem'.outbox = mem.outbox
        /\ mem'.sent = mem.sent
    BY <1>0, <2>2, <2>3, AcceptType DEF DeliverInbound
  <2>5. Wellformed(mem')
    <3>1. ASSUME NEW r \in Peers
          PROVE  mem'.inboundAck[r] <= mem'.delivered[r]
      <4>1. /\ mem.inboundAck[r] \in Nat /\ mem.delivered[r] \in Nat
            /\ mem'.delivered[r] \in Nat
        BY <1>0, <2>4 DEF States
      <4>2. mem.inboundAck[r] <= mem.delivered[r]
        BY DEF StatesWellformed, Wellformed
      <4> QED
        BY <2>4, <4>1, <4>2
    <3> QED
      BY <2>4, <3>1 DEF StatesWellformed, Wellformed
  <2> QED
    BY <2>2, <2>5 DEF DeliverInbound, StatesWellformed
<1>2. CASE DeliverInboundCommand
  <2>1. mem' = [mem EXCEPT !.work = TRUE] /\ UNCHANGED <<stateFile, snap>>
    BY <1>2 DEF DeliverInboundCommand
  <2> QED
    BY <1>0, <2>1 DEF StatesWellformed, Wellformed, States
<1>3. CASE Crank
  <2>1. /\ mem' \in States
        /\ mem'.delivered = mem.delivered
        /\ mem'.inboundAck = mem.delivered
        /\ \A p \in Peers :
             /\ mem.sent[p] <= mem'.sent[p]
             /\ \A m \in mem'.outbox[p] :
                  \/ m \in mem.outbox[p]
                  \/ /\ m = <<mem.sent[p] + 1, epoch>>
                     /\ mem'.sent[p] = mem.sent[p] + 1
    BY <1>3, CrankMemory
  <2>2. ASSUME NEW p \in Peers
        PROVE  /\ mem'.inboundAck[p] <= mem'.delivered[p]
               /\ \A m \in mem'.outbox[p] : m[1] <= mem'.sent[p]
               /\ \A m, n \in mem'.outbox[p] : m[1] = n[1] => m = n
    <3>1. /\ mem.sent[p] \in Nat /\ mem'.sent[p] \in Nat /\ mem.delivered[p] \in Nat
          /\ mem.outbox[p] \in SUBSET Messages
      BY <1>0, <2>1 DEF States
    <3>2. /\ \A m \in mem.outbox[p] : m[1] <= mem.sent[p] /\ m[1] \in Nat
          /\ \A m, n \in mem.outbox[p] : m[1] = n[1] => m = n
      BY <3>1 DEF StatesWellformed, Wellformed, Messages
    <3>3. \A m \in mem'.outbox[p] :
            \/ m \in mem.outbox[p]
            \/ m = <<mem.sent[p] + 1, epoch>> /\ mem'.sent[p] = mem.sent[p] + 1
      BY <2>1
    <3>4. ASSUME NEW m \in mem'.outbox[p]
          PROVE  m[1] <= mem'.sent[p]
      BY <2>1, <3>1, <3>2, <3>3
    <3>5. ASSUME NEW m \in mem'.outbox[p], NEW n \in mem'.outbox[p], m[1] = n[1]
          PROVE  m = n
      BY <3>1, <3>2, <3>3, <3>5
    <3> QED
      BY <2>1, <3>1, <3>4, <3>5
  <2>3. Wellformed(mem')
    BY <2>2 DEF Wellformed
  <2> QED
    BY <1>3, <2>3 DEF Crank, StatesWellformed
<1>4. ASSUME NEW q \in Procs, SaveState(q) PROVE StatesWellformed'
  BY <1>0, <1>4 DEF SaveState, StatesWellformed
<1>5. ASSUME NEW q \in Procs, ProcStep(q) \/ SaveFails(q) PROVE StatesWellformed'
  <2>1. CASE Rename(q)
    BY <1>0, <2>1 DEF Rename, StatesWellformed
  <2>2. CASE SaveFails(q) \/ Deliver(q)
    <3>1. UNCHANGED <<mem, stateFile>> /\ snap' = [snap EXCEPT ![q] = Blank]
      BY <2>2 DEF SaveFails, Deliver
    <3> QED
      BY <1>0, <1>b, <3>1 DEF StatesWellformed
  <2> QED
    BY <1>4, <1>5, <2>1, <2>2 DEF ProcStep
<1>6. CASE Crash
  BY <1>6, <1>b DEF Crash, StatesWellformed
<1>7. CASE Restart
  BY <1>7 DEF Restart, StatesWellformed
<1>8. CASE UNCHANGED soloVars
  BY <1>8 DEF soloVars, StatesWellformed
<1> QED
  BY <1>1, <1>2, <1>3, <1>5, <1>6, <1>7, <1>8 DEF SoloNext

\* Every kernel state there is, in memory, on disk or in a snapshot, is always
\* well formed.
LEMMA StatesStayWellformed == SoloSpec => []StatesWellformed
<1>1. SoloInit => StatesWellformed
  BY DEF SoloInit, StatesWellformed, Wellformed, Blank
<1> QED
  BY <1>1, WellformedStep, TypeCorrect, PTL DEF SoloSpec

\* The inductive invariant of the deliverator calls: the tracker is ahead of
\* them, and they are in order.
CallsInv == TrackerInv /\ HandedInOrder

\* A call of the deliverator that the tracker allows comes after all before it.
LEMMA CallsStep ==
    ASSUME SoloTypeOK, StatesWellformed, CallsInv, [SoloNext]_soloVars
    PROVE  CallsInv'
<1>0. /\ mem \in States /\ Targets \subseteq Peers
      /\ tracker \in [Targets -> Trackers]
      /\ calls \in [Targets -> Seq([msgs : SUBSET Messages, ack : 0..MaxIn])]
      /\ MaxOut \in Nat /\ MaxIn \in Nat
  BY SoloAssumption DEF SoloTypeOK
<1>1. ASSUME UNCHANGED <<tracker, calls>>,
             \A t \in Targets : mem'.inboundAck[t] \in Nat /\ mem.inboundAck[t] <= mem'.inboundAck[t]
      PROVE  CallsInv'
  <2>1. ASSUME NEW t \in Targets
        PROVE  tracker[t].highestAck <= mem'.inboundAck[t]
    <3>1. mem.inboundAck[t] \in Nat
      BY <1>0 DEF States
    <3>2. tracker[t].highestAck \in Nat
      <4>1. tracker[t] \in Trackers
        BY <1>0
      <4> QED
        BY <1>0, <4>1 DEF Trackers
    <3>3. tracker[t].highestAck <= mem.inboundAck[t]
      BY DEF CallsInv, TrackerInv
    <3> QED
      BY <1>1, <3>1, <3>2, <3>3
  <2>2. TrackerInv'
    BY <1>1, <2>1 DEF CallsInv, TrackerInv
  <2> QED
    BY <1>1, <2>2 DEF CallsInv, HandedInOrder
<1>2. \A t \in Targets : mem.inboundAck[t] \in Nat /\ mem.delivered[t] \in Nat
  BY <1>0 DEF States
<1>3. CASE Inbound
  <2>1. PICK p \in Targets, hi \in 0..MaxIn : \E ack \in {0} \cup Numbers(handed[p]) :
          DeliverInbound(p, hi, ack)
    BY <1>3 DEF Inbound
  <2>2. mem'.inboundAck = mem.inboundAck /\ UNCHANGED <<tracker, calls>>
    BY <1>0, <2>1 DEF DeliverInbound, Accept, States
  <2> QED
    BY <1>1, <1>2, <2>2
<1>4. CASE DeliverInboundCommand
  <2>1. mem'.inboundAck = mem.inboundAck /\ UNCHANGED <<tracker, calls>>
    BY <1>0, <1>4 DEF DeliverInboundCommand, States
  <2> QED
    BY <1>1, <1>2, <2>1
<1>5. CASE Crank
  <2>1. mem'.inboundAck = mem.delivered
    BY <1>5, CrankMemory
  <2>2. UNCHANGED <<tracker, calls>>
    BY <1>5 DEF Crank
  <2>3. \A t \in Targets : mem.inboundAck[t] <= mem.delivered[t]
    BY <1>0 DEF StatesWellformed, Wellformed
  <2> QED
    BY <1>1, <1>2, <2>1, <2>2, <2>3
<1>6. ASSUME NEW q \in Procs, SaveState(q) \/ Rename(q) \/ SaveFails(q) PROVE CallsInv'
  <2>1. UNCHANGED <<mem, tracker, calls>>
    BY <1>6 DEF SaveState, Rename, SaveFails
  <2> QED
    BY <1>1, <1>2, <2>1
<1>7. ASSUME NEW q \in Procs, Deliver(q) PROVE CallsInv'
  <2>1. ASSUME NEW t \in Targets
        PROVE  /\ tracker'[t] = TrackerAfter(t)
               /\ mem' = mem
               /\ calls'[t] = IF Invoked(t)
                              THEN Append(calls[t], [msgs |-> NewMessages(t), ack |-> mem.inboundAck[t]])
                              ELSE calls[t]
    BY <1>7 DEF Deliver
  <2>2. ASSUME NEW t \in Targets
        PROVE  /\ tracker'[t].highestAck <= mem'.inboundAck[t]
               /\ \A i \in DOMAIN calls'[t] :
                    /\ \A m \in calls'[t][i].msgs : m[1] <= tracker'[t].highestSent
                    /\ calls'[t][i].ack <= tracker'[t].highestAck
               /\ \A i, j \in DOMAIN calls'[t] : i < j =>
                    /\ \A m \in Numbers(calls'[t][i].msgs), n \in Numbers(calls'[t][j].msgs) : m < n
                    /\ calls'[t][i].ack <= calls'[t][j].ack
    <3> DEFINE S == [msgs : SUBSET Messages, ack : 0..MaxIn]
               c == calls[t]
               e == [msgs |-> NewMessages(t), ack |-> mem.inboundAck[t]]
               hs == TrackerAfter(t).highestSent
    <3>1. /\ NewMessages(t) \in SUBSET Messages
          /\ TrackerAfter(t) \in Trackers
          /\ TrackerAfter(t).highestAck = mem.inboundAck[t]
          /\ tracker[t].highestSent <= hs
          /\ \A m \in mem.outbox[t] : m[1] <= hs
      BY DeliverPicks
    <3>2. hs \in Nat /\ tracker[t].highestSent \in Nat /\ tracker[t].highestAck \in Nat
      <4>1. tracker[t] \in Trackers
        BY <1>0
      <4> QED
        BY <1>0, <3>1, <4>1 DEF Trackers
    <3>3. c \in Seq(S)
      BY <1>0
    <3>4. /\ tracker[t].highestAck <= mem.inboundAck[t]
          /\ \A i \in DOMAIN c :
               /\ \A m \in c[i].msgs : m[1] <= tracker[t].highestSent
               /\ c[i].ack <= tracker[t].highestAck
          /\ \A i, j \in DOMAIN c : i < j =>
               /\ \A m \in Numbers(c[i].msgs), n \in Numbers(c[j].msgs) : m < n
               /\ c[i].ack <= c[j].ack
      BY DEF CallsInv, TrackerInv, HandedInOrder
    <3>5. \A i \in DOMAIN c : c[i].ack \in Nat /\ \A m \in c[i].msgs : m[1] \in Nat
      <4>1. \A i \in DOMAIN c : c[i] \in S
        <5> HIDE DEF c, S
        <5> QED
          BY <3>3
      <4>2. \A m \in Messages : m[1] \in Nat
        BY DEF Messages
      <4> QED
        BY <1>0, <4>1, <4>2
    <3>6. mem.inboundAck[t] \in Nat
      BY <1>2
    <3>7. \A i \in DOMAIN c :
            /\ \A m \in c[i].msgs : m[1] <= hs
            /\ c[i].ack <= mem.inboundAck[t]
      <4> HIDE DEF c, hs
      <4> QED
        BY <3>1, <3>2, <3>4, <3>5, <3>6
    <3>8. CASE ~Invoked(t)
      <4>1. calls'[t] = c
        BY <2>1, <3>8
      <4>2. tracker'[t].highestAck = mem.inboundAck[t] /\ tracker'[t].highestSent = hs
        BY <2>1, <3>1
      <4>3. mem'.inboundAck[t] = mem.inboundAck[t]
        BY <2>1
      <4> HIDE DEF c, hs
      <4> QED
        BY <3>4, <3>6, <3>7, <4>1, <4>2, <4>3
    <3>9. CASE Invoked(t)
      <4>1. calls'[t] = Append(c, e)
        BY <2>1, <3>9
      <4>2. /\ DOMAIN Append(c, e) = 1..(Len(c) + 1)
            /\ \A i \in DOMAIN c : Append(c, e)[i] = c[i]
            /\ Append(c, e)[Len(c) + 1] = e
            /\ DOMAIN c = 1..Len(c) /\ Len(c) \in Nat
        <5> HIDE DEF c, e, S
        <5> QED
          BY <3>3
      <4>3. e.msgs = NewMessages(t) /\ e.ack = mem.inboundAck[t]
        OBVIOUS
      <4>4. \A m \in NewMessages(t) : /\ m[1] > tracker[t].highestSent /\ m[1] \in Nat
                                      /\ m[1] <= hs
        BY <3>1 DEF NewMessages, Messages
      <4> HIDE DEF c, e, S, hs
      <4>5. \A i \in DOMAIN Append(c, e) :
              /\ \A m \in Append(c, e)[i].msgs : m[1] <= hs
              /\ Append(c, e)[i].ack <= mem.inboundAck[t]
        BY <3>6, <3>7, <4>2, <4>3, <4>4
      <4>6. ASSUME NEW i \in DOMAIN Append(c, e), NEW j \in DOMAIN Append(c, e), i < j
            PROVE  /\ \A m \in Numbers(Append(c, e)[i].msgs), n \in Numbers(Append(c, e)[j].msgs) : m < n
                   /\ Append(c, e)[i].ack <= Append(c, e)[j].ack
        <5>1. i \in DOMAIN c /\ Append(c, e)[i] = c[i]
          BY <4>2, <4>6
        <5>2. CASE j \in DOMAIN c
          BY <3>4, <4>2, <4>6, <5>1, <5>2
        <5>3. CASE j = Len(c) + 1
          <6>1. Append(c, e)[j] = e
            BY <4>2, <5>3
          <6>2. ASSUME NEW m \in c[i].msgs, NEW n \in NewMessages(t)
                PROVE  m[1] < n[1]
            BY <3>2, <3>4, <3>5, <4>4, <5>1
          <6>3. \A m \in Numbers(c[i].msgs), n \in Numbers(e.msgs) : m < n
            BY <4>3, <6>2 DEF Numbers
          <6> QED
            BY <3>7, <4>3, <5>1, <6>1, <6>3
        <5> QED
          BY <4>2, <5>2, <5>3, SMTT(30)
      <4>7. tracker'[t].highestAck = mem.inboundAck[t] /\ tracker'[t].highestSent = hs
        BY <2>1, <3>1 DEF hs
      <4>8. mem'.inboundAck[t] = mem.inboundAck[t]
        BY <2>1
      <4> QED
        BY <3>6, <4>1, <4>5, <4>6, <4>7, <4>8
    <3> QED
      BY <3>8, <3>9
  <2> QED
    BY <2>2 DEF CallsInv, TrackerInv, HandedInOrder
<1>8. CASE Crash
  <2>1. UNCHANGED <<mem, tracker, calls>>
    BY <1>8 DEF Crash
  <2> QED
    BY <1>1, <1>2, <2>1
<1>9. CASE Restart
  <2>1. mem' = stateFile /\ tracker' = FreshTracker /\ calls' = [t \in Targets |-> <<>>]
    BY <1>9 DEF Restart
  <2>2. \A t \in Targets : 0 <= stateFile.inboundAck[t]
    BY <1>0 DEF SoloTypeOK, States
  <2> QED
    BY <2>1, <2>2 DEF CallsInv, TrackerInv, HandedInOrder, FreshTracker
<1>10. CASE UNCHANGED soloVars
  <2>1. UNCHANGED <<mem, tracker, calls>>
    BY <1>10 DEF soloVars
  <2> QED
    BY <1>1, <1>2, <2>1
<1> QED
  BY <1>3, <1>4, <1>5, <1>6, <1>7, <1>8, <1>9, <1>10 DEF SoloNext, ProcStep

\* Within one incarnation the deliverator is handed each message once, in
\* ascending order, with acks that never fall back, however processKernel
\* calls overlap (outbound.js l.13-30).
THEOREM CallsInOrder == SoloSpec => []HandedInOrder
<1>1. SoloInit => CallsInv
  <2>1. \A t \in Peers : 0 <= Blank.inboundAck[t]
    BY DEF Blank
  <2> QED
    BY <2>1, SoloAssumption DEF SoloInit, CallsInv, TrackerInv, HandedInOrder, FreshTracker
<1>2. CallsInv => HandedInOrder
  BY DEF CallsInv
<1> QED
  BY <1>1, <1>2, CallsStep, TypeCorrect, StatesStayWellformed, PTL DEF SoloSpec

-----------------------------------------------------------------------------

\* Handing over what the tracker does not know of leaves nothing in the outbox
\* and no ack, and only steps that come with a call under way add to them.
LEMMA IdleStep ==
    ASSUME SoloTypeOK, IdleMeansSent, [SoloNext]_soloVars
    PROVE  IdleMeansSent'
<1>0. phase \in [Procs -> Phases]
  BY DEF SoloTypeOK
<1>1. CASE Inbound
  <2>1. \E p \in Targets, hi \in 0..MaxIn : \E ack \in {0} \cup Numbers(handed[p]) :
          DeliverInbound(p, hi, ack)
    BY <1>1 DEF Inbound
  <2>2. Busy'
    BY <1>0, <2>1 DEF DeliverInbound, Busy
  <2> QED
    BY <2>2 DEF IdleMeansSent
<1>2. CASE DeliverInboundCommand
  <2>1. Busy'
    BY <1>0, <1>2 DEF DeliverInboundCommand, Busy
  <2> QED
    BY <2>1 DEF IdleMeansSent
<1>3. CASE Crank
  <2>1. Busy'
    BY <1>3 DEF Crank, Busy
  <2> QED
    BY <2>1 DEF IdleMeansSent
<1>4. ASSUME NEW q \in Procs, SaveState(q) \/ Rename(q) PROVE IdleMeansSent'
  <2>1. Busy'
    BY <1>0, <1>4 DEF SaveState, Rename, Busy
  <2> QED
    BY <2>1 DEF IdleMeansSent
<1>5. ASSUME NEW q \in Procs, SaveFails(q) PROVE IdleMeansSent'
  BY <1>5 DEF SaveFails, IdleMeansSent
<1>6. ASSUME NEW q \in Procs, Deliver(q) PROVE IdleMeansSent'
  <2>1. \A t \in Targets : tracker'[t] = TrackerAfter(t) /\ mem' = mem
    BY <1>6 DEF Deliver
  <2>2. \A t \in Targets : /\ TrackerAfter(t).highestAck = mem.inboundAck[t]
                           /\ \A m \in mem.outbox[t] : m[1] <= TrackerAfter(t).highestSent
    BY DeliverPicks
  <2> QED
    BY <2>1, <2>2 DEF IdleMeansSent
<1>7. CASE Crash \/ Restart
  BY <1>7 DEF Crash, Restart, IdleMeansSent
<1>8. CASE UNCHANGED soloVars
  BY <1>8 DEF soloVars, IdleMeansSent, Busy
<1> QED
  BY <1>1, <1>2, <1>3, <1>4, <1>5, <1>6, <1>7, <1>8 DEF SoloNext, ProcStep

\* When no processKernel call is under way, the deliverator has been handed
\* everything in the outbox and the current ack, however calls overlapped;
\* only a failed save leaves something for the next call (start.js l.103-118).
THEOREM IdleHasSent == SoloSpec => []IdleMeansSent
<1>1. SoloInit => IdleMeansSent
  BY DEF SoloInit, IdleMeansSent
<1> QED
  BY <1>1, IdleStep, TypeCorrect, PTL DEF SoloSpec

\* What the disk invariant needs of a step that hands nothing over and saves
\* nothing: memory moves forward, and the messages it adds have new numbers.
LEMMA MemoryMovesForward ==
    ASSUME SoloTypeOK, DiskInv, mem' \in States,
           UNCHANGED <<stateFile, handed, ackSent>>,
           \A p \in Peers :
              /\ mem.sent[p] <= mem'.sent[p]
              /\ mem.delivered[p] <= mem'.delivered[p]
              /\ \A n \in mem'.outbox[p] : n \in mem.outbox[p] \/ n[1] = mem.sent[p] + 1
    PROVE  DiskInv'
<1>0. /\ mem \in States /\ stateFile \in States /\ handed \in [Targets -> SUBSET Messages]
      /\ Targets \subseteq Peers /\ MaxOut \in Nat /\ MaxIn \in Nat
  BY SoloAssumption DEF SoloTypeOK
<1>1. ASSUME NEW p \in Peers
      PROVE  stateFile.sent[p] <= mem'.sent[p] /\ stateFile.delivered[p] <= mem'.delivered[p]
  <2>1. /\ stateFile.sent[p] \in Nat /\ mem.sent[p] \in Nat /\ mem'.sent[p] \in Nat
        /\ stateFile.delivered[p] \in Nat /\ mem.delivered[p] \in Nat /\ mem'.delivered[p] \in Nat
    BY <1>0 DEF States
  <2>2. stateFile.sent[p] <= mem.sent[p] /\ stateFile.delivered[p] <= mem.delivered[p]
    BY DEF DiskInv
  <2>3. mem.sent[p] <= mem'.sent[p] /\ mem.delivered[p] <= mem'.delivered[p]
    OBVIOUS
  <2> QED
    BY <2>1, <2>2, <2>3
<1>2. ASSUME NEW t \in Targets, NEW m \in handed[t], NEW n \in mem'.outbox[t], m[1] = n[1]
      PROVE  m = n
  <2>1. m[1] \in Nat /\ stateFile.sent[t] \in Nat /\ mem.sent[t] \in Nat
    BY <1>0 DEF States, Messages
  <2>2. m[1] <= stateFile.sent[t] /\ stateFile.sent[t] <= mem.sent[t]
    BY <1>0 DEF DiskInv
  <2>3. n \in mem.outbox[t]
    BY <1>0, <1>2, <2>1, <2>2
  <2> QED
    BY <1>2, <2>3 DEF DiskInv
<1> QED
  BY <1>1, <1>2 DEF DiskInv

\* As long as no two calls overlap, each step keeps the files, the snapshots
\* and what was handed over consistent.
LEMMA NoOverlapStep ==
    ASSUME SoloTypeOK, StatesWellformed, NoOverlapInv, [SoloNext]_soloVars
    PROVE  NoOverlapInv'
<1>0. /\ mem \in States /\ stateFile \in States /\ snap \in [Procs -> States]
      /\ phase \in [Procs -> Phases]
      /\ handed \in [Targets -> SUBSET Messages]
      /\ ackSent \in [Targets -> 0..MaxIn]
      /\ Targets \subseteq Peers /\ MaxOut \in Nat /\ MaxIn \in Nat
  BY SoloAssumption DEF SoloTypeOK
<1>1. mem' \in States
  BY TypeStep DEF SoloTypeOK
<1>2. interrupted => interrupted'
  <2>1. CASE Inbound
    BY <2>1 DEF Inbound, DeliverInbound
  <2>2. CASE ~Inbound
    BY <2>2 DEF SoloNext, DeliverInboundCommand, Crank, ProcStep, SaveState, Rename, Deliver,
                SaveFails, Crash, Restart, soloVars
  <2> QED
    BY <2>1, <2>2
<1>3. SUFFICES ASSUME ~interrupted'
               PROVE  OneCall' /\ SavesLiveState' /\ DiskInv'
  BY DEF NoOverlapInv
<1>4. ~interrupted /\ OneCall /\ SavesLiveState /\ DiskInv
  BY <1>2, <1>3 DEF NoOverlapInv
<1>5. ASSUME Inbound \/ DeliverInboundCommand
      PROVE  OneCall' /\ SavesLiveState' /\ DiskInv'
  <2>1. /\ ~Busy /\ up' # "down"
        /\ \E q \in Procs : phase' = [phase EXCEPT ![q] = "running"]
        /\ UNCHANGED <<stateFile, handed, ackSent>>
        /\ mem'.sent = mem.sent /\ mem'.outbox = mem.outbox
        /\ \A p \in Peers : mem.delivered[p] <= mem'.delivered[p]
    <3>1. CASE Inbound
      <4>1. PICK p \in Targets, hi \in 0..MaxIn : \E ack \in {0} \cup Numbers(handed[p]) :
              DeliverInbound(p, hi, ack)
        BY <3>1 DEF Inbound
      <4>2. PICK ack \in {0} \cup Numbers(handed[p]) : DeliverInbound(p, hi, ack)
        BY <4>1
      <4>3. ack \in 0..MaxOut
        <5>1. handed[p] \in SUBSET Messages
          BY <1>0
        <5> QED
          BY <1>0, <5>1, NumbersBounded
      <4>4. p \in Peers /\ mem' = Accept(p, hi, ack)
        BY <1>0, <4>2 DEF DeliverInbound
      <4>5. /\ mem'.sent = mem.sent /\ mem'.outbox = mem.outbox
            /\ \A r \in Peers : mem.delivered[r] <= mem'.delivered[r]
        BY <1>0, <4>3, <4>4, AcceptType
      <4> QED
        BY <1>3, <4>2, <4>5 DEF DeliverInbound
    <3>2. CASE DeliverInboundCommand
      <4>1. mem' = [mem EXCEPT !.work = TRUE]
        BY <3>2 DEF DeliverInboundCommand
      <4>2. /\ mem'.sent = mem.sent /\ mem'.outbox = mem.outbox
            /\ mem'.delivered = mem.delivered
        BY <1>0, <4>1 DEF States
      <4>3. \A r \in Peers : mem.delivered[r] \in Nat
        BY <1>0 DEF States
      <4>4. ~Busy /\ up' # "down" /\ UNCHANGED <<stateFile, handed, ackSent>>
        BY <1>3, <3>2 DEF DeliverInboundCommand
      <4>5. \E q \in Procs : phase' = [phase EXCEPT ![q] = "running"]
        BY <3>2 DEF DeliverInboundCommand
      <4>6. \A r \in Peers : mem.delivered[r] <= mem'.delivered[r]
        BY <4>2, <4>3
      <4> QED
        BY <4>2, <4>4, <4>5, <4>6
    <3> QED
      BY <1>5, <3>1, <3>2
  <2>2. \A q \in Procs : phase[q] = "idle"
    BY <2>1 DEF Busy
  <2>3. PICK q \in Procs : phase' = [phase EXCEPT ![q] = "running"]
    BY <2>1
  <2>4. \A r \in Procs : phase'[r] = IF r = q THEN "running" ELSE "idle"
    BY <1>0, <2>2, <2>3
  <2>5. OneCall' /\ SavesLiveState'
    BY <2>1, <2>4 DEF OneCall, SavesLiveState
  <2>6. \A p \in Peers : mem.sent[p] <= mem'.sent[p]
    BY <1>0, <2>1 DEF States
  <2> QED
    BY <1>1, <1>4, <2>1, <2>5, <2>6, MemoryMovesForward
<1>6. ASSUME Crank
      PROVE  OneCall' /\ SavesLiveState' /\ DiskInv'
  <2>1. /\ mem'.delivered = mem.delivered
        /\ \A p \in Peers :
             /\ mem.sent[p] <= mem'.sent[p]
             /\ \A m \in mem'.outbox[p] :
                  \/ m \in mem.outbox[p]
                  \/ /\ m = <<mem.sent[p] + 1, epoch>>
                     /\ mem'.sent[p] = mem.sent[p] + 1
    BY <1>6, CrankMemory
  <2>2. \A p \in Peers : mem.delivered[p] <= mem'.delivered[p]
    BY <1>0, <2>1 DEF States
  <2>3. \A p \in Peers : \A n \in mem'.outbox[p] : n \in mem.outbox[p] \/ n[1] = mem.sent[p] + 1
    BY <2>1
  <2>4. PICK q \in Procs : phase[q] = "running"
    BY <1>6 DEF Crank
  <2>5. UNCHANGED <<phase, up, stateFile, handed, ackSent>>
    BY <1>6 DEF Crank
  <2>6. OneCall'
    BY <1>4, <2>5 DEF OneCall, Busy
  <2>7. \A r \in Procs : phase'[r] \notin {"saving", "saved"}
    BY <1>4, <2>4, <2>5 DEF OneCall
  <2>8. SavesLiveState'
    BY <2>7 DEF SavesLiveState
  <2> QED
    BY <1>1, <1>4, <2>1, <2>2, <2>3, <2>5, <2>6, <2>8, MemoryMovesForward
<1>7. ASSUME NEW q \in Procs, SaveState(q)
      PROVE  OneCall' /\ SavesLiveState' /\ DiskInv'
  <2>1. OneCall'
    BY <1>0, <1>4, <1>7 DEF OneCall, Busy, SaveState
  <2>2. \A r \in Procs : r # q => phase'[r] = "idle"
    BY <1>0, <1>4, <1>7 DEF OneCall, SaveState
  <2>3. SavesLiveState'
    BY <1>0, <1>7, <2>2 DEF SaveState, SavesLiveState
  <2>4. DiskInv'
    BY <1>4, <1>7 DEF SaveState, DiskInv
  <2> QED
    BY <2>1, <2>3, <2>4
<1>8. ASSUME NEW q \in Procs, Rename(q)
      PROVE  OneCall' /\ SavesLiveState' /\ DiskInv'
  <2>1. OneCall'
    BY <1>0, <1>4, <1>8 DEF OneCall, Busy, Rename
  <2>2. \A r \in Procs : r # q => phase'[r] = "idle"
    BY <1>0, <1>4, <1>8 DEF OneCall, Rename
  <2>3. stateFile' = mem /\ mem' = mem /\ ~mem.work /\ UNCHANGED <<handed, ackSent>>
    BY <1>4, <1>8 DEF Rename, SavesLiveState
  <2>4. SavesLiveState'
    BY <1>0, <1>8, <2>2, <2>3 DEF SavesLiveState, Rename
  <2>5. \A p \in Peers : stateFile'.sent[p] <= mem'.sent[p] /\ stateFile'.delivered[p] <= mem'.delivered[p]
    BY <1>0, <2>3 DEF States
  <2>6. ASSUME NEW t \in Targets
        PROVE  ackSent'[t] <= stateFile'.delivered[t]
    <3>1. ackSent[t] \in Nat /\ stateFile.delivered[t] \in Nat /\ mem.delivered[t] \in Nat
      BY <1>0 DEF States
    <3>2. ackSent[t] <= stateFile.delivered[t] /\ stateFile.delivered[t] <= mem.delivered[t]
      BY <1>0, <1>4 DEF DiskInv
    <3> QED
      BY <2>3, <3>1, <3>2
  <2>7. ASSUME NEW t \in Targets, NEW m \in handed[t]
        PROVE  m[1] <= stateFile'.sent[t]
    <3>1. m[1] \in Nat /\ stateFile.sent[t] \in Nat /\ mem.sent[t] \in Nat
      BY <1>0 DEF States, Messages
    <3>2. m[1] <= stateFile.sent[t] /\ stateFile.sent[t] <= mem.sent[t]
      BY <1>0, <1>4 DEF DiskInv
    <3> QED
      BY <2>3, <3>1, <3>2
  <2>8. DiskInv'
    BY <1>4, <2>3, <2>5, <2>6, <2>7 DEF DiskInv
  <2> QED
    BY <2>1, <2>4, <2>8
<1>9. ASSUME NEW q \in Procs, SaveFails(q)
      PROVE  OneCall' /\ SavesLiveState' /\ DiskInv'
  <2>1. \A r \in Procs : phase'[r] = "idle"
    BY <1>0, <1>4, <1>9 DEF OneCall, SaveFails
  <2>2. OneCall' /\ SavesLiveState'
    BY <2>1 DEF OneCall, SavesLiveState, Busy
  <2>3. DiskInv'
    BY <1>4, <1>9 DEF SaveFails, DiskInv
  <2> QED
    BY <2>2, <2>3
<1>10. ASSUME NEW q \in Procs, Deliver(q)
       PROVE  OneCall' /\ SavesLiveState' /\ DiskInv'
  <2>1. \A r \in Procs : phase'[r] = "idle"
    BY <1>0, <1>4, <1>10 DEF OneCall, Deliver
  <2>2. OneCall' /\ SavesLiveState'
    BY <2>1 DEF OneCall, SavesLiveState, Busy
  <2>3. stateFile = mem /\ UNCHANGED <<mem, stateFile>>
    BY <1>4, <1>10 DEF Deliver, SavesLiveState
  <2>4. \A p \in Peers : stateFile'.sent[p] <= mem'.sent[p] /\ stateFile'.delivered[p] <= mem'.delivered[p]
    BY <1>4, <2>3 DEF DiskInv
  <2>5. ASSUME NEW t \in Targets
        PROVE  /\ ackSent'[t] <= stateFile'.delivered[t]
               /\ \A m \in handed'[t] : m \in handed[t] \/ m \in mem.outbox[t]
    <3>1. /\ ackSent[t] \in Nat /\ mem.inboundAck[t] \in Nat /\ mem.delivered[t] \in Nat
      BY <1>0 DEF States
    <3>2. ackSent[t] <= mem.delivered[t]
      BY <1>4, <2>3 DEF DiskInv
    <3>3. mem.inboundAck[t] <= mem.delivered[t]
      BY <1>0 DEF StatesWellformed, Wellformed
    <3>4. Max({ackSent[t], mem.inboundAck[t]}) <= mem.delivered[t]
      BY <3>1, <3>2, <3>3, MaxOfTwo
    <3>5. ackSent'[t] = IF Invoked(t) THEN Max({ackSent[t], mem.inboundAck[t]}) ELSE ackSent[t]
      BY <1>10 DEF Deliver
    <3>6. handed'[t] = handed[t] \cup NewMessages(t) /\ NewMessages(t) \subseteq mem.outbox[t]
      BY <1>10 DEF Deliver, NewMessages
    <3> QED
      BY <2>3, <3>2, <3>4, <3>5, <3>6
  <2>6. ASSUME NEW t \in Targets, NEW m \in handed'[t]
        PROVE  /\ m[1] <= stateFile'.sent[t]
               /\ \A n \in handed'[t] : m[1] = n[1] => m = n
               /\ \A n \in mem'.outbox[t] \cup stateFile'.outbox[t] : m[1] = n[1] => m = n
    <3>1. /\ \A n \in mem.outbox[t] : n[1] <= mem.sent[t]
          /\ \A n, r \in mem.outbox[t] : n[1] = r[1] => n = r
      BY <1>0 DEF StatesWellformed, Wellformed
    <3>2. /\ \A n \in handed[t] : n[1] <= mem.sent[t]
          /\ \A n, r \in handed[t] : n[1] = r[1] => n = r
          /\ \A n \in handed[t], r \in mem.outbox[t] : n[1] = r[1] => n = r
      BY <1>4, <2>3 DEF DiskInv
    <3>3. \A n \in handed'[t] : n \in handed[t] \/ n \in mem.outbox[t]
      BY <2>5
    <3> QED
      BY <2>3, <3>1, <3>2, <3>3
  <2>7. DiskInv'
    BY <2>4, <2>5, <2>6 DEF DiskInv
  <2> QED
    BY <2>2, <2>7
<1>11. ASSUME Crash
       PROVE  OneCall' /\ SavesLiveState' /\ DiskInv'
  BY <1>4, <1>11 DEF Crash, OneCall, SavesLiveState, DiskInv, Busy
<1>12. ASSUME Restart
       PROVE  OneCall' /\ SavesLiveState' /\ DiskInv'
  <2>1. \A q \in Procs : phase[q] = "idle"
    BY <1>4, <1>12 DEF Restart, OneCall, Busy
  <2>2. PICK q \in Procs : phase' = [phase EXCEPT ![q] = "running"]
    BY <1>12 DEF Restart
  <2>3. \A r \in Procs : phase'[r] = IF r = q THEN "running" ELSE "idle"
    BY <1>0, <2>1, <2>2
  <2>4. OneCall' /\ SavesLiveState'
    BY <1>12, <2>3 DEF Restart, OneCall, SavesLiveState
  <2>5. mem' = stateFile /\ UNCHANGED <<stateFile, handed, ackSent>>
    BY <1>12 DEF Restart
  <2>6. \A p \in Peers : stateFile'.sent[p] <= mem'.sent[p] /\ stateFile'.delivered[p] <= mem'.delivered[p]
    BY <1>0, <2>5 DEF States
  <2>7. DiskInv'
    BY <1>4, <2>5, <2>6 DEF DiskInv
  <2> QED
    BY <2>4, <2>7
<1>13. ASSUME UNCHANGED soloVars
       PROVE  OneCall' /\ SavesLiveState' /\ DiskInv'
  BY <1>4, <1>13 DEF soloVars, OneCall, SavesLiveState, DiskInv, Busy
<1> QED
  BY <1>5, <1>6, <1>7, <1>8, <1>9, <1>10, <1>11, <1>12, <1>13 DEF SoloNext, ProcStep

\* What was handed over survives a crash, unless calls overlapped (start.js
\* l.103-107): no two different messages are ever handed over under one number,
\* and every ack handed over is in the state file.
THEOREM SentIsOnDisk == SoloSpec => []SentSurvives
<1>1. SoloInit => NoOverlapInv
  <2>1. SUFFICES ASSUME SoloInit PROVE OneCall /\ SavesLiveState /\ DiskInv
    BY DEF NoOverlapInv
  <2>2. OneCall /\ SavesLiveState
    BY <2>1 DEF SoloInit, OneCall, SavesLiveState
  <2>3. /\ \A p \in Peers : stateFile.sent[p] <= mem.sent[p] /\ stateFile.delivered[p] <= mem.delivered[p]
        /\ \A t \in Targets : ackSent[t] <= stateFile.delivered[t] /\ handed[t] = {}
    BY <2>1, SoloAssumption DEF SoloInit, Blank
  <2> QED
    BY <2>2, <2>3 DEF DiskInv
<1>2. NoOverlapInv => SentSurvives
  BY DEF NoOverlapInv, DiskInv, SentSurvives
<1> QED
  BY <1>1, <1>2, NoOverlapStep, TypeCorrect, StatesStayWellformed, PTL DEF SoloSpec

=============================================================================
