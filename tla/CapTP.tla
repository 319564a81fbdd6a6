-------------------------------- MODULE CapTP --------------------------------
(***************************************************************************)
(* A CapTP session (lib/ag-solo/html/captp.umd.js, makeCapTP) between the  *)
(* HTTP vat of a solo and a client of its port, with the eventual sends    *)
(* (HandledPromise, E) through which the client uses it.  The vat exports  *)
(* objects and promises; the client of this repository (upload-contract.js *)
(* and pledger-sample.html) exports nothing of its own, it passes data and *)
(* what it got.  Both ends take one message at a time and run all promise  *)
(* reactions before the next, so an action is a message taken, a call of   *)
(* the application, or an object of the vat that answers or settles.  What *)
(* a message holds is the sequence of values marshal sends (see Marshal).  *)
(***************************************************************************)
EXTENDS Integers, Sequences, SequencesExt

CONSTANTS
  Objects, Promises,   \* of the vat
  Boots,               \* what a bootstrap object may hold
  Results,             \* what a method may answer with: the members of an answer
  MaxCalls             \* bound on calls and bootstraps of the client

VARIABLES
  exports,     \* vat: the values with slots "o" and "p", in the order of their numbers
  settled,     \* vat: promise -> what it is settled with, or Unsettled
  waiting,     \* vat: promise -> calls sent to it before it was settled
  running,     \* vat: calls whose methods have not answered
  executed,    \* vat: the methods called, in this order
  toVat, toClient,
  made,        \* client: its calls, in this order
  answer,      \* client: call -> what came back
  postponed,   \* client: call -> later calls that wait for its answer
  questions,   \* client: lastQuestionID is its length; the call of each
  known,       \* client: slotToVal, a slot -> the value of the vat it was sent for
  resolved,    \* client: slot of a promise -> what it was resolved with
  torn,        \* promises that got a slot in a message that was never sent
  thrown       \* dispatch of the client has thrown

vars == <<exports, settled, waiting, running, executed, toVat, toClient, made, answer,
          postponed, questions, known, resolved, torn, thrown>>

Data == "data"            \* what is passed by copy
Bad == "function"         \* what cannot be passed
Broken == "broken"        \* a rejection
Unsettled == "unsettled"

Numbers == 1 .. MaxCalls
NoAnswer == <<>>
Failed == << <<Broken, 0>> >>

Init ==
  /\ exports = [k \in {"o", "p"} |-> <<>>]
  /\ settled = [p \in Promises |-> Unsettled] /\ waiting = [p \in Promises |-> <<>>]
  /\ running = {} /\ executed = <<>> /\ toVat = <<>> /\ toClient = <<>>
  /\ made = <<>> /\ answer = [n \in Numbers |-> NoAnswer]
  /\ postponed = [n \in Numbers |-> <<>>] /\ questions = <<>>
  /\ known = <<>> /\ resolved = <<>> /\ torn = {} /\ thrown = FALSE

-----------------------------------------------------------------------------
(* Slots.  A value that has one keeps it. *)

Kind(v) == IF v \in Promises THEN "p" ELSE "o"
IsSlot(s) == s[1] \in {"o", "p"}

SerializeSlot(ex, v) ==
  IF v \in {Data, Broken} \cup Range(ex[Kind(v)]) THEN ex
  ELSE [ex EXCEPT ![Kind(v)] = Append(@, v)]

ValToSlot(ex, v) ==
  IF v \in {Data, Broken} THEN <<v, 0>>
  ELSE <<Kind(v), CHOOSE i \in DOMAIN ex[Kind(v)] :
                    /\ ex[Kind(v)][i] = v
                    /\ \A j \in DOMAIN ex[Kind(v)] : ex[Kind(v)][j] = v => j <= i>>

SlotToVal(s) == exports[s[1]][s[2]]

(* Values before one that cannot be passed have got their slots. *)
Exported(vals) ==
  FoldLeft(SerializeSlot, exports,
           IF Bad \in Range(vals) THEN SubSeq(vals, 1, SelectInSeq(vals, LAMBDA v : v = Bad) - 1)
           ELSE vals)

Message(type, id, ex, vals) ==
  [type |-> type, id |-> id, vals |-> vals,
   slots |-> [i \in DOMAIN vals |-> ValToSlot(ex, vals[i])]]

Return(c, ex, vals) == Message("CTP_RETURN", c.questionID, ex, vals)
Exception(c) == Return(c, exports, <<Broken>>)
Resolve(p, r, ex) == Message("CTP_RESOLVE", ValToSlot(ex, p)[2], ex, <<r>>)

\* Mutant: only promises settled later tell the client.
NoReaction(st, p) == st

(* The reaction of a promise that has got a slot and is settled already    *)
(* exports what settled it and tells the client.                           *)
React(st, p) ==
  IF settled[p] \in {Unsettled, Bad} THEN st
  ELSE LET ex == SerializeSlot(st.ex, settled[p])
       IN [ex |-> ex, told |-> Append(st.told, Resolve(p, settled[p], ex))]

(* The reactions of promises that got their slots run in the next turn.    *)
Serialize(vals) ==
  LET ex == Exported(vals)
  IN FoldLeft(React, [ex |-> ex, told |-> <<>>],
              SubSeq(ex["p"], Len(exports["p"]) + 1, Len(ex["p"])))

-----------------------------------------------------------------------------
(* The vat. *)

CTP_BOOTSTRAP(m) ==
  /\ m.type = "CTP_BOOTSTRAP"
  /\ \E b \in Boots :
       LET s == Serialize(b)
       IN exports' = s.ex /\ toClient' = toClient \o <<Return(m, s.ex, b)>> \o s.told
  /\ UNCHANGED <<waiting, running, executed>>

Vals(slots) == [i \in DOMAIN slots |-> SlotToVal(slots[i])]

Execute(cs, o) ==
  /\ executed' = executed \o [i \in DOMAIN cs |-> [n |-> cs[i].n, object |-> o,
                                                args |-> Vals(cs[i].args)]]
  /\ running' = running \cup {[n |-> cs[i].n, questionID |-> cs[i].questionID] : i \in DOMAIN cs}

Exceptions(cs) == [i \in DOMAIN cs |-> Exception(cs[i])]

(* applyMethod: on an object in the next turn, on a promise once it is     *)
(* settled; what is no object has no method.                               *)
CTP_CALL(m) ==
  /\ m.type = "CTP_CALL"
  /\ LET val == SlotToVal(m.target)
         o == IF val \in Promises THEN settled[val] ELSE val
     IN \/ /\ o = Unsettled
           /\ waiting' = [waiting EXCEPT ![val] = Append(@, m)]
           /\ UNCHANGED <<running, executed, exports, toClient>>
        \/ /\ o \in Objects
           /\ Execute(<<m>>, o)
           /\ UNCHANGED <<waiting, exports, toClient>>
        \/ /\ o \notin Objects \cup {Unsettled}
           /\ toClient' = Append(toClient, Exception(m))
           /\ UNCHANGED <<waiting, running, executed, exports>>

VatDispatch ==
  /\ toVat # <<>>
  /\ CTP_BOOTSTRAP(Head(toVat)) \/ CTP_CALL(Head(toVat))
  /\ toVat' = Tail(toVat)
  /\ UNCHANGED <<settled, made, answer, postponed, questions, known, resolved, torn, thrown>>

(* A method answers, or throws, when it likes.  An answer that cannot be   *)
(* serialized becomes an exception; the slots it has taken stay taken.     *)
Finish(c) ==
  /\ running' = running \ {c}
  /\ \E r \in Results \cup {<<Broken>>} :
       LET s == Serialize(r)
       IN /\ exports' = s.ex
          /\ IF Bad \in Range(r)
             THEN /\ toClient' = toClient \o s.told \o <<Exception(c)>>
                  /\ torn' = torn \cup (Range(s.ex["p"]) \ Range(exports["p"]))
             ELSE /\ toClient' = toClient \o <<Return(c, s.ex, r)>> \o s.told
                  /\ UNCHANGED torn
  /\ UNCHANGED <<settled, waiting, executed, toVat, made, answer, postponed, questions,
                 known, resolved, thrown>>

(* The reaction that tells the client was registered when the promise got  *)
(* its slot, before any call came for it: it runs first, and then the      *)
(* calls in their order, all before the next message.                      *)
Settle(p) ==
  /\ settled[p] = Unsettled
  /\ \E r \in Objects \cup {Data, Bad, Broken} :
       LET out == p \in Range(exports["p"]) /\ r # Bad
           ex == IF out THEN SerializeSlot(exports, r) ELSE exports
           told == IF out THEN <<Resolve(p, r, ex)>> ELSE <<>>
       IN /\ settled' = [settled EXCEPT ![p] = r]
          /\ exports' = ex
          /\ IF r \in Objects
             THEN Execute(waiting[p], r) /\ toClient' = toClient \o told
             ELSE /\ toClient' = toClient \o told \o Exceptions(waiting[p])
                  /\ UNCHANGED <<running, executed>>
  /\ waiting' = [waiting EXCEPT ![p] = <<>>]
  /\ UNCHANGED <<toVat, made, answer, postponed, questions, known, resolved, torn, thrown>>

-----------------------------------------------------------------------------
(* The client.  A reference is a slot it holds, or a member of an answer   *)
(* it may not have yet: E(x), E.C(x).G.member.                             *)

SlotRef(s) == [of |-> "slot", slot |-> s]
BootRef == [of |-> "bootstrap"]
MemberRef(n, k) == [of |-> "answer", n |-> n, k |-> k]
Refs == {SlotRef(s) : s \in DOMAIN known}
        \cup {MemberRef(n, k) : n \in {n \in DOMAIN made : answer[n] # Failed}, k \in 1 .. 2}

(* Where a call through a slot goes: an import that has been resolved has  *)
(* the handler of what it was resolved with.                               *)
Through(res, s) == IF s \in DOMAIN res THEN res[s] ELSE s

Member(vals, k) == IF k \in DOMAIN vals THEN vals[k] ELSE <<Data, 0>>

(* The handler of a remote: a question and a CTP_CALL.  On what is no      *)
(* remote the call fails here.                                             *)
Post(st, c, s) ==
  IF ~IsSlot(Through(st.resolved, s))
  THEN [st EXCEPT !.answer[c.n] = Failed]
  ELSE [st EXCEPT !.questions = Append(@, c.n),
                  !.toVat = Append(@, [type |-> "CTP_CALL", questionID |-> Len(st.questions) + 1,
                                       n |-> c.n, target |-> Through(st.resolved, s),
                                       args |-> c.args])]

(* Calls on an answer that is not there wait for it.  They are passed on   *)
(* in their order, and fail if it fails.                                   *)
Handle(st, c) ==
  IF c.ref.of = "slot" THEN Post(st, c, c.ref.slot)
  ELSE IF st.answer[c.ref.n] = NoAnswer
       THEN [st EXCEPT !.postponed[c.ref.n] = Append(@, c)]
       ELSE Post(st, c, Member(st.answer[c.ref.n], c.ref.k))

Client == [questions |-> questions, toVat |-> toVat, answer |-> answer,
           postponed |-> postponed, resolved |-> resolved]

Becomes(st) ==
  /\ questions' = st.questions /\ toVat' = st.toVat /\ answer' = st.answer
  /\ postponed' = st.postponed /\ resolved' = st.resolved

(* The calls that wait, over one another, for the answers of ns.           *)
Behind(later, ns) ==
  {m \in Numbers : \A S \in SUBSET Numbers :
     ns \subseteq S /\ (\A n \in S : \A c \in Range(later[n]) : c.n \in S) => m \in S}

(* A call that fails fails the calls that wait for it. *)
Fail(st, later, ns) ==
  [st EXCEPT !.answer = [m \in Numbers |-> IF m \in Behind(later, ns) THEN Failed ELSE @[m]],
             !.postponed = [m \in Numbers |-> IF m \in Behind(later, ns) THEN <<>> ELSE @[m]]]

PassOn(st, n, vals, calls) ==
  LET all == [st EXCEPT !.answer[n] = vals, !.postponed[n] = <<>>]
      sent == FoldLeft(Handle, all, calls)
  IN Fail(sent, st.postponed, {m \in {c.n : c \in Range(calls)} : sent.answer[m] = Failed})

\* Mutant: the newest of the calls that wait goes first.
NewestFirst(st, n, vals) == PassOn(st, n, vals, Reverse(st.postponed[n]))

SettleAnswer(st, n, vals) == PassOn(st, n, vals, st.postponed[n])

GetBootstrap ==
  /\ Len(made) < MaxCalls
  /\ made' = Append(made, [ref |-> BootRef, args |-> <<>>])
  /\ questions' = Append(questions, Len(made) + 1)
  /\ toVat' = Append(toVat, [type |-> "CTP_BOOTSTRAP", questionID |-> Len(questions) + 1,
                             n |-> Len(made) + 1])
  /\ UNCHANGED <<exports, settled, waiting, running, executed, toClient, answer, postponed,
                 known, resolved, torn, thrown>>

Call(ref, args) ==
  /\ Len(made) < MaxCalls
  /\ made' = Append(made, [ref |-> ref, args |-> args])
  /\ Becomes(Handle(Client, [n |-> Len(made) + 1, ref |-> ref, args |-> args]))
  /\ UNCHANGED <<exports, settled, waiting, running, executed, toClient, known, torn, thrown>>

(* unserializeSlot: a new slot becomes a presence or an import.            *)
UnserializeSlots(m) ==
  LET new == {i \in DOMAIN m.slots : IsSlot(m.slots[i]) /\ m.slots[i] \notin DOMAIN known}
  IN [s \in DOMAIN known \cup {m.slots[i] : i \in new} |->
        IF s \in DOMAIN known THEN known[s]
        ELSE m.vals[CHOOSE i \in DOMAIN m.slots : m.slots[i] = s]]

CTP_RETURN(m) ==
  /\ m.type = "CTP_RETURN"
  /\ known' = UnserializeSlots(m)
  /\ Becomes(SettleAnswer(Client, questions[m.id], m.slots))
  /\ UNCHANGED thrown

(* imports.get of a promise nobody sent is undefined, and using it throws. *)
CTP_RESOLVE(m) ==
  /\ m.type = "CTP_RESOLVE"
  /\ known' = UnserializeSlots(m)
  /\ IF <<"p", m.id>> \in DOMAIN known
     THEN /\ resolved' = [s \in DOMAIN resolved \cup {<<"p", m.id>>} |->
                           IF s = <<"p", m.id>> THEN m.slots[1] ELSE resolved[s]]
          /\ UNCHANGED thrown
     ELSE thrown' = TRUE /\ UNCHANGED resolved
  /\ UNCHANGED <<questions, toVat, answer, postponed>>

ClientDispatch ==
  /\ toClient # <<>>
  /\ CTP_RETURN(Head(toClient)) \/ CTP_RESOLVE(Head(toClient))
  /\ toClient' = Tail(toClient)
  /\ UNCHANGED <<exports, settled, waiting, running, executed, made, torn>>

Next ==
  \/ GetBootstrap
  \/ \E ref \in Refs, args \in {<<>>} \cup {<<s>> : s \in DOMAIN known} : Call(ref, args)
  \/ VatDispatch
  \/ ClientDispatch
  \/ \E c \in running : Finish(c)
  \/ \E p \in Promises : Settle(p)

Spec == Init /\ [][Next]_vars

-----------------------------------------------------------------------------
(* Properties. *)

Deref(v) == IF v \in Promises THEN settled[v] ELSE v
Means(ref) == IF ref.of = "slot" THEN known[ref.slot] ELSE known[answer[ref.n][ref.k]]

(* captp.umd.js makeRemote, serializeSlot, unserializeSlot: a method runs  *)
(* on the object the reference of its call stands for and with the         *)
(* arguments meant, also when the call was made on an answer or a promise  *)
(* that was settled later, and what is one object of the vat is one        *)
(* presence of the client.  Calls through one reference run in the order   *)
(* they were made, those that waited at either end before those made when  *)
(* there was nothing left to wait for.                                     *)
RunsAsCalled ==
  /\ \A i \in DOMAIN executed :
       LET c == made[executed[i].n]
       IN /\ executed[i].object = Deref(Means(c.ref))
          /\ executed[i].args = [k \in DOMAIN c.args |-> known[c.args[k]]]
          /\ \A j \in 1 .. i - 1 :
               made[executed[j].n].ref = c.ref => executed[j].n < executed[i].n
  /\ \A s, t \in DOMAIN known : known[s] = known[t] => s = t

(* The calls that wait for a promise the vat has not settled, and those    *)
(* that wait for their answers.                                            *)
Waits == Behind(postponed, {c.n : c \in UNION {Range(waiting[p]) : p \in Promises}})

(* When nothing is on its way, every call has its answer or waits for a    *)
(* promise that the vat has not settled, and every promise the client      *)
(* knows is settled for it if it is for the vat.  Excepted is a promise    *)
(* that first got its slot in an answer that could not be sent, and one    *)
(* settled with what cannot be passed (serializeSlot, CTP_RETURN,          *)
(* CTP_RESOLVE).  Only the first kind makes dispatch throw.                *)
SettlesAll ==
  /\ toVat = <<>> /\ toClient = <<>> /\ running = {} =>
       /\ \A n \in DOMAIN made : answer[n] # NoAnswer \/ n \in Waits
       /\ \A s \in DOMAIN known :
            s[1] = "p" /\ known[s] \notin torn /\ settled[known[s]] \notin {Unsettled, Bad} =>
              /\ s \in DOMAIN resolved
              /\ settled[known[s]] \in Objects => known[resolved[s]] = settled[known[s]]
  /\ thrown => torn # {}
=============================================================================
