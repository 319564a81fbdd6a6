----------------------------- MODULE CapTPProofs -----------------------------
(***************************************************************************)
(* Theorems about a session of CapTP (the part captp of Parts), for any    *)
(* objects, promises, answers and number of calls: methods run as they     *)
(* were called (RunsAsCalled), and when nothing is on its way every call   *)
(* and every promise has been settled that can be (SettlesAll).            *)
(* SessionInv is their inductive invariant.  What it says of the two ends  *)
(* is said of records: w is what the client has made and knows (World),    *)
(* st the state in which it handles calls (Session!Client), x what the vat *)
(* has taken and not answered (Vat), so that the states between two calls  *)
(* of one handler have it too.                                             *)
(***************************************************************************)
EXTENDS Parts, SequenceTheorems, FiniteSetTheorems, WellFoundedInduction, TLAPS

\* What has slots.
Passed == Objects \cup Promises

\* What is passed by copy, and a rejection.
Plain == {Session!Data, Session!Broken}

\* A slot is of an object, a promise, or is what it stands for.
SlotSet == {"o", "p", Session!Data, Session!Broken} \X Nat

\* What a call is made on.
RefSet == {Session!BootRef} \cup [of : {"slot"}, slot : SlotSet]
          \cup [of : {"answer"}, n : Nat, k : 1..2]

\* Calls: as they are made, while they wait, and on their way.
MadeSet == [ref : RefSet, args : Seq(SlotSet)]
LaterSet == [n : Nat, ref : RefSet, args : Seq(SlotSet)]
CallSet == [type : {"CTP_CALL"}, questionID : Nat, n : Nat, target : SlotSet,
            args : Seq(SlotSet)]
ToVatSet == CallSet \cup [type : {"CTP_BOOTSTRAP"}, questionID : Nat, n : Nat]
ToClientSet == [type : {"CTP_RETURN", "CTP_RESOLVE"}, id : Nat,
                vals : Seq(Passed \cup Plain), slots : Seq(SlotSet)]

\* The values with slots: each has one, of its kind.
GoodExports(ex) ==
    /\ ex \in [{"o", "p"} -> Seq(Passed)]
    /\ \A k \in {"o", "p"} : \A i \in DOMAIN ex[k] :
         /\ Session!Kind(ex[k][i]) = k
         /\ \A j \in DOMAIN ex[k] : ex[k][i] = ex[k][j] => i = j

\* A value that can be sent.
HasSlot(ex, v) == v \in Plain \cup Session!Range(ex[Session!Kind(v)])

\* A slot stands for a value.
SlotIs(ex, s, v) ==
    IF v \in Plain THEN s = <<v, 0>>
    ELSE /\ v \in Passed /\ s \in SlotSet /\ s[1] = Session!Kind(v)
         /\ s[2] \in DOMAIN ex[s[1]] /\ ex[s[1]][s[2]] = v

\* What is on its way to the client: the slots are those of the values, and
\* a resolution is what the promise is settled with.
GoodMessage(ex, m) ==
    /\ m.vals # <<>> /\ DOMAIN m.slots = DOMAIN m.vals
    /\ \A i \in DOMAIN m.vals : SlotIs(ex, m.slots[i], m.vals[i])

\* A resolution is what its promise is settled with.
GoodResolve(ex, res, m) ==
    /\ m.id \in DOMAIN ex["p"] /\ res[ex["p"][m.id]] \in Objects \cup Plain
    /\ m.vals = <<res[ex["p"][m.id]]>>

\* What the client holds are slots of exports.
HoldsSlots ==
    \A s \in DOMAIN known :
        /\ s \in SlotSet /\ s[1] \in {"o", "p"} /\ s[2] \in DOMAIN exports[s[1]]
        /\ known[s] = exports[s[1]][s[2]]

\* The state in which the client handles calls.
World == [made |-> made, known |-> known, settled |-> settled,
          taken |-> Len(questions) - Len(toVat)]

\* Each slot known is of a value of its kind.
KnownWell(w) ==
    \A s \in DOMAIN w.known :
        s \in {"o", "p"} \X Nat /\ w.known[s] \in Passed /\ s[1] = Session!Kind(w.known[s])

\* What is resolved is settled, and with what it is resolved.
ResolvedWell(w, res) ==
    \A s \in DOMAIN res :
        /\ s \in DOMAIN w.known /\ s[1] = "p" /\ w.settled[w.known[s]] \in Objects \cup Plain
        /\ IF w.settled[w.known[s]] \in Plain THEN res[s] = <<w.settled[w.known[s]], 0>>
           ELSE res[s] \in DOMAIN w.known /\ w.known[res[s]] = w.settled[w.known[s]]

\* A call is made on what was known, or on an earlier call.
MadeWell(w) ==
    /\ w.made \in Seq(MadeSet) /\ Len(w.made) <= MaxCalls
    /\ \A n \in DOMAIN w.made :
         /\ w.made[n].args \in Seq(DOMAIN w.known)
         /\ w.made[n].ref.of = "slot" => w.made[n].ref.slot \in DOMAIN w.known
         /\ w.made[n].ref.of = "answer" => w.made[n].ref.n \in 1..(n - 1)

\* What call n was made on, the slot that stands for it, and whether there is one.
Ref(w, n) == w.made[n].ref
RefSlot(st, ref) == IF ref.of = "slot" THEN ref.slot ELSE st.answer[ref.n][ref.k]
RefKnown(w, st, ref) ==
    /\ ref.of \in {"slot", "answer"}
    /\ ref.of = "answer" => ref.n \in Session!Numbers /\ ref.k \in DOMAIN st.answer[ref.n]
    /\ RefSlot(st, ref) \in DOMAIN w.known

\* A call on its way goes to what its reference stands for.
CallWell(w, st, m) ==
    /\ RefKnown(w, st, Ref(w, m.n))
    /\ m.args = w.made[m.n].args
    /\ m.target \in DOMAIN w.known
    /\ LET v == w.known[RefSlot(st, Ref(w, m.n))]
       IN w.known[m.target] = v \/ (v \in Promises /\ w.known[m.target] = w.settled[v])

\* Questions: a call has at most one, those through one reference are in the
\* order of the calls, and no answer a reference is a member of is missing.
QuestionsWell(w, st) ==
    /\ st.questions \in Seq(DOMAIN w.made)
    /\ \A i, j \in DOMAIN st.questions :
         /\ st.questions[i] = st.questions[j] => i = j
         /\ i < j /\ Ref(w, st.questions[i]) = Ref(w, st.questions[j])
              => st.questions[i] < st.questions[j]
    /\ \A i \in DOMAIN st.questions :
         Ref(w, st.questions[i]).of = "answer" =>
            st.answer[Ref(w, st.questions[i]).n] # Session!NoAnswer

\* The messages to the vat are the questions it has not taken.
ToVatWell(w, st) ==
    /\ st.toVat \in Seq(ToVatSet)
    /\ w.taken \in Nat /\ Len(st.questions) = w.taken + Len(st.toVat)
    /\ \A i \in DOMAIN st.toVat :
         /\ st.toVat[i].questionID = w.taken + i
         /\ st.toVat[i].n = st.questions[w.taken + i]
         /\ st.toVat[i].type = "CTP_CALL" => CallWell(w, st, st.toVat[i])

\* Calls that wait for an answer do so at one place, in their order.
LaterWell(w, st, hand) ==
    /\ st.postponed \in [Session!Numbers -> Seq(LaterSet)]
    /\ \A k \in Session!Numbers : \A i \in DOMAIN st.postponed[k] :
         LET c == st.postponed[k][i]
         IN /\ c.n \in DOMAIN w.made /\ k < c.n
            /\ c.ref = Ref(w, c.n) /\ c.args = w.made[c.n].args
            /\ c.ref.of = "answer" /\ c.ref.n = k
            /\ st.answer[c.n] = Session!NoAnswer
            /\ c.n \notin hand /\ c.n \notin Session!Range(st.questions)
            /\ \A j \in DOMAIN st.postponed[k] : i < j => c.n < st.postponed[k][j].n
    /\ \A n \in hand : /\ n \in DOMAIN w.made /\ n \notin Session!Range(st.questions)
                       /\ st.answer[n] = Session!NoAnswer

\* Calls wait only for an answer that is not there.
NoneLeft(st) ==
    \A k \in Session!Numbers : st.postponed[k] # <<>> => st.answer[k] = Session!NoAnswer

\* A call has been answered, has a question that is open, or waits.
AnswersWell(w, st, hand, open) ==
    /\ st.answer \in [Session!Numbers -> Seq(SlotSet)]
    /\ \A n \in Session!Numbers : \A k \in DOMAIN st.answer[n] :
         st.answer[n][k][1] \in {"o", "p"} => st.answer[n][k] \in DOMAIN w.known
    /\ \A n \in Session!Numbers :
         st.answer[n] = Session!NoAnswer <=>
            \/ n \notin DOMAIN w.made \/ n \in hand
            \/ \E i \in DOMAIN st.questions : st.questions[i] = n /\ (i > w.taken \/ i \in open)
            \/ \E k \in Session!Numbers : \E i \in DOMAIN st.postponed[k] : st.postponed[k][i].n = n

\* The vat's side, and the questions it has taken that the client has no
\* answer to: each waits for a promise, runs, or has its answer on its way.
Vat == [waiting |-> waiting, running |-> running, executed |-> executed, toClient |-> toClient]
Returns(s) == {i \in DOMAIN s : s[i].type = "CTP_RETURN"}
Waited(x, id) == \E p \in Promises : \E i \in DOMAIN x.waiting[p] : x.waiting[p][i].questionID = id
Ran(x, id) == \E c \in x.running : c.questionID = id
Returned(x, id) == \E i \in Returns(x.toClient) : x.toClient[i].id = id
Open(x) == {id \in Nat : Waited(x, id) \/ Ran(x, id) \/ Returned(x, id)}

\* The types.
SessionTypes ==
    /\ settled \in [Promises -> Objects \cup Plain \cup {Session!Bad, Session!Unsettled}]
    /\ waiting \in [Promises -> Seq(CallSet)]
    /\ running \subseteq [n : Nat, questionID : Nat]
    /\ executed \in Seq([n : Nat, object : Objects, args : Seq(Passed)])
    /\ toClient \in Seq(ToClientSet)
    /\ torn \subseteq Session!Range(exports["p"])

\* The invariant of the client.
ClientInv(w, st, hand, open) ==
    /\ QuestionsWell(w, st) /\ ToVatWell(w, st)
    /\ LaterWell(w, st, hand) /\ AnswersWell(w, st, hand, open)

\* A question is returned once.
ReturnsWell(w, s) ==
    \A i \in Returns(s) :
        /\ s[i].id \in 1..w.taken
        /\ \A j \in Returns(s) : s[i].id = s[j].id => i = j

\* Each open question is at one place of the vat.
PlacesWell(w, st, x) ==
    /\ \A p \in Promises : \A i \in DOMAIN x.waiting[p] :
         /\ x.waiting[p][i].questionID \in 1..w.taken
         /\ x.waiting[p][i].n = st.questions[x.waiting[p][i].questionID]
         /\ \A q \in Promises : \A j \in DOMAIN x.waiting[q] :
              x.waiting[p][i].questionID = x.waiting[q][j].questionID => p = q
         /\ \A j \in DOMAIN x.waiting[p] :
              i < j => x.waiting[p][i].questionID < x.waiting[p][j].questionID
    /\ \A c \in x.running : c.questionID \in 1..w.taken /\ c.n = st.questions[c.questionID]
    /\ ReturnsWell(w, x.toClient)
    /\ \A id \in Nat : /\ Waited(x, id) => ~Ran(x, id) /\ ~Returned(x, id)
                       /\ Ran(x, id) => ~Returned(x, id)

\* A call waits for the promise that its reference stands for.
WaitingWell(w, st, x) ==
    \A p \in Promises : \A i \in DOMAIN x.waiting[p] :
        /\ CallWell(w, st, x.waiting[p][i])
        /\ w.known[x.waiting[p][i].target] = p /\ w.settled[p] = Session!Unsettled

\* What a value stands for.
Stands(w, v) == IF v \in Promises THEN w.settled[v] ELSE v

\* A method that runs is the one called.
Runs(w, st, e) ==
    /\ \E k \in 1..w.taken : e.n = st.questions[k]
    /\ RefKnown(w, st, Ref(w, e.n))
    /\ e.object = Stands(w, w.known[RefSlot(st, Ref(w, e.n))])
    /\ e.args = [k \in DOMAIN w.made[e.n].args |-> w.known[w.made[e.n].args[k]]]

\* What has been executed is what was called, and in the order of the calls.
ExecutedWell(w, st, x) ==
    /\ \A i \in DOMAIN x.executed : Runs(w, st, x.executed[i])
    /\ \A i, j \in DOMAIN x.executed :
         j < i /\ Ref(w, x.executed[j].n) = Ref(w, x.executed[i].n)
           => x.executed[j].n < x.executed[i].n
    /\ \A i \in DOMAIN x.executed : \A p \in Promises : \A j \in DOMAIN x.waiting[p] :
         Ref(w, x.waiting[p][j].n) = Ref(w, x.executed[i].n) => x.executed[i].n < x.waiting[p][j].n

\* The messages on their way to the client.
MessagesWell ==
    \A i \in DOMAIN toClient :
        /\ GoodMessage(exports, toClient[i])
        /\ toClient[i].type = "CTP_RESOLVE" => GoodResolve(exports, settled, toClient[i])

\* The slot of a promise is known or comes with the first n messages.
SlotComes(id, n) ==
    \/ <<"p", id>> \in DOMAIN known
    \/ \E j \in 1..n : <<"p", id>> \in Session!Range(toClient[j].slots)

\* Every slot of a promise comes to the client, and then its resolution.
PromisesWell ==
    /\ \A id \in DOMAIN exports["p"] :
         /\ exports["p"][id] \notin torn => SlotComes(id, Len(toClient))
         /\ exports["p"][id] \notin torn /\ settled[exports["p"][id]] \in Objects \cup Plain =>
              \/ <<"p", id>> \in DOMAIN resolved
              \/ \E i \in DOMAIN toClient : toClient[i].type = "CTP_RESOLVE" /\ toClient[i].id = id
    /\ \A i \in DOMAIN toClient :
         toClient[i].type = "CTP_RESOLVE" /\ exports["p"][toClient[i].id] \notin torn =>
            SlotComes(toClient[i].id, i - 1)
    /\ thrown => torn # {}

\* The invariant of the session.
SessionInv ==
    /\ SessionTypes /\ GoodExports(exports) /\ HoldsSlots /\ ResolvedWell(World, resolved)
    /\ KnownWell(World) /\ MadeWell(World) /\ ClientInv(World, Session!Client, {}, Open(Vat))
    /\ NoneLeft(Session!Client) /\ PlacesWell(World, Session!Client, Vat)
    /\ WaitingWell(World, Session!Client, Vat) /\ ExecutedWell(World, Session!Client, Vat)
    /\ MessagesWell /\ PromisesWell

\* The kinds of values are apart.
LEMMA KindsApart ==
    /\ Plain \cap Passed = {} /\ Session!Bad \notin Passed \cup Plain
    /\ Session!Unsettled \notin Passed \cup Plain /\ Session!Bad # Session!Unsettled
    /\ Objects \cap Promises = {}
    /\ \A v \in Objects : Session!Kind(v) = "o"
    /\ \A v \in Promises : Session!Kind(v) = "p"
    /\ \A v : Session!Kind(v) \in {"o", "p"}
BY SessionAssumption DEF Plain, Passed, Session!Bad, Session!Unsettled, Session!Data,
   Session!Broken, Session!Kind

\* More exports keep the slots that there are.
Grown(ex, more) ==
    \A k \in {"o", "p"} : /\ Len(ex[k]) <= Len(more[k])
                          /\ \A i \in DOMAIN ex[k] : more[k][i] = ex[k][i]

\* So they do over two steps.
LEMMA GrowsOn ==
    ASSUME NEW e, NEW f, NEW g, GoodExports(e), GoodExports(f), GoodExports(g),
           Grown(e, f), Grown(f, g)
    PROVE  Grown(e, g)
<1>1. \A k \in {"o", "p"} : e[k] \in Seq(Passed) /\ f[k] \in Seq(Passed) /\ g[k] \in Seq(Passed)
  BY DEF GoodExports
<1>2. ASSUME NEW k \in {"o", "p"}
      PROVE  Len(e[k]) <= Len(g[k]) /\ \A i \in DOMAIN e[k] : g[k][i] = e[k][i]
  <2>1. /\ Len(e[k]) <= Len(f[k]) /\ Len(f[k]) <= Len(g[k])
        /\ \A i \in DOMAIN e[k] : f[k][i] = e[k][i]
        /\ \A i \in DOMAIN f[k] : g[k][i] = f[k][i]
    BY DEF Grown
  <2> QED  BY <1>1, <2>1
<1> QED  BY <1>2 DEF Grown

\* Exports that do not change keep them.
LEMMA GrowsNot ==
    ASSUME NEW e, GoodExports(e)
    PROVE  Grown(e, e)
BY DEF GoodExports, Grown

\* A slot stands for its value with more exports too.
LEMMA SlotStays ==
    ASSUME NEW e, NEW f, GoodExports(e), GoodExports(f), Grown(e, f),
           NEW s, NEW v, SlotIs(e, s, v)
    PROVE  SlotIs(f, s, v)
<1>1. CASE v \in Plain  BY <1>1 DEF SlotIs
<1>2. CASE v \notin Plain
  <2>1. /\ v \in Passed /\ s \in SlotSet /\ s[1] = Session!Kind(v)
        /\ s[2] \in DOMAIN e[s[1]] /\ e[s[1]][s[2]] = v
    BY <1>2 DEF SlotIs
  <2>2. s[1] \in {"o", "p"}  BY <2>1, KindsApart
  <2>3. e[s[1]] \in Seq(Passed) /\ f[s[1]] \in Seq(Passed)  BY <2>2 DEF GoodExports
  <2>4. Len(e[s[1]]) <= Len(f[s[1]]) /\ f[s[1]][s[2]] = v  BY <2>1, <2>2 DEF Grown
  <2>5. s[2] \in DOMAIN f[s[1]]  BY <2>1, <2>3, <2>4
  <2> QED  BY <1>2, <2>1, <2>4, <2>5 DEF SlotIs
<1> QED  BY <1>1, <1>2

\* A value keeps its slot.
LEMMA HasSlotStays ==
    ASSUME NEW e, NEW f, GoodExports(e), GoodExports(f), Grown(e, f), NEW v, HasSlot(e, v)
    PROVE  HasSlot(f, v)
<1>1. CASE v \in Plain  BY <1>1 DEF HasSlot
<1>2. CASE v \notin Plain
  <2>1. Session!Kind(v) \in {"o", "p"}  BY KindsApart
  <2> DEFINE k == Session!Kind(v)
  <2>2. PICK i \in DOMAIN e[k] : e[k][i] = v  BY <1>2 DEF HasSlot, Session!Range
  <2>3. e[k] \in Seq(Passed) /\ f[k] \in Seq(Passed)  BY <2>1 DEF GoodExports
  <2>4. Len(e[k]) <= Len(f[k]) /\ f[k][i] = v  BY <2>1, <2>2 DEF Grown
  <2>5. i \in DOMAIN f[k]  BY <2>2, <2>3, <2>4
  <2> QED  BY <2>4, <2>5 DEF HasSlot, Session!Range
<1> QED  BY <1>1, <1>2

\* What has a slot is sent as it.
LEMMA ValToSlotIs ==
    ASSUME NEW ex, GoodExports(ex), NEW v \in Passed \cup Plain, HasSlot(ex, v)
    PROVE  /\ SlotIs(ex, Session!ValToSlot(ex, v), v)
           /\ Session!ValToSlot(ex, v) \in SlotSet
<1>1. CASE v \in Plain
  BY <1>1 DEF SlotIs, Session!ValToSlot, Plain, SlotSet
<1>2. CASE v \notin Plain
  <2> DEFINE k == Session!Kind(v)
  <2>1. k \in {"o", "p"}  BY KindsApart
  <2>2. PICK i \in DOMAIN ex[k] : ex[k][i] = v  BY <1>2 DEF HasSlot, Session!Range
  <2>3. ex[k] \in Seq(Passed)  BY <2>1 DEF GoodExports
  <2>4. \A j \in DOMAIN ex[k] : ex[k][j] = v => j = i  BY <2>1, <2>2 DEF GoodExports
  <2>5. i \in Nat /\ i <= i  BY <2>3
  <2> DEFINE P(x) == x \in DOMAIN ex[k] /\ ex[k][x] = v
                     /\ \A j \in DOMAIN ex[k] : ex[k][j] = v => j <= x
             c == CHOOSE x \in DOMAIN ex[k] : /\ ex[k][x] = v
                                              /\ \A j \in DOMAIN ex[k] : ex[k][j] = v => j <= x
  <2>6. c \in DOMAIN ex[k] /\ ex[k][c] = v  BY <2>2, <2>4, <2>5
  <2>7. c = i  BY <2>4, <2>6
  <2>8. Session!ValToSlot(ex, v) = <<k, c>>
    BY <1>2 DEF Session!ValToSlot, Plain
  <2> HIDE DEF c, k
  <2>9. Session!ValToSlot(ex, v) = <<k, i>>  BY <2>7, <2>8
  <2> QED  BY <1>2, <2>1, <2>2, <2>5, <2>9 DEF SlotIs, SlotSet, Plain, k
<1> QED  BY <1>1, <1>2

\* A value that gets a slot is the last of its kind, or had one.
LEMMA SerializeSlotIs ==
    ASSUME NEW ex, GoodExports(ex), NEW v \in Passed \cup Plain,
           NEW more, more = Session!SerializeSlot(ex, v)
    PROVE  /\ GoodExports(more) /\ Grown(ex, more) /\ HasSlot(more, v)
           /\ \A i \in DOMAIN more["p"] : i \in DOMAIN ex["p"] \/ more["p"][i] = v
<1>1. CASE HasSlot(ex, v)
  <2>1. more = ex  BY <1>1 DEF HasSlot, Session!SerializeSlot, Plain
  <2> QED  BY <1>1, <2>1, GrowsNot
<1>2. CASE ~HasSlot(ex, v)
  <2> DEFINE k == Session!Kind(v)
  <2>1. k \in {"o", "p"} /\ v \in Passed /\ v \notin Plain  BY <1>2, KindsApart DEF HasSlot
  <2>2. ex[k] \in Seq(Passed) /\ \A i \in DOMAIN ex[k] : ex[k][i] # v
    BY <1>2, <2>1 DEF GoodExports, HasSlot, Session!Range
  <2>3. more = [ex EXCEPT ![k] = Append(ex[k], v)]
    BY <1>2 DEF HasSlot, Session!SerializeSlot, Plain
  <2>4. more \in [{"o", "p"} -> Seq(Passed)] /\ more[k] = Append(ex[k], v)
        /\ \A l \in {"o", "p"} \ {k} : more[l] = ex[l]
    BY <2>1, <2>2, <2>3 DEF GoodExports
  <2> DEFINE n == Len(ex[k]) + 1
  <2>5. /\ DOMAIN more[k] = 1..n /\ more[k][n] = v /\ n \in DOMAIN more[k] /\ n \notin DOMAIN ex[k]
        /\ \A i \in DOMAIN more[k] : i = n \/ (i \in DOMAIN ex[k] /\ more[k][i] = ex[k][i])
        /\ Len(ex[k]) <= Len(more[k]) /\ \A i \in DOMAIN ex[k] : more[k][i] = ex[k][i]
    BY <2>2, <2>4
  <2>6. ASSUME NEW l \in {"o", "p"}, NEW i \in DOMAIN more[l]
        PROVE  /\ Session!Kind(more[l][i]) = l
               /\ \A j \in DOMAIN more[l] : more[l][i] = more[l][j] => i = j
    <3>1. CASE l # k  BY <2>4, <3>1 DEF GoodExports
    <3>2. CASE l = k
      <4>1. Session!Kind(more[k][i]) = k  BY <2>1, <2>5, <3>2 DEF GoodExports
      <4>2. \A j \in DOMAIN more[k] : more[k][i] = more[k][j] => i = j
        BY <2>1, <2>2, <2>5, <3>2 DEF GoodExports
      <4> QED  BY <3>2, <4>1, <4>2
    <3> QED  BY <3>1, <3>2
  <2>7. GoodExports(more)  BY <2>4, <2>6 DEF GoodExports
  <2>8. Grown(ex, more)
    <3>1. \A l \in {"o", "p"} : ex[l] \in Seq(Passed)  BY DEF GoodExports
    <3>2. \A l \in {"o", "p"} \ {k} : Len(ex[l]) <= Len(more[l])  BY <2>4, <3>1
    <3> QED  BY <2>4, <2>5, <3>2 DEF Grown
  <2>9. HasSlot(more, v)  BY <2>5 DEF HasSlot, Session!Range
  <2>10. \A i \in DOMAIN more["p"] : i \in DOMAIN ex["p"] \/ more["p"][i] = v
    BY <2>4, <2>5
  <2> QED  BY <2>7, <2>8, <2>9, <2>10
<1> QED  BY <1>1, <1>2

\* Every set of numbers that is not empty has a least one.
LEMMA LeastOf ==
    ASSUME NEW S \in SUBSET Nat, S # {}
    PROVE  \E n \in S : \A k \in S : n <= k
<1> DEFINE less == OpToRel(<, Nat)
<1>1. PICK n \in S : \A k \in S : <<k, n>> \notin less
  <2> HIDE DEF less
  <2>1. IsWellFoundedOn(less, Nat)  BY NatLessThanWellFounded, Zenon DEF less
  <2> QED  BY <2>1, WFMin
<1>2. \A k \in S : ~(k < n)  BY <1>1 DEF OpToRel
<1> QED  BY <1>2

\* What holds at the start and goes on to each next number holds for all.
LEMMA Upwards ==
    ASSUME NEW n \in Nat, NEW S, 0 \in S, \A i \in 1..n : (i - 1) \in S => i \in S
    PROVE  \A i \in 0..n : i \in S
<1> DEFINE Not == {i \in 0..n : i \notin S}
<1> SUFFICES ASSUME Not # {}  PROVE FALSE  OBVIOUS
<1>1. PICK i \in Not : \A k \in Not : i <= k
  <2>1. Not \in SUBSET Nat  OBVIOUS
  <2> HIDE DEF Not
  <2> QED  BY <2>1, LeastOf
<1>2. i # 0 /\ i \in 1..n /\ i - 1 \in 0..n /\ ~(i <= i - 1)  OBVIOUS
<1>3. i - 1 \in S  BY <1>1, <1>2
<1> QED  BY <1>2, <1>3

\* The greatest of a set is the one that all others are at most.
LEMMA GreatestIs ==
    ASSUME NEW n \in Nat, NEW s \in SUBSET (1..n), n \in s
    PROVE  Session!Max(s) = n
<1>1. \A x \in s : (\A y \in s : x >= y) <=> x = n  OBVIOUS
<1> QED  BY <1>1 DEF Session!Max

\* The parts of a list of n that have its last element, and those that have not.
LEMMA PartsOfList ==
    ASSUME NEW n \in Nat, NEW s \in SUBSET (1..n)
    PROVE  /\ n \in s => Session!Max(s) = n /\ s \ {n} \in SUBSET (1..(n - 1)) /\ s # {}
           /\ n \notin s => \A m : s \ {m} \in SUBSET (1..(n - 1))
           /\ n \notin s => s \in SUBSET (1..(n - 1))
           /\ n > 0 => 1..n # {} /\ (1..n) \ {n} = 1..(n - 1) /\ Session!Max(1..n) = n
<1>1. n \in s => Session!Max(s) = n  BY GreatestIs
<1>2. n \in s => s \ {n} \in SUBSET (1..(n - 1)) /\ s # {}  OBVIOUS
<1>4. n \notin s => s \in SUBSET (1..(n - 1))  OBVIOUS
<1>3. n \notin s => \A m : s \ {m} \in SUBSET (1..(n - 1))
  <2> DEFINE T == 1..(n - 1)
  <2> SUFFICES ASSUME n \notin s  PROVE \A m : s \ {m} \in SUBSET T  OBVIOUS
  <2>1. s \subseteq T  BY <1>4
  <2> HIDE DEF T
  <2> QED  BY <2>1
<1>5. n > 0 => n \in 1..n  OBVIOUS
<1>6. n > 0 => Session!Max(1..n) = n  BY <1>5, GreatestIs
<1>7. n > 0 => 1..n # {} /\ (1..n) \ {n} = 1..(n - 1)
  <2>1. \A k : k \in (1..n) \ {n} <=> k \in 1..(n - 1)  OBVIOUS
  <2> QED  BY <1>5, <2>1
<1> QED  BY <1>1, <1>2, <1>3, <1>4, <1>6, <1>7

\* Values get their slots one after the other.
SlotsGiven(f, base, list, n) ==
    \A s \in SUBSET (1..n) :
        f[s] = IF s = {} THEN base
               ELSE Session!SerializeSlot(f[s \ {Session!Max(s)}], list[Session!Max(s)])

\* The fold over values, as a sequence of exports.
LEMMA SlotsAreGiven ==
    ASSUME NEW X, NEW list \in Seq(X), NEW base
    PROVE  \E g : /\ g[0] = base
                  /\ \A i \in 1..Len(list) : g[i] = Session!SerializeSlot(g[i - 1], list[i])
                  /\ Session!FoldLeft(Session!SerializeSlot, base, list) = g[Len(list)]
<1> DEFINE D == SUBSET DOMAIN list
           Folded(f) == f = [s \in D |->
                IF s = {} THEN base
                ELSE Session!SerializeSlot(f[s \ {Session!Max(s)}], list[Session!Max(s)])]
           N == {n \in 0..Len(list) : \E f : SlotsGiven(f, base, list, n)}
<1>1. Session!FoldLeft(Session!SerializeSlot, base, list) = (CHOOSE f : Folded(f))[DOMAIN list]
  BY DEF Session!FoldLeft, Session!MapThenFoldSet
<1>2. Len(list) \in Nat /\ DOMAIN list = 1..Len(list)  OBVIOUS
<1>3. 0 \in N
  <2> DEFINE f == [s \in SUBSET (1..0) |-> base]
  <2>1. \A s \in SUBSET (1..0) : s = {}  OBVIOUS
  <2>2. SlotsGiven(f, base, list, 0)  BY <2>1 DEF SlotsGiven
  <2> QED  BY <2>2
<1>4. ASSUME NEW n \in 1..Len(list), (n - 1) \in N  PROVE n \in N
  <2>1. PICK g : SlotsGiven(g, base, list, n - 1)  BY <1>4
  <2> DEFINE f == [s \in SUBSET (1..n) |->
                     IF n \in s THEN Session!SerializeSlot(g[s \ {n}], list[n]) ELSE g[s]]
  <2>2. ASSUME NEW s \in SUBSET (1..n)
        PROVE  f[s] = IF s = {} THEN base
                      ELSE Session!SerializeSlot(f[s \ {Session!Max(s)}], list[Session!Max(s)])
    <3>1. CASE n \in s
      <4>1. Session!Max(s) = n /\ s \ {n} \in SUBSET (1..n) /\ s # {} /\ n \notin s \ {n}
        BY <3>1, GreatestIs
      <4>2. f[s \ {n}] = g[s \ {n}]  BY <4>1
      <4>3. f[s] = Session!SerializeSlot(g[s \ {n}], list[n])  BY <3>1
      <4> HIDE DEF f
      <4> QED  BY <4>1, <4>2, <4>3
    <3>2. CASE n \notin s
      <4>1. s \in SUBSET (1..(n - 1)) /\ \A m : s \ {m} \in SUBSET (1..n) /\ n \notin s \ {m}
        <5> DEFINE T == 1..n
        <5>1. s \subseteq T  OBVIOUS
        <5>2. s \in SUBSET (1..(n - 1))  BY <3>2, PartsOfList
        <5> HIDE DEF T
        <5>3. \A m : s \ {m} \in SUBSET T /\ n \notin s \ {m}  BY <3>2, <5>1
        <5> QED  BY <5>2, <5>3 DEF T
      <4>2. f[s] = g[s] /\ \A m : f[s \ {m}] = g[s \ {m}]  BY <3>2, <4>1
      <4> HIDE DEF f
      <4> QED  BY <2>1, <4>1, <4>2 DEF SlotsGiven
    <3> QED  BY <3>1, <3>2
  <2> HIDE DEF f
  <2>3. SlotsGiven(f, base, list, n)  BY <2>2 DEF SlotsGiven
  <2> QED  BY <2>3
<1>5. Len(list) \in N
  <2> HIDE DEF N
  <2>1. \A n \in 1..Len(list) : (n - 1) \in N => n \in N  BY <1>4
  <2>2. \A n \in 0..Len(list) : n \in N  BY <1>2, <1>3, <2>1, Upwards
  <2> QED  BY <1>2, <2>2
<1>6. PICK h : SlotsGiven(h, base, list, Len(list))  BY <1>5
<1>7. PICK f : f = (CHOOSE g : Folded(g)) /\ Folded(f)
  <2> DEFINE e == [s \in D |-> h[s]]
  <2>1. \A s \in D : \A m : s \ {m} \in D  BY <1>2
  <2>2. Folded(e)
    <3>1. ASSUME NEW s \in D
          PROVE  e[s] = IF s = {} THEN base
                        ELSE Session!SerializeSlot(e[s \ {Session!Max(s)}], list[Session!Max(s)])
      <4>1. e[s] = h[s] /\ \A m : e[s \ {m}] = h[s \ {m}]  BY <2>1
      <4> HIDE DEF e
      <4> QED  BY <1>2, <1>6, <4>1 DEF SlotsGiven
    <3>2. e = [s \in D |-> e[s]]  OBVIOUS
    <3> HIDE DEF e
    <3> QED  BY <3>1, <3>2
  <2> HIDE DEF e, Folded
  <2> QED  BY <2>2
<1> DEFINE g == [i \in 0..Len(list) |-> f[1..i]]
<1>8. \A i \in 0..Len(list) : 1..i \in D  BY <1>2
<1>9. g[0] = base
  <2>1. 1..0 = {} /\ {} \in D  OBVIOUS
  <2>2. f[{}] = base  BY <1>7, <2>1
  <2>3. g[0] = f[1..0]  BY <1>2
  <2> HIDE DEF g
  <2> QED  BY <2>1, <2>2, <2>3, Zenon
<1>10. ASSUME NEW i \in 1..Len(list)
       PROVE  g[i] = Session!SerializeSlot(g[i - 1], list[i])
  <2>1. 1..i # {} /\ (1..i) \ {i} = 1..(i - 1) /\ Session!Max(1..i) = i  BY <1>2, PartsOfList
  <2>2. 1..i \in D  BY <1>8
  <2>3. f[1..i] = Session!SerializeSlot(f[(1..i) \ {Session!Max(1..i)}], list[Session!Max(1..i)])
    BY <1>7, <2>1, <2>2
  <2>4. f[1..i] = Session!SerializeSlot(f[1..(i - 1)], list[i])  BY <2>1, <2>3
  <2>5. g[i] = f[1..i] /\ g[i - 1] = f[1..(i - 1)]  OBVIOUS
  <2> HIDE DEF g
  <2> QED  BY <2>4, <2>5
<1>11. g[Len(list)] = f[DOMAIN list]  BY <1>2
<1> HIDE DEF g, Folded
<1> QED  BY <1>1, <1>7, <1>9, <1>10, <1>11
\* The reactions run one after the other.
Reacted(f, base, list, n) ==
    \A s \in SUBSET (1..n) :
        f[s] = IF s = {} THEN base
               ELSE Session!React(f[s \ {Session!Max(s)}], list[Session!Max(s)])

\* The fold over promises, as a sequence of what is exported and told.
LEMMA ReactionsRun ==
    ASSUME NEW X, NEW list \in Seq(X), NEW base
    PROVE  \E g : /\ g[0] = base
                  /\ \A i \in 1..Len(list) : g[i] = Session!React(g[i - 1], list[i])
                  /\ Session!FoldLeft(Session!React, base, list) = g[Len(list)]
<1> DEFINE D == SUBSET DOMAIN list
           Folded(f) == f = [s \in D |->
                IF s = {} THEN base
                ELSE Session!React(f[s \ {Session!Max(s)}], list[Session!Max(s)])]
           N == {n \in 0..Len(list) : \E f : Reacted(f, base, list, n)}
<1>1. Session!FoldLeft(Session!React, base, list) = (CHOOSE f : Folded(f))[DOMAIN list]
  BY DEF Session!FoldLeft, Session!MapThenFoldSet
<1>2. Len(list) \in Nat /\ DOMAIN list = 1..Len(list)  OBVIOUS
<1>3. 0 \in N
  <2> DEFINE f == [s \in SUBSET (1..0) |-> base]
  <2>1. \A s \in SUBSET (1..0) : s = {}  OBVIOUS
  <2>2. Reacted(f, base, list, 0)  BY <2>1 DEF Reacted
  <2> QED  BY <2>2
<1>4. ASSUME NEW n \in 1..Len(list), (n - 1) \in N  PROVE n \in N
  <2>1. PICK g : Reacted(g, base, list, n - 1)  BY <1>4
  <2> DEFINE f == [s \in SUBSET (1..n) |->
                     IF n \in s THEN Session!React(g[s \ {n}], list[n]) ELSE g[s]]
  <2>2. ASSUME NEW s \in SUBSET (1..n)
        PROVE  f[s] = IF s = {} THEN base
                      ELSE Session!React(f[s \ {Session!Max(s)}], list[Session!Max(s)])
    <3>1. CASE n \in s
      <4>1. Session!Max(s) = n /\ s \ {n} \in SUBSET (1..n) /\ s # {} /\ n \notin s \ {n}
        BY <3>1, GreatestIs
      <4>2. f[s \ {n}] = g[s \ {n}]  BY <4>1
      <4>3. f[s] = Session!React(g[s \ {n}], list[n])  BY <3>1
      <4> HIDE DEF f
      <4> QED  BY <4>1, <4>2, <4>3
    <3>2. CASE n \notin s
      <4>1. s \in SUBSET (1..(n - 1)) /\ \A m : s \ {m} \in SUBSET (1..n) /\ n \notin s \ {m}
        <5> DEFINE T == 1..n
        <5>1. s \subseteq T  OBVIOUS
        <5>2. s \in SUBSET (1..(n - 1))  BY <3>2, PartsOfList
        <5> HIDE DEF T
        <5>3. \A m : s \ {m} \in SUBSET T /\ n \notin s \ {m}  BY <3>2, <5>1
        <5> QED  BY <5>2, <5>3 DEF T
      <4>2. f[s] = g[s] /\ \A m : f[s \ {m}] = g[s \ {m}]  BY <3>2, <4>1
      <4> HIDE DEF f
      <4> QED  BY <2>1, <4>1, <4>2 DEF Reacted
    <3> QED  BY <3>1, <3>2
  <2> HIDE DEF f
  <2>3. Reacted(f, base, list, n)  BY <2>2 DEF Reacted
  <2> QED  BY <2>3
<1>5. Len(list) \in N
  <2> HIDE DEF N
  <2>1. \A n \in 1..Len(list) : (n - 1) \in N => n \in N  BY <1>4
  <2>2. \A n \in 0..Len(list) : n \in N  BY <1>2, <1>3, <2>1, Upwards
  <2> QED  BY <1>2, <2>2
<1>6. PICK h : Reacted(h, base, list, Len(list))  BY <1>5
<1>7. PICK f : f = (CHOOSE g : Folded(g)) /\ Folded(f)
  <2> DEFINE e == [s \in D |-> h[s]]
  <2>1. \A s \in D : \A m : s \ {m} \in D  BY <1>2
  <2>2. Folded(e)
    <3>1. ASSUME NEW s \in D
          PROVE  e[s] = IF s = {} THEN base
                        ELSE Session!React(e[s \ {Session!Max(s)}], list[Session!Max(s)])
      <4>1. e[s] = h[s] /\ \A m : e[s \ {m}] = h[s \ {m}]  BY <2>1
      <4> HIDE DEF e
      <4> QED  BY <1>2, <1>6, <4>1 DEF Reacted
    <3>2. e = [s \in D |-> e[s]]  OBVIOUS
    <3> HIDE DEF e
    <3> QED  BY <3>1, <3>2
  <2> HIDE DEF e, Folded
  <2> QED  BY <2>2
<1> DEFINE g == [i \in 0..Len(list) |-> f[1..i]]
<1>8. \A i \in 0..Len(list) : 1..i \in D  BY <1>2
<1>9. g[0] = base
  <2>1. 1..0 = {} /\ {} \in D  OBVIOUS
  <2>2. f[{}] = base  BY <1>7, <2>1
  <2>3. g[0] = f[1..0]  BY <1>2
  <2> HIDE DEF g
  <2> QED  BY <2>1, <2>2, <2>3, Zenon
<1>10. ASSUME NEW i \in 1..Len(list)
       PROVE  g[i] = Session!React(g[i - 1], list[i])
  <2>1. 1..i # {} /\ (1..i) \ {i} = 1..(i - 1) /\ Session!Max(1..i) = i  BY <1>2, PartsOfList
  <2>2. 1..i \in D  BY <1>8
  <2>3. f[1..i] = Session!React(f[(1..i) \ {Session!Max(1..i)}], list[Session!Max(1..i)])
    BY <1>7, <2>1, <2>2
  <2>4. f[1..i] = Session!React(f[1..(i - 1)], list[i])  BY <2>1, <2>3
  <2>5. g[i] = f[1..i] /\ g[i - 1] = f[1..(i - 1)]  OBVIOUS
  <2> HIDE DEF g
  <2> QED  BY <2>4, <2>5
<1>11. g[Len(list)] = f[DOMAIN list]  BY <1>2
<1> HIDE DEF g, Folded
<1> QED  BY <1>1, <1>7, <1>9, <1>10, <1>11
\* Calls are handled one after the other.
Handled(f, base, list, n) ==
    \A s \in SUBSET (1..n) :
        f[s] = IF s = {} THEN base
               ELSE Session!Handle(f[s \ {Session!Max(s)}], list[Session!Max(s)])

\* The fold over calls, as a sequence of states of the client.
LEMMA CallsAreHandled ==
    ASSUME NEW X, NEW list \in Seq(X), NEW base
    PROVE  \E g : /\ g[0] = base
                  /\ \A i \in 1..Len(list) : g[i] = Session!Handle(g[i - 1], list[i])
                  /\ Session!FoldLeft(Session!Handle, base, list) = g[Len(list)]
<1> DEFINE D == SUBSET DOMAIN list
           Folded(f) == f = [s \in D |->
                IF s = {} THEN base
                ELSE Session!Handle(f[s \ {Session!Max(s)}], list[Session!Max(s)])]
           N == {n \in 0..Len(list) : \E f : Handled(f, base, list, n)}
<1>1. Session!FoldLeft(Session!Handle, base, list) = (CHOOSE f : Folded(f))[DOMAIN list]
  BY DEF Session!FoldLeft, Session!MapThenFoldSet
<1>2. Len(list) \in Nat /\ DOMAIN list = 1..Len(list)  OBVIOUS
<1>3. 0 \in N
  <2> DEFINE f == [s \in SUBSET (1..0) |-> base]
  <2>1. \A s \in SUBSET (1..0) : s = {}  OBVIOUS
  <2>2. Handled(f, base, list, 0)  BY <2>1 DEF Handled
  <2> QED  BY <2>2
<1>4. ASSUME NEW n \in 1..Len(list), (n - 1) \in N  PROVE n \in N
  <2>1. PICK g : Handled(g, base, list, n - 1)  BY <1>4
  <2> DEFINE f == [s \in SUBSET (1..n) |->
                     IF n \in s THEN Session!Handle(g[s \ {n}], list[n]) ELSE g[s]]
  <2>2. ASSUME NEW s \in SUBSET (1..n)
        PROVE  f[s] = IF s = {} THEN base
                      ELSE Session!Handle(f[s \ {Session!Max(s)}], list[Session!Max(s)])
    <3>1. CASE n \in s
      <4>1. Session!Max(s) = n /\ s \ {n} \in SUBSET (1..n) /\ s # {} /\ n \notin s \ {n}
        BY <3>1, GreatestIs
      <4>2. f[s \ {n}] = g[s \ {n}]  BY <4>1
      <4>3. f[s] = Session!Handle(g[s \ {n}], list[n])  BY <3>1
      <4> HIDE DEF f
      <4> QED  BY <4>1, <4>2, <4>3
    <3>2. CASE n \notin s
      <4>1. s \in SUBSET (1..(n - 1)) /\ \A m : s \ {m} \in SUBSET (1..n) /\ n \notin s \ {m}
        <5> DEFINE T == 1..n
        <5>1. s \subseteq T  OBVIOUS
        <5>2. s \in SUBSET (1..(n - 1))  BY <3>2, PartsOfList
        <5> HIDE DEF T
        <5>3. \A m : s \ {m} \in SUBSET T /\ n \notin s \ {m}  BY <3>2, <5>1
        <5> QED  BY <5>2, <5>3 DEF T
      <4>2. f[s] = g[s] /\ \A m : f[s \ {m}] = g[s \ {m}]  BY <3>2, <4>1
      <4> HIDE DEF f
      <4> QED  BY <2>1, <4>1, <4>2 DEF Handled
    <3> QED  BY <3>1, <3>2
  <2> HIDE DEF f
  <2>3. Handled(f, base, list, n)  BY <2>2 DEF Handled
  <2> QED  BY <2>3
<1>5. Len(list) \in N
  <2> HIDE DEF N
  <2>1. \A n \in 1..Len(list) : (n - 1) \in N => n \in N  BY <1>4
  <2>2. \A n \in 0..Len(list) : n \in N  BY <1>2, <1>3, <2>1, Upwards
  <2> QED  BY <1>2, <2>2
<1>6. PICK h : Handled(h, base, list, Len(list))  BY <1>5
<1>7. PICK f : f = (CHOOSE g : Folded(g)) /\ Folded(f)
  <2> DEFINE e == [s \in D |-> h[s]]
  <2>1. \A s \in D : \A m : s \ {m} \in D  BY <1>2
  <2>2. Folded(e)
    <3>1. ASSUME NEW s \in D
          PROVE  e[s] = IF s = {} THEN base
                        ELSE Session!Handle(e[s \ {Session!Max(s)}], list[Session!Max(s)])
      <4>1. e[s] = h[s] /\ \A m : e[s \ {m}] = h[s \ {m}]  BY <2>1
      <4> HIDE DEF e
      <4> QED  BY <1>2, <1>6, <4>1 DEF Handled
    <3>2. e = [s \in D |-> e[s]]  OBVIOUS
    <3> HIDE DEF e
    <3> QED  BY <3>1, <3>2
  <2> HIDE DEF e, Folded
  <2> QED  BY <2>2
<1> DEFINE g == [i \in 0..Len(list) |-> f[1..i]]
<1>8. \A i \in 0..Len(list) : 1..i \in D  BY <1>2
<1>9. g[0] = base
  <2>1. 1..0 = {} /\ {} \in D  OBVIOUS
  <2>2. f[{}] = base  BY <1>7, <2>1
  <2>3. g[0] = f[1..0]  BY <1>2
  <2> HIDE DEF g
  <2> QED  BY <2>1, <2>2, <2>3, Zenon
<1>10. ASSUME NEW i \in 1..Len(list)
       PROVE  g[i] = Session!Handle(g[i - 1], list[i])
  <2>1. 1..i # {} /\ (1..i) \ {i} = 1..(i - 1) /\ Session!Max(1..i) = i  BY <1>2, PartsOfList
  <2>2. 1..i \in D  BY <1>8
  <2>3. f[1..i] = Session!Handle(f[(1..i) \ {Session!Max(1..i)}], list[Session!Max(1..i)])
    BY <1>7, <2>1, <2>2
  <2>4. f[1..i] = Session!Handle(f[1..(i - 1)], list[i])  BY <2>1, <2>3
  <2>5. g[i] = f[1..i] /\ g[i - 1] = f[1..(i - 1)]  OBVIOUS
  <2> HIDE DEF g
  <2> QED  BY <2>4, <2>5
<1>11. g[Len(list)] = f[DOMAIN list]  BY <1>2
<1> HIDE DEF g, Folded
<1> QED  BY <1>1, <1>7, <1>9, <1>10, <1>11

\* A sequence is one of what its elements are.
LEMMA SequenceOf ==
    ASSUME NEW S, NEW T, NEW s \in Seq(S), \A i \in DOMAIN s : s[i] \in T
    PROVE  s \in Seq(T)
OBVIOUS

\* What is given a slot of an answer: all that comes before what cannot be sent.
LEMMA BeforeBad ==
    ASSUME NEW vals \in Seq(Passed \cup Plain \cup {Session!Bad}), NEW list,
           list = IF Session!Bad \in Session!Range(vals)
                  THEN SubSeq(vals, 1,
                              Session!SelectInSeq(vals, LAMBDA v : v = Session!Bad) - 1)
                  ELSE vals
    PROVE  /\ list \in Seq(Passed \cup Plain)
           /\ \A i \in DOMAIN list : list[i] \in Session!Range(vals)
<1>1. CASE Session!Bad \notin Session!Range(vals)
  <2>1. list = vals /\ \A i \in DOMAIN vals : vals[i] # Session!Bad
    BY <1>1 DEF Session!Range
  <2>2. \A i \in DOMAIN vals : vals[i] \in Passed \cup Plain  BY <2>1
  <2>3. vals \in Seq(Passed \cup Plain)  BY <2>2, SequenceOf
  <2> QED  BY <2>1, <2>3 DEF Session!Range
<1>2. CASE Session!Bad \in Session!Range(vals)
  <2> DEFINE I == {i \in 1..Len(vals) : vals[i] = Session!Bad}
  <2>1. I # {} /\ I \in SUBSET Nat  BY <1>2 DEF Session!Range
  <2>2. PICK k \in I : \A i \in I : k <= i
    <3> HIDE DEF I
    <3> QED  BY <2>1, LeastOf
  <2>3. Session!Min(I) = k
    <3>1. \A x \in I : (\A y \in I : x <= y) <=> x = k  BY <2>2
    <3> HIDE DEF I
    <3> QED  BY <3>1 DEF Session!Min
  <2>4. Session!SelectInSeq(vals, LAMBDA v : v = Session!Bad) = k
    BY <2>1, <2>3 DEF Session!SelectInSeq
  <2>5. list = SubSeq(vals, 1, k - 1)  BY <1>2, <2>4
  <2>6. k \in 1..Len(vals) /\ \A i \in 1..(k - 1) : vals[i] # Session!Bad  BY <2>2
  <2> HIDE DEF I
  <2> DEFINE n == k - 1
  <2>7. n \in Nat /\ n <= Len(vals)  BY <2>6
  <2>8. \A i \in 1..n : vals[i] \in Passed \cup Plain /\ i \in DOMAIN vals  BY <2>6, <2>7
  <2> HIDE DEF n
  <2>9. list = SubSeq(vals, 1, n)  BY <2>5 DEF n
  <2>10. /\ list \in Seq(Passed \cup Plain \cup {Session!Bad})
         /\ \A i \in DOMAIN list : i \in 1..n /\ list[i] = vals[i]
    <3> DEFINE T == Passed \cup Plain \cup {Session!Bad}
    <3> HIDE DEF T
    <3>1. \A s \in Seq(T) : n <= Len(s) =>
             /\ SubSeq(s, 1, n) \in Seq(T)
             /\ \A i \in DOMAIN SubSeq(s, 1, n) : i \in 1..n /\ SubSeq(s, 1, n)[i] = s[i]
      BY <2>7
    <3> QED  BY <2>7, <2>9, <3>1 DEF T
  <2>11. list \in Seq(Passed \cup Plain)
    <3> DEFINE T == Passed \cup Plain
               U == Passed \cup Plain \cup {Session!Bad}
    <3>1. list \in Seq(U) /\ \A i \in DOMAIN list : list[i] \in T  BY <2>8, <2>10
    <3> HIDE DEF T, U
    <3>2. list \in Seq(T)  BY <3>1, SequenceOf
    <3> QED  BY <3>2 DEF T
  <2> QED  BY <2>8, <2>10, <2>11 DEF Session!Range
<1> QED  BY <1>1, <1>2

\* Giving slots to values keeps the exports good.
LEMMA ExportedIs ==
    ASSUME GoodExports(exports), NEW vals \in Seq(Passed \cup Plain \cup {Session!Bad}),
           NEW ex, ex = Session!Exported(vals)
    PROVE  /\ GoodExports(ex) /\ Grown(exports, ex)
           /\ Session!Bad \notin Session!Range(vals) => \A i \in DOMAIN vals : HasSlot(ex, vals[i])
           /\ \A i \in DOMAIN ex["p"] :
                i \in DOMAIN exports["p"] \/ ex["p"][i] \in Session!Range(vals)
<1>1. PICK list : list = IF Session!Bad \in Session!Range(vals)
                         THEN SubSeq(vals, 1,
                                     Session!SelectInSeq(vals, LAMBDA v : v = Session!Bad) - 1)
                         ELSE vals
  OBVIOUS
<1>2. list \in Seq(Passed \cup Plain) /\ \A i \in DOMAIN list : list[i] \in Session!Range(vals)
  BY <1>1, BeforeBad
<1>3. ex = Session!FoldLeft(Session!SerializeSlot, exports, list)  BY <1>1 DEF Session!Exported
<1>4. PICK g : /\ g[0] = exports
               /\ \A i \in 1..Len(list) : g[i] = Session!SerializeSlot(g[i - 1], list[i])
               /\ Session!FoldLeft(Session!SerializeSlot, exports, list) = g[Len(list)]
  BY <1>2, SlotsAreGiven
<1> DEFINE New(e) == \A i \in DOMAIN e["p"] :
                       i \in DOMAIN exports["p"] \/ e["p"][i] \in Session!Range(vals)
           Given(e, n) == \A i \in 1..n : HasSlot(e, list[i])
           S == {n \in 0..Len(list) : GoodExports(g[n]) /\ Grown(exports, g[n])
                                      /\ New(g[n]) /\ Given(g[n], n)}
<1>5. 0 \in S  BY <1>2, <1>4, GrowsNot
<1>6. ASSUME NEW n \in 1..Len(list), (n - 1) \in S  PROVE n \in S
  <2>1. /\ GoodExports(g[n - 1]) /\ Grown(exports, g[n - 1]) /\ New(g[n - 1])
        /\ Given(g[n - 1], n - 1) /\ list[n] \in Passed \cup Plain /\ list[n] \in Session!Range(vals)
    BY <1>2, <1>6
  <2>2. g[n] = Session!SerializeSlot(g[n - 1], list[n])  BY <1>4
  <2>3. /\ GoodExports(g[n]) /\ Grown(g[n - 1], g[n]) /\ HasSlot(g[n], list[n])
        /\ \A i \in DOMAIN g[n]["p"] : i \in DOMAIN g[n - 1]["p"] \/ g[n]["p"][i] = list[n]
    BY <2>1, <2>2, SerializeSlotIs
  <2>4. Grown(exports, g[n])  BY <2>1, <2>3, GrowsOn
  <2>5. Given(g[n], n)
    <3>1. \A i \in 1..(n - 1) : HasSlot(g[n], list[i])  BY <2>1, <2>3, HasSlotStays
    <3>2. \A i \in 1..n : i = n \/ i \in 1..(n - 1)  OBVIOUS
    <3> QED  BY <2>3, <3>1, <3>2
  <2>6. New(g[n])
    <3>1. \A i \in DOMAIN g[n - 1]["p"] : g[n]["p"][i] = g[n - 1]["p"][i]  BY <2>3 DEF Grown
    <3> QED  BY <2>1, <2>3, <3>1
  <2> QED  BY <2>3, <2>4, <2>5, <2>6
<1>7. Len(list) \in S
  <2>1. Len(list) \in Nat  BY <1>2
  <2> HIDE DEF S
  <2>2. \A n \in 1..Len(list) : (n - 1) \in S => n \in S  BY <1>6
  <2>3. \A n \in 0..Len(list) : n \in S  BY <1>5, <2>1, <2>2, Upwards
  <2> QED  BY <2>1, <2>3
<1>8. GoodExports(ex) /\ Grown(exports, ex) /\ New(ex) /\ Given(ex, Len(list))
  BY <1>3, <1>4, <1>7
<1>9. Session!Bad \notin Session!Range(vals) => \A i \in DOMAIN vals : HasSlot(ex, vals[i])
  BY <1>1, <1>8
<1> QED  BY <1>8, <1>9

\* A message has the slots of its values.
LEMMA MessageIs ==
    ASSUME NEW ex, GoodExports(ex), NEW vals \in Seq(Passed \cup Plain), vals # <<>>,
           \A i \in DOMAIN vals : HasSlot(ex, vals[i]),
           NEW type \in {"CTP_RETURN", "CTP_RESOLVE"}, NEW id \in Nat,
           NEW m, m = Session!Message(type, id, ex, vals)
    PROVE  /\ m \in ToClientSet /\ m.type = type /\ m.id = id /\ m.vals = vals
           /\ GoodMessage(ex, m)
<1>1. m = [type |-> type, id |-> id, vals |-> vals,
           slots |-> [i \in DOMAIN vals |-> Session!ValToSlot(ex, vals[i])]]
  BY DEF Session!Message
<1>2. \A i \in DOMAIN vals : /\ SlotIs(ex, Session!ValToSlot(ex, vals[i]), vals[i])
                             /\ Session!ValToSlot(ex, vals[i]) \in SlotSet
  <2>1. \A i \in DOMAIN vals : vals[i] \in Passed \cup Plain  OBVIOUS
  <2> QED  BY <2>1, ValToSlotIs
<1> DEFINE slots == [i \in DOMAIN vals |-> Session!ValToSlot(ex, vals[i])]
<1>3. slots \in Seq(SlotSet) /\ DOMAIN slots = DOMAIN vals  BY <1>2
<1>4. \A i \in DOMAIN vals : SlotIs(ex, slots[i], vals[i])  BY <1>2
<1> HIDE DEF slots
<1>5. m = [type |-> type, id |-> id, vals |-> vals, slots |-> slots]  BY <1>1 DEF slots
<1> QED  BY <1>3, <1>4, <1>5 DEF ToClientSet, GoodMessage

\* The message that resolves a promise.
Resolution(ex, id, r, m) ==
    /\ m \in ToClientSet /\ m.type = "CTP_RESOLVE" /\ m.id = id /\ m.vals = <<r>>
    /\ GoodMessage(ex, m)

\* A promise that is settled is resolved with what settled it.
LEMMA ResolveIs ==
    ASSUME NEW ex, GoodExports(ex), NEW id, id \in DOMAIN ex["p"], NEW p, p = ex["p"][id],
           NEW r, r \in Objects \cup Plain, HasSlot(ex, r),
           NEW m, m = Session!Resolve(p, r, ex)
    PROVE  Resolution(ex, id, r, m)
<1>1. ex["p"] \in Seq(Passed) /\ id \in Nat  BY DEF GoodExports
<1>2. Session!Kind(p) = "p" /\ p \in Passed
  BY <1>1 DEF GoodExports
<1>3. HasSlot(ex, p)  BY <1>2 DEF HasSlot, Session!Range
<1>4. SlotIs(ex, Session!ValToSlot(ex, p), p)  BY <1>2, <1>3, ValToSlotIs
<1>5. Session!ValToSlot(ex, p)[2] = id
  BY <1>2, <1>4, KindsApart DEF SlotIs, GoodExports
<1> DEFINE vals == <<r>>
<1>6. vals \in Seq(Passed \cup Plain) /\ vals # <<>> /\ \A i \in DOMAIN vals : vals[i] = r
  BY DEF Passed
<1>7. m = Session!Message("CTP_RESOLVE", id, ex, vals)  BY <1>5 DEF Session!Resolve
<1> HIDE DEF vals
<1>8. \A i \in DOMAIN vals : HasSlot(ex, vals[i])  BY <1>6
<1>9. /\ m \in ToClientSet /\ m.type = "CTP_RESOLVE" /\ m.id = id /\ m.vals = vals
      /\ GoodMessage(ex, m)
  BY <1>1, <1>6, <1>7, <1>8, MessageIs
<1> QED  BY <1>9 DEF vals, Resolution

\* A message stays right with more exports.
LEMMA MessageStays ==
    ASSUME NEW e, NEW f, GoodExports(e), GoodExports(f), Grown(e, f), NEW m, GoodMessage(e, m)
    PROVE  GoodMessage(f, m)
BY SlotStays DEF GoodMessage

\* So does the resolution of a promise.
LEMMA ResolveStays ==
    ASSUME NEW e, NEW f, GoodExports(e), GoodExports(f), Grown(e, f), NEW res, NEW m, GoodResolve(e, res, m)
    PROVE  GoodResolve(f, res, m)
<1>1. e["p"] \in Seq(Passed) /\ f["p"] \in Seq(Passed)  BY DEF GoodExports
<1>2. Len(e["p"]) <= Len(f["p"]) /\ \A i \in DOMAIN e["p"] : f["p"][i] = e["p"][i]
  BY DEF Grown
<1>3. m.id \in DOMAIN e["p"]  BY DEF GoodResolve
<1>4. m.id \in DOMAIN f["p"] /\ f["p"][m.id] = e["p"][m.id]  BY <1>1, <1>2, <1>3
<1> QED  BY <1>4 DEF GoodResolve

\* What the reactions have told, of the promises exported until n.
Told(ex, told, n) ==
    /\ told \in Seq(ToClientSet)
    /\ \A j \in DOMAIN told :
         /\ told[j].type = "CTP_RESOLVE" /\ told[j].id > Len(exports["p"])
         /\ GoodMessage(ex, told[j]) /\ GoodResolve(ex, settled, told[j])
    /\ \A id \in (Len(exports["p"]) + 1)..n :
         settled[ex["p"][id]] \in Objects \cup Plain => \E j \in DOMAIN told : told[j].id = id

\* A reaction tells of its promise and exports no other promise.
LEMMA ReactIs ==
    ASSUME GoodExports(exports), SessionTypes,
           NEW st, GoodExports(st.ex), st = [ex |-> st.ex, told |-> st.told],
           NEW n, n \in DOMAIN st.ex["p"], n > Len(exports["p"]), Told(st.ex, st.told, n - 1),
           NEW new, new = Session!React(st, st.ex["p"][n])
    PROVE  /\ GoodExports(new.ex) /\ Grown(st.ex, new.ex) /\ new.ex["p"] = st.ex["p"]
           /\ new = [ex |-> new.ex, told |-> new.told] /\ Told(new.ex, new.told, n)
<1> DEFINE ex == st.ex
           p == ex["p"][n]
<1>0. exports["p"] \in Seq(Passed) /\ ex["p"] \in Seq(Passed) /\ n \in Nat /\ Len(exports["p"]) \in Nat
  BY DEF GoodExports
<1>1. p \in Promises
  <2>1. Session!Kind(p) = "p" /\ p \in Passed  BY <1>0 DEF GoodExports
  <2> QED  BY <2>1, KindsApart DEF Passed
<1>2. settled[p] \in Objects \cup Plain \cup {Session!Bad, Session!Unsettled}
  BY <1>1 DEF SessionTypes
<1>3. CASE settled[p] \in {Session!Unsettled, Session!Bad}
  <2>1. new = st  BY <1>3 DEF Session!React
  <2>2. settled[p] \notin Objects \cup Plain  BY <1>3, KindsApart DEF Passed
  <2>3. \A id \in (Len(exports["p"]) + 1)..n : id = n \/ id \in (Len(exports["p"]) + 1)..(n - 1)
    BY <1>0
  <2>4. Told(ex, st.told, n)  BY <2>2, <2>3 DEF Told
  <2> QED  BY <2>1, <2>4, GrowsNot
<1>4. CASE settled[p] \notin {Session!Unsettled, Session!Bad}
  <2> DEFINE more == Session!SerializeSlot(ex, settled[p])
             m == Session!Resolve(p, settled[p], more)
  <2>1. new = [ex |-> more, told |-> Append(st.told, m)]  BY <1>4 DEF Session!React
  <2>2. settled[p] \in Objects \cup Plain /\ settled[p] \in Passed \cup Plain
    BY <1>2, <1>4 DEF Passed
  <2>3. GoodExports(more) /\ Grown(ex, more) /\ HasSlot(more, settled[p])
    BY <2>2, SerializeSlotIs
  <2>4. more["p"] = ex["p"]
    <3>1. CASE settled[p] \in Plain  BY <3>1 DEF Session!SerializeSlot, Plain
    <3>2. CASE settled[p] \in Objects
      BY <3>2, KindsApart DEF Session!SerializeSlot, GoodExports
    <3> QED  BY <2>2, <3>1, <3>2
  <2>5. more["p"][n] = p /\ n \in DOMAIN more["p"]  BY <2>4
  <2>6. /\ m \in ToClientSet /\ m.type = "CTP_RESOLVE" /\ m.id = n /\ m.vals = <<settled[p]>>
        /\ GoodMessage(more, m)
    <3>1. Resolution(more, n, settled[p], m)  BY <2>2, <2>3, <2>5, ResolveIs
    <3> QED  BY <3>1 DEF Resolution
  <2>7. GoodResolve(more, settled, m)  BY <2>2, <2>5, <2>6 DEF GoodResolve
  <2> HIDE DEF more, m
  <2> DEFINE told == Append(st.told, m)
  <2>8. st.told \in Seq(ToClientSet)  BY DEF Told
  <2>9. /\ told \in Seq(ToClientSet) /\ DOMAIN told = 1..(Len(st.told) + 1)
        /\ DOMAIN st.told = 1..Len(st.told) /\ Len(st.told) \in Nat
        /\ told[Len(st.told) + 1] = m /\ \A j \in DOMAIN st.told : told[j] = st.told[j]
    BY <2>6, <2>8
  <2> HIDE DEF told
  <2>10. \A j \in DOMAIN told : j = Len(st.told) + 1 \/ j \in DOMAIN st.told  BY <2>9
  <2>11. ASSUME NEW j \in DOMAIN told
         PROVE  /\ told[j].type = "CTP_RESOLVE" /\ told[j].id > Len(exports["p"])
                /\ GoodMessage(more, told[j]) /\ GoodResolve(more, settled, told[j])
    <3>1. CASE j = Len(st.told) + 1  BY <2>6, <2>7, <2>9, <3>1
    <3>2. CASE j \in DOMAIN st.told
      <4>1. /\ told[j].type = "CTP_RESOLVE" /\ told[j].id > Len(exports["p"])
            /\ GoodMessage(ex, told[j]) /\ GoodResolve(ex, settled, told[j])
        BY <2>9, <3>2 DEF Told
      <4> QED  BY <2>3, <4>1, MessageStays, ResolveStays
    <3> QED  BY <2>10, <3>1, <3>2
  <2>12. ASSUME NEW id \in (Len(exports["p"]) + 1)..n, settled[more["p"][id]] \in Objects \cup Plain
         PROVE  \E j \in DOMAIN told : told[j].id = id
    <3>1. CASE id = n
      <4>1. Len(st.told) + 1 \in DOMAIN told  BY <2>9
      <4> QED  BY <2>6, <2>9, <3>1, <4>1
    <3>2. CASE id # n
      <4>1. id \in (Len(exports["p"]) + 1)..(n - 1)  BY <1>0, <3>2
      <4>2. PICK j \in DOMAIN st.told : st.told[j].id = id  BY <2>4, <2>12, <4>1 DEF Told
      <4>3. j \in DOMAIN told /\ told[j].id = id  BY <2>9, <4>2
      <4> QED  BY <4>3
    <3> QED  BY <3>1, <3>2
  <2>13. Told(more, told, n)  BY <2>9, <2>11, <2>12 DEF Told
  <2>14. new = [ex |-> more, told |-> told]  BY <2>1 DEF told
  <2>15. new.ex = more /\ new.told = told  BY <2>14
  <2> QED  BY <2>3, <2>4, <2>13, <2>14, <2>15
<1> QED  BY <1>3, <1>4

\* What serializing values does: they have slots, and the reactions of the
\* promises that have got theirs have told what there is to tell.
LEMMA SerializeIs ==
    ASSUME GoodExports(exports), SessionTypes,
           NEW vals \in Seq(Passed \cup Plain \cup {Session!Bad}),
           NEW s, s = Session!Serialize(vals)
    PROVE  /\ GoodExports(s.ex) /\ Grown(exports, s.ex)
           /\ Session!Bad \notin Session!Range(vals)
                => \A i \in DOMAIN vals : HasSlot(s.ex, vals[i])
           /\ \A i \in DOMAIN s.ex["p"] :
                i \in DOMAIN exports["p"] \/ s.ex["p"][i] \in Session!Range(vals)
           /\ Told(s.ex, s.told, Len(s.ex["p"]))
<1>1. PICK ex : ex = Session!Exported(vals)  OBVIOUS
<1>2. /\ GoodExports(ex) /\ Grown(exports, ex)
      /\ Session!Bad \notin Session!Range(vals) => \A i \in DOMAIN vals : HasSlot(ex, vals[i])
      /\ \A i \in DOMAIN ex["p"] :
           i \in DOMAIN exports["p"] \/ ex["p"][i] \in Session!Range(vals)
  BY <1>1, ExportedIs
<1>3. exports["p"] \in Seq(Passed) /\ ex["p"] \in Seq(Passed)
      /\ Len(exports["p"]) <= Len(ex["p"])
  BY <1>2 DEF GoodExports, Grown
<1> DEFINE base == [ex |-> ex, told |-> <<>>]
           low == Len(exports["p"])
           high == Len(ex["p"])
           list == SubSeq(ex["p"], low + 1, high)
<1>4. /\ list \in Seq(Passed) /\ Len(list) = high - low
      /\ \A i \in 1..Len(list) : list[i] = ex["p"][low + i]
  <2>1. ASSUME NEW a, a \in Seq(Passed), NEW l \in Nat, l <= Len(a)
        PROVE  /\ SubSeq(a, l + 1, Len(a)) \in Seq(Passed)
               /\ Len(SubSeq(a, l + 1, Len(a))) = Len(a) - l
               /\ \A i \in 1..(Len(a) - l) : SubSeq(a, l + 1, Len(a))[i] = a[l + i]
    <3>1. l + 1 \in 1..(Len(a) + 1) /\ Len(a) \in Nat  BY <2>1
    <3>2. \A i \in (l + 1)..Len(a) : a[i] \in Passed  BY <2>1
    <3> QED  BY <2>1, <3>1, <3>2, SubSeqProperties
  <2>2. low \in Nat /\ low <= high  BY <1>3
  <2> QED  BY <1>3, <2>1, <2>2
<1>5. s = Session!FoldLeft(Session!React, base, list)  BY <1>1 DEF Session!Serialize
<1> HIDE DEF list
<1>6. PICK g : /\ g[0] = base
               /\ \A i \in 1..Len(list) : g[i] = Session!React(g[i - 1], list[i])
               /\ Session!FoldLeft(Session!React, base, list) = g[Len(list)]
  BY <1>4, ReactionsRun
<1> DEFINE S == {n \in 0..Len(list) :
                   /\ GoodExports(g[n].ex) /\ Grown(ex, g[n].ex) /\ g[n].ex["p"] = ex["p"]
                   /\ g[n] = [ex |-> g[n].ex, told |-> g[n].told]
                   /\ Told(g[n].ex, g[n].told, low + n)}
<1>7. 0 \in S
  <2>1. g[0].ex = ex /\ g[0].told = <<>> /\ g[0] = [ex |-> g[0].ex, told |-> g[0].told]  BY <1>6
  <2>2. Told(ex, <<>>, low + 0)
    <3>1. <<>> \in Seq(ToClientSet) /\ DOMAIN <<>> = {}  OBVIOUS
    <3>2. (low + 1)..(low + 0) = {}  BY <1>3
    <3> QED  BY <3>1, <3>2 DEF Told
  <2>3. 0 \in 0..Len(list)  BY <1>4
  <2> QED  BY <1>2, <2>1, <2>2, <2>3, GrowsNot
<1>8. ASSUME NEW n \in 1..Len(list), (n - 1) \in S  PROVE n \in S
  <2>1. PICK st : st = g[n - 1]  OBVIOUS
  <2>2. /\ GoodExports(st.ex) /\ Grown(ex, st.ex) /\ st.ex["p"] = ex["p"]
        /\ st = [ex |-> st.ex, told |-> st.told] /\ Told(st.ex, st.told, low + (n - 1))
    BY <1>8, <2>1
  <2>3. low + n \in DOMAIN ex["p"] /\ low + n > low /\ (low + n) - 1 = low + (n - 1)
    <3>1. PICK l, e : l = low /\ e = ex["p"]  OBVIOUS
    <3>2. PICK h : h = Len(e)  OBVIOUS
    <3>3. e \in Seq(Passed) /\ l \in Nat /\ h \in Nat /\ l <= h  BY <1>3, <3>1, <3>2
    <3>4. DOMAIN e = 1..h /\ Len(list) = h - l  BY <1>4, <3>1, <3>2, <3>3
    <3>5. l + n \in 1..h /\ l + n > l /\ (l + n) - 1 = l + (n - 1)  BY <3>3, <3>4
    <3> QED  BY <3>1, <3>4, <3>5
  <2>4. g[n] = Session!React(st, st.ex["p"][low + n])  BY <1>4, <1>6, <2>1, <2>2
  <2>5. PICK new : new = g[n]  OBVIOUS
  <2>6. /\ GoodExports(new.ex) /\ Grown(st.ex, new.ex) /\ new.ex["p"] = st.ex["p"]
        /\ new = [ex |-> new.ex, told |-> new.told] /\ Told(new.ex, new.told, low + n)
    <3> DEFINE k == low + n
    <3>1. k \in DOMAIN st.ex["p"] /\ k > Len(exports["p"]) /\ Told(st.ex, st.told, k - 1)
      BY <2>2, <2>3
    <3>2. new = Session!React(st, st.ex["p"][k])  BY <2>4, <2>5
    <3> HIDE DEF k
    <3>3. /\ GoodExports(new.ex) /\ Grown(st.ex, new.ex) /\ new.ex["p"] = st.ex["p"]
          /\ new = [ex |-> new.ex, told |-> new.told] /\ Told(new.ex, new.told, k)
      BY <2>2, <3>1, <3>2, ReactIs
    <3> QED  BY <3>3 DEF k
  <2>7. Grown(ex, new.ex)  BY <1>2, <2>2, <2>6, GrowsOn
  <2> QED  BY <2>2, <2>5, <2>6, <2>7
<1>9. Len(list) \in S
  <2>1. Len(list) \in Nat  BY <1>4
  <2> HIDE DEF S
  <2>2. \A n \in 1..Len(list) : (n - 1) \in S => n \in S  BY <1>8
  <2>3. \A n \in 0..Len(list) : n \in S  BY <1>7, <2>1, <2>2, Upwards
  <2> QED  BY <2>1, <2>3
<1>10. s = g[Len(list)]  BY <1>5, <1>6
<1>11. /\ GoodExports(s.ex) /\ Grown(ex, s.ex) /\ s.ex["p"] = ex["p"]
       /\ Told(s.ex, s.told, high)
  <2>1. low + Len(list) = high  BY <1>3, <1>4
  <2> HIDE DEF low, high
  <2> QED  BY <1>9, <1>10, <2>1
<1>12. Grown(exports, s.ex)  BY <1>2, <1>11, GrowsOn
<1>13. Session!Bad \notin Session!Range(vals) => \A i \in DOMAIN vals : HasSlot(s.ex, vals[i])
  BY <1>2, <1>11, HasSlotStays
<1> HIDE DEF high
<1>14. high = Len(s.ex["p"])  BY <1>11 DEF high
<1> QED  BY <1>2, <1>11, <1>12, <1>13, <1>14

\* The state of the client, as Session!Client has it.
IsState(st) ==
    st = [questions |-> st.questions, toVat |-> st.toVat, answer |-> st.answer,
          postponed |-> st.postponed, resolved |-> st.resolved]

\* What a reference stands for stays while calls are made, slots get known,
\* promises are settled and answers come.
Further(w, st, v, new) ==
    /\ Len(w.made) <= Len(v.made) /\ \A n \in DOMAIN w.made : v.made[n] = w.made[n]
    /\ DOMAIN w.known \subseteq DOMAIN v.known
    /\ \A s \in DOMAIN w.known : v.known[s] = w.known[s]
    /\ \A p \in Promises : w.settled[p] # Session!Unsettled => v.settled[p] = w.settled[p]
    /\ \A n \in Session!Numbers : st.answer[n] # Session!NoAnswer => new.answer[n] = st.answer[n]

\* So the slot of a reference that is known stays.
LEMMA RefStays ==
    ASSUME NEW w, NEW st, NEW v, NEW new, Further(w, st, v, new),
           st.answer \in [Session!Numbers -> Seq(SlotSet)],
           NEW ref, RefKnown(w, st, ref)
    PROVE  /\ RefKnown(v, new, ref) /\ RefSlot(new, ref) = RefSlot(st, ref)
           /\ v.known[RefSlot(new, ref)] = w.known[RefSlot(st, ref)]
<1>1. ref.of = "answer" => ref.n \in Session!Numbers /\ new.answer[ref.n] = st.answer[ref.n]
  <2>1. ASSUME ref.of = "answer"  PROVE st.answer[ref.n] # Session!NoAnswer
    <3>1. ref.n \in Session!Numbers /\ ref.k \in DOMAIN st.answer[ref.n]
      BY <2>1 DEF RefKnown
    <3>2. DOMAIN <<>> = {}  OBVIOUS
    <3> QED  BY <3>1, <3>2 DEF Session!NoAnswer
  <2> QED  BY <2>1 DEF RefKnown, Further
<1>2. RefSlot(new, ref) = RefSlot(st, ref)  BY <1>1 DEF RefSlot, RefKnown
<1>3. RefSlot(st, ref) \in DOMAIN w.known  BY DEF RefKnown
<1>4. v.known[RefSlot(st, ref)] = w.known[RefSlot(st, ref)] /\ RefSlot(st, ref) \in DOMAIN v.known
  BY <1>3 DEF Further
<1> QED  BY <1>1, <1>2, <1>4 DEF RefKnown

\* A call that is on its way, or waits, stays what was made.
LEMMA CallStays ==
    ASSUME NEW w, NEW st, NEW v, NEW new, Further(w, st, v, new),
           st.answer \in [Session!Numbers -> Seq(SlotSet)], KnownWell(w), w.made \in Seq(MadeSet),
           v.made \in Seq(MadeSet),
           NEW m, m.n \in DOMAIN w.made, CallWell(w, st, m)
    PROVE  CallWell(v, new, m) /\ v.known[m.target] = w.known[m.target]
<1>1. v.made[m.n] = w.made[m.n]  BY DEF Further
<1> DEFINE ref == Ref(w, m.n)
           x == w.known[RefSlot(st, ref)]
<1>2. RefKnown(w, st, ref) /\ m.args = w.made[m.n].args /\ m.target \in DOMAIN w.known
      /\ (w.known[m.target] = x \/ (x \in Promises /\ w.known[m.target] = w.settled[x]))
  BY DEF CallWell
<1>3. Ref(v, m.n) = ref  BY <1>1 DEF Ref
<1>4. /\ RefKnown(v, new, ref) /\ RefSlot(new, ref) = RefSlot(st, ref)
      /\ v.known[RefSlot(new, ref)] = x
  BY <1>2, RefStays
<1>5. m.target \in DOMAIN v.known /\ v.known[m.target] = w.known[m.target]
      /\ w.known[m.target] \in Passed
  BY <1>2 DEF Further, KnownWell
<1>6. x \in Promises /\ w.known[m.target] = w.settled[x] => v.settled[x] = w.settled[x]
  BY <1>5, KindsApart DEF Further
<1> QED  BY <1>1, <1>2, <1>3, <1>4, <1>5, <1>6 DEF CallWell

\* Where a call goes: through what was resolved or not, to a slot of what the
\* reference stands for.
LEMMA TargetIs ==
    ASSUME NEW w, KnownWell(w), NEW res, ResolvedWell(w, res), NEW s \in SlotSet,
           Session!IsSlot(s) => s \in DOMAIN w.known,
           NEW t, t = Session!Through(res, s), Session!IsSlot(t)
    PROVE  /\ s \in DOMAIN w.known /\ t \in DOMAIN w.known /\ t \in SlotSet
           /\ \/ w.known[t] = w.known[s]
              \/ w.known[s] \in Promises /\ w.known[t] = w.settled[w.known[s]]
<1>1. CASE s \notin DOMAIN res  BY <1>1 DEF Session!Through
<1>2. CASE s \in DOMAIN res
  <2>1. t = res[s]  BY <1>2 DEF Session!Through
  <2>2. s \in DOMAIN w.known /\ s[1] = "p" /\ w.settled[w.known[s]] \in Objects \cup Plain
    BY <1>2 DEF ResolvedWell
  <2>3. w.settled[w.known[s]] \notin Plain
    BY <1>2, <2>1, KindsApart
       DEF ResolvedWell, Session!IsSlot, Plain, Session!Data, Session!Broken
  <2>4. t \in DOMAIN w.known /\ w.known[t] = w.settled[w.known[s]]
    BY <1>2, <2>1, <2>3 DEF ResolvedWell
  <2>5. w.known[s] \in Promises
    <3>1. w.known[s] \in Passed /\ Session!Kind(w.known[s]) = "p"  BY <2>2 DEF KnownWell
    <3> QED  BY <3>1, KindsApart DEF Passed
  <2>6. t \in {"o", "p"} \X Nat  BY <2>4 DEF KnownWell
  <2> QED  BY <2>2, <2>4, <2>5, <2>6 DEF SlotSet
<1> QED  BY <1>1, <1>2

\* A call that the client can handle: one that is in hand.
InHand(w, st, hand, c) ==
    /\ c.n \in hand /\ c.n \in DOMAIN w.made /\ c.ref = Ref(w, c.n) /\ c.args = w.made[c.n].args
    /\ c = [n |-> c.n, ref |-> c.ref, args |-> c.args]
    /\ c.ref.of \in {"slot", "answer"}
    /\ \A i \in DOMAIN st.questions : Ref(w, st.questions[i]) = c.ref => st.questions[i] < c.n
    /\ c.ref.of = "answer" =>
         \A j \in DOMAIN st.postponed[c.ref.n] : st.postponed[c.ref.n][j].n < c.n

\* It waits for an answer.
Postpones(st, c, new) ==
    /\ c.ref.of = "answer" /\ st.answer[c.ref.n] = Session!NoAnswer
    /\ new = [questions |-> st.questions, toVat |-> st.toVat, answer |-> st.answer,
              postponed |-> [st.postponed EXCEPT ![c.ref.n] = Append(@, c)],
              resolved |-> st.resolved]

\* What it is made on is no remote.
FailsAtOnce(st, c, new) ==
    /\ c.ref.of = "answer" => st.answer[c.ref.n] # Session!NoAnswer
    /\ new = [questions |-> st.questions, toVat |-> st.toVat,
              answer |-> [st.answer EXCEPT ![c.n] = Session!Failed],
              postponed |-> st.postponed, resolved |-> st.resolved]

\* The message of a call.
Sent(st, c, t) ==
    [type |-> "CTP_CALL", questionID |-> Len(st.questions) + 1, n |-> c.n, target |-> t,
     args |-> c.args]

\* It goes to the slot that its reference stands for.
Sends(w, st, c, new) ==
    /\ c.ref.of = "answer" => st.answer[c.ref.n] # Session!NoAnswer
    /\ \E t \in SlotSet :
         /\ CallWell(w, st, Sent(st, c, t))
         /\ new = [questions |-> Append(st.questions, c.n), toVat |-> Append(st.toVat, Sent(st, c, t)),
                   answer |-> st.answer, postponed |-> st.postponed, resolved |-> st.resolved]

\* What a reference is, as it was made.
LEMMA RefIs ==
    ASSUME NEW w, MadeWell(w), NEW n \in DOMAIN w.made
    PROVE  /\ n \in Session!Numbers /\ w.made[n].ref \in RefSet /\ w.made[n].args \in Seq(SlotSet)
           /\ Ref(w, n) = w.made[n].ref /\ n \in Nat
           /\ Ref(w, n).of \in {"bootstrap", "slot", "answer"}
           /\ Ref(w, n).of = "slot" => Ref(w, n).slot \in SlotSet /\ Ref(w, n).slot \in DOMAIN w.known
           /\ Ref(w, n).of = "answer" =>
                /\ Ref(w, n).n \in Session!Numbers /\ Ref(w, n).n < n /\ Ref(w, n).n \in DOMAIN w.made
                /\ Ref(w, n).k \in 1..2
<1>1. w.made \in Seq(MadeSet) /\ Len(w.made) <= MaxCalls /\ MaxCalls \in Nat
  BY SessionAssumption DEF MadeWell
<1>2. w.made[n] \in MadeSet /\ n \in Nat /\ n \in 1..Len(w.made)  BY <1>1
<1>3. w.made[n].ref \in RefSet /\ w.made[n].args \in Seq(SlotSet)  BY <1>2 DEF MadeSet
<1>4. n \in Session!Numbers  BY <1>1, <1>2 DEF Session!Numbers
<1> DEFINE ref == Ref(w, n)
<1>5. ref.of \in {"bootstrap", "slot", "answer"}
      /\ (ref.of = "slot" => ref.slot \in SlotSet)
      /\ (ref.of = "answer" => ref.k \in 1..2)
  BY <1>3 DEF RefSet, Ref, Session!BootRef
<1>6. ref.of = "slot" => ref.slot \in DOMAIN w.known  BY DEF MadeWell, Ref
<1>7. ref.of = "answer" => ref.n \in 1..(n - 1)  BY DEF MadeWell, Ref
<1>8. ref.of = "answer" => ref.n \in Session!Numbers /\ ref.n < n /\ ref.n \in DOMAIN w.made
  BY <1>1, <1>2, <1>4, <1>7 DEF Session!Numbers
<1> QED  BY <1>2, <1>3, <1>4, <1>5, <1>6, <1>8 DEF Ref

\* Handling a call is one of three things.
LEMMA HandleIs ==
    ASSUME NEW w, NEW st, NEW hand, NEW open, IsState(st), KnownWell(w), MadeWell(w),
           ResolvedWell(w, st.resolved), AnswersWell(w, st, hand, open),
           NEW c, InHand(w, st, hand, c), NEW new, new = Session!Handle(st, c)
    PROVE  Postpones(st, c, new) \/ FailsAtOnce(st, c, new) \/ Sends(w, st, c, new)
<1>1. /\ c.ref.of \in {"slot", "answer"} /\ c.ref = Ref(w, c.n) /\ c.n \in DOMAIN w.made
      /\ c.args = w.made[c.n].args
  BY DEF InHand
<1>2. /\ c.ref.of = "slot" => c.ref.slot \in SlotSet /\ c.ref.slot \in DOMAIN w.known
      /\ c.ref.of = "answer" => c.ref.n \in Session!Numbers /\ c.ref.k \in 1..2
  BY <1>1, RefIs
<1>3. CASE c.ref.of = "answer" /\ st.answer[c.ref.n] = Session!NoAnswer
  <2>1. new = [st EXCEPT !.postponed[c.ref.n] = Append(@, c)]  BY <1>3 DEF Session!Handle
  <2>2. new = [questions |-> st.questions, toVat |-> st.toVat, answer |-> st.answer,
               postponed |-> [st.postponed EXCEPT ![c.ref.n] = Append(@, c)],
               resolved |-> st.resolved]
    BY <2>1 DEF IsState
  <2> QED  BY <1>3, <2>2 DEF Postpones
<1>4. CASE ~(c.ref.of = "answer" /\ st.answer[c.ref.n] = Session!NoAnswer)
  <2> DEFINE s == IF c.ref.of = "slot" THEN c.ref.slot
                  ELSE Session!Member(st.answer[c.ref.n], c.ref.k)
             t == Session!Through(st.resolved, s)
  <2>1. new = Session!Post(st, c, s)  BY <1>1, <1>4 DEF Session!Handle
  <2>2. /\ s \in SlotSet
        /\ Session!IsSlot(s) =>
             /\ s \in DOMAIN w.known /\ s = RefSlot(st, c.ref)
             /\ c.ref.of = "answer" => c.ref.k \in DOMAIN st.answer[c.ref.n]
    <3>1. CASE c.ref.of = "slot"  BY <1>2, <3>1 DEF RefSlot
    <3>2. CASE c.ref.of = "answer" /\ c.ref.k \in DOMAIN st.answer[c.ref.n]
      <4>1. s = st.answer[c.ref.n][c.ref.k]  BY <3>2 DEF Session!Member
      <4>2. st.answer[c.ref.n] \in Seq(SlotSet)  BY <1>2, <3>2 DEF AnswersWell
      <4>3. s \in SlotSet  BY <3>2, <4>1, <4>2
      <4>4. Session!IsSlot(s) => s \in DOMAIN w.known
        BY <1>2, <3>2, <4>1 DEF AnswersWell, Session!IsSlot
      <4> QED  BY <3>2, <4>1, <4>3, <4>4 DEF RefSlot
    <3>3. CASE c.ref.of = "answer" /\ c.ref.k \notin DOMAIN st.answer[c.ref.n]
      <4>1. s = <<Session!Data, 0>>  BY <3>3 DEF Session!Member
      <4> QED  BY <4>1 DEF SlotSet, Session!IsSlot, Session!Data
    <3> QED  BY <1>1, <3>1, <3>2, <3>3
  <2> HIDE DEF s
  <2>3. CASE ~Session!IsSlot(t)
    <3>1. new = [st EXCEPT !.answer[c.n] = Session!Failed]  BY <2>1, <2>3 DEF Session!Post
    <3>2. new = [questions |-> st.questions, toVat |-> st.toVat,
                 answer |-> [st.answer EXCEPT ![c.n] = Session!Failed],
                 postponed |-> st.postponed, resolved |-> st.resolved]
      BY <3>1 DEF IsState
    <3> QED  BY <1>4, <3>2 DEF FailsAtOnce
  <2>4. CASE Session!IsSlot(t)
    <3>1. /\ s \in DOMAIN w.known /\ t \in DOMAIN w.known /\ t \in SlotSet
          /\ \/ w.known[t] = w.known[s]
             \/ w.known[s] \in Promises /\ w.known[t] = w.settled[w.known[s]]
      BY <2>2, <2>4, TargetIs
    <3>2. w.known[s] \in Passed /\ s[1] = Session!Kind(w.known[s]) /\ s[1] \in {"o", "p"}
      BY <3>1, KindsApart DEF KnownWell
    <3>3. Session!IsSlot(s)  BY <3>2 DEF Session!IsSlot
    <3>4. RefKnown(w, st, c.ref) /\ s = RefSlot(st, c.ref)
      BY <1>1, <1>2, <2>2, <3>1, <3>3 DEF RefKnown
    <3>5. new = [st EXCEPT !.questions = Append(@, c.n), !.toVat = Append(@, Sent(st, c, t))]
      BY <2>1, <2>4 DEF Session!Post, Sent
    <3> DEFINE m == Sent(st, c, t)
    <3>6. m.n = c.n /\ m.target = t /\ m.args = c.args  BY DEF Sent
    <3> HIDE DEF m, t
    <3>7. new = [questions |-> Append(st.questions, c.n), toVat |-> Append(st.toVat, m),
                 answer |-> st.answer, postponed |-> st.postponed, resolved |-> st.resolved]
      BY <3>5 DEF IsState, m
    <3>8. CallWell(w, st, m)  BY <1>1, <3>1, <3>4, <3>6 DEF CallWell
    <3> QED  BY <1>4, <3>1, <3>7, <3>8 DEF Sends, m
  <2> QED  BY <2>3, <2>4
<1> QED  BY <1>3, <1>4

\* A sequence with one more at its end.
LEMMA AppendIs ==
    ASSUME NEW S, NEW s \in Seq(S), NEW x \in S, NEW t, t = Append(s, x)
    PROVE  /\ t \in Seq(S) /\ Len(s) \in Nat
           /\ Len(t) = Len(s) + 1 /\ Len(s) + 1 \in Nat
           /\ DOMAIN t = 1..(Len(s) + 1) /\ DOMAIN s = 1..Len(s) /\ DOMAIN s = 1..((Len(s) + 1) - 1)
           /\ Len(s) + 1 \in DOMAIN t /\ Len(s) + 1 \notin DOMAIN s /\ t[Len(s) + 1] = x
           /\ \A i \in DOMAIN s : i \in DOMAIN t /\ t[i] = s[i] /\ i < Len(s) + 1
           /\ \A i \in DOMAIN t : i = Len(s) + 1 \/ i \in DOMAIN s
OBVIOUS

\* Handling a call leaves the answers that there are.
LEMMA FurtherHere ==
    ASSUME NEW w, NEW st, NEW new,
           \A n \in Session!Numbers : st.answer[n] # Session!NoAnswer => new.answer[n] = st.answer[n]
    PROVE  Further(w, st, w, new)
BY DEF Further

\* A call that waits does so at one place, after those before it.
LEMMA PostponesKeeps ==
    ASSUME NEW w, NEW st, NEW hand, NEW open, IsState(st), MadeWell(w),
           ClientInv(w, st, hand, open),
           NEW c, InHand(w, st, hand, c), NEW new, Postpones(st, c, new)
    PROVE  ClientInv(w, new, hand \ {c.n}, open)
<1>1. /\ c.ref.of = "answer" /\ c.n \in DOMAIN w.made /\ c.ref = Ref(w, c.n)
      /\ c.args = w.made[c.n].args /\ c = [n |-> c.n, ref |-> c.ref, args |-> c.args]
      /\ c.n \in hand
      /\ \A j \in DOMAIN st.postponed[c.ref.n] : st.postponed[c.ref.n][j].n < c.n
      /\ st.answer[c.ref.n] = Session!NoAnswer
  BY DEF InHand, Postpones
<1>2. /\ new.questions = st.questions /\ new.toVat = st.toVat /\ new.answer = st.answer
      /\ new.postponed = [st.postponed EXCEPT ![c.ref.n] = Append(@, c)]
  BY DEF Postpones
<1> DEFINE k == c.ref.n
<1>3. k \in Session!Numbers /\ k < c.n /\ c.n \in Session!Numbers /\ c.n \in Nat
  BY <1>1, RefIs
<1>4. c \in LaterSet  BY <1>1, RefIs DEF LaterSet, Ref
<1>5. st.postponed \in [Session!Numbers -> Seq(LaterSet)]  BY DEF ClientInv, LaterWell
<1>6. /\ new.postponed \in [Session!Numbers -> Seq(LaterSet)]
      /\ new.postponed[k] = Append(st.postponed[k], c)
      /\ \A l \in Session!Numbers : l # k => new.postponed[l] = st.postponed[l]
  BY <1>2, <1>3, <1>4, <1>5
<1> DEFINE n == Len(st.postponed[k]) + 1
<1>7. /\ DOMAIN new.postponed[k] = 1..n /\ DOMAIN st.postponed[k] = 1..(n - 1) /\ n \in Nat
      /\ new.postponed[k][n] = c /\ n \in DOMAIN new.postponed[k]
      /\ \A i \in DOMAIN st.postponed[k] : new.postponed[k][i] = st.postponed[k][i]
      /\ \A i \in DOMAIN new.postponed[k] : i = n \/ i \in DOMAIN st.postponed[k]
  <2>1. st.postponed[k] \in Seq(LaterSet)  BY <1>3, <1>5
  <2> HIDE DEF k
  <2> QED  BY <1>4, <1>6, <2>1, AppendIs
<1> HIDE DEF n
<1>8. QuestionsWell(w, new)  BY <1>2 DEF ClientInv, QuestionsWell
<1>9. ToVatWell(w, new)
  <2>1. \A m : CallWell(w, new, m) = CallWell(w, st, m)
    BY <1>2 DEF CallWell, RefKnown, RefSlot
  <2> QED  BY <1>2, <2>1 DEF ClientInv, ToVatWell
<1>10. LaterWell(w, new, hand \ {c.n})
  <2>1. ASSUME NEW l \in Session!Numbers, NEW i \in DOMAIN st.postponed[l],
               NEW d, d = st.postponed[l][i]
        PROVE  /\ d.n \in DOMAIN w.made /\ l < d.n
               /\ d.ref = Ref(w, d.n) /\ d.args = w.made[d.n].args
               /\ d.ref.of = "answer" /\ d.ref.n = l
               /\ st.answer[d.n] = Session!NoAnswer
               /\ d.n \notin hand /\ d.n \notin Session!Range(st.questions)
               /\ \A j \in DOMAIN st.postponed[l] : i < j => d.n < st.postponed[l][j].n
    BY <2>1 DEF ClientInv, LaterWell
  <2>2. \A m \in hand : /\ m \in DOMAIN w.made /\ m \notin Session!Range(st.questions)
                        /\ st.answer[m] = Session!NoAnswer
    BY DEF ClientInv, LaterWell
  <2>3. ASSUME NEW l \in Session!Numbers, NEW i \in DOMAIN new.postponed[l],
               NEW d, d = new.postponed[l][i]
        PROVE  /\ d.n \in DOMAIN w.made /\ l < d.n
               /\ d.ref = Ref(w, d.n) /\ d.args = w.made[d.n].args
               /\ d.ref.of = "answer" /\ d.ref.n = l
               /\ new.answer[d.n] = Session!NoAnswer
               /\ d.n \notin hand \ {c.n} /\ d.n \notin Session!Range(new.questions)
               /\ \A j \in DOMAIN new.postponed[l] : i < j => d.n < new.postponed[l][j].n
    <3>1. CASE l # k
      <4>1. new.postponed[l] = st.postponed[l]  BY <1>6, <3>1
      <4>2. i \in DOMAIN st.postponed[l] /\ d = st.postponed[l][i]  BY <2>3, <4>1
      <4>3. /\ d.n \in DOMAIN w.made /\ l < d.n
            /\ d.ref = Ref(w, d.n) /\ d.args = w.made[d.n].args
            /\ d.ref.of = "answer" /\ d.ref.n = l
            /\ st.answer[d.n] = Session!NoAnswer
            /\ d.n \notin hand /\ d.n \notin Session!Range(st.questions)
            /\ \A j \in DOMAIN st.postponed[l] : i < j => d.n < st.postponed[l][j].n
        BY <2>1, <4>2
      <4> QED  BY <1>2, <4>1, <4>3
    <3>2. CASE l = k /\ i = n
      <4>1. d = c  BY <1>7, <2>3, <3>2
      <4>2. \A j \in DOMAIN new.postponed[k] : ~(i < j)  BY <1>7, <3>2
      <4> QED  BY <1>1, <1>2, <1>3, <2>2, <3>2, <4>1, <4>2
    <3>3. CASE l = k /\ i # n
      <4>4. \A j \in DOMAIN st.postponed[k] : st.postponed[k][j].n < c.n  BY <1>1
      <4> HIDE DEF k
      <4>1. i \in DOMAIN st.postponed[k] /\ d = st.postponed[k][i]  BY <1>7, <2>3, <3>3
      <4>2. ASSUME NEW j \in DOMAIN new.postponed[k], i < j  PROVE d.n < new.postponed[k][j].n
        <5>1. CASE j = n  BY <1>7, <4>1, <4>4, <5>1
        <5>2. CASE j \in DOMAIN st.postponed[k]
          <6>1. new.postponed[k][j] = st.postponed[k][j]  BY <1>7, <5>2
          <6> QED  BY <1>3, <2>1, <4>1, <4>2, <5>2, <6>1
        <5> QED  BY <1>7, <5>1, <5>2
      <4>3. /\ d.n \in DOMAIN w.made /\ k < d.n
            /\ d.ref = Ref(w, d.n) /\ d.args = w.made[d.n].args
            /\ d.ref.of = "answer" /\ d.ref.n = k
            /\ st.answer[d.n] = Session!NoAnswer
            /\ d.n \notin hand /\ d.n \notin Session!Range(st.questions)
        BY <1>3, <2>1, <4>1
      <4> QED  BY <1>2, <3>3, <4>2, <4>3
    <3> QED  BY <3>1, <3>2, <3>3
  <2>4. \A m \in hand \ {c.n} : /\ m \in DOMAIN w.made
                                /\ m \notin Session!Range(new.questions)
                                /\ new.answer[m] = Session!NoAnswer
    BY <1>2, <2>2
  <2> QED  BY <1>6, <2>3, <2>4 DEF LaterWell
<1>11. AnswersWell(w, new, hand \ {c.n}, open)
  <2> DEFINE Asking(m) == \E i \in DOMAIN st.questions :
                             st.questions[i] = m /\ (i > w.taken \/ i \in open)
             Later(s, m) == \E l \in Session!Numbers : \E i \in DOMAIN s.postponed[l] :
                              s.postponed[l][i].n = m
  <2>1. \A m : Later(new, m) <=> Later(st, m) \/ m = c.n
    <3>1. \A l \in Session!Numbers : \A i \in DOMAIN st.postponed[l] :
             i \in DOMAIN new.postponed[l] /\ new.postponed[l][i] = st.postponed[l][i]
      <4>1. DOMAIN st.postponed[k] \subseteq DOMAIN new.postponed[k]  BY <1>7
      <4> QED  BY <1>6, <1>7, <4>1
    <3>2. \A l \in Session!Numbers : \A i \in DOMAIN new.postponed[l] :
             \/ i \in DOMAIN st.postponed[l] /\ new.postponed[l][i] = st.postponed[l][i]
             \/ new.postponed[l][i].n = c.n
      BY <1>6, <1>7
    <3>3. n \in DOMAIN new.postponed[k] /\ new.postponed[k][n].n = c.n  BY <1>7
    <3> HIDE DEF k
    <3>4. k \in Session!Numbers  BY <1>3 DEF k
    <3> QED  BY <3>1, <3>2, <3>3, <3>4
  <2>2. ASSUME NEW m \in Session!Numbers
        PROVE  st.answer[m] = Session!NoAnswer <=>
                 m \notin DOMAIN w.made \/ m \in hand \/ Asking(m) \/ Later(st, m)
    BY DEF ClientInv, AnswersWell
  <2>3. ASSUME NEW m \in Session!Numbers
        PROVE  new.answer[m] = Session!NoAnswer <=>
                 m \notin DOMAIN w.made \/ m \in hand \ {c.n} \/ Asking(m) \/ Later(new, m)
    <3> HIDE DEF Asking, Later
    <3> QED  BY <1>1, <1>2, <2>1, <2>2
  <2>4. /\ st.answer \in [Session!Numbers -> Seq(SlotSet)]
        /\ \A m \in Session!Numbers : \A i \in DOMAIN st.answer[m] :
             st.answer[m][i][1] \in {"o", "p"} => st.answer[m][i] \in DOMAIN w.known
    BY DEF ClientInv, AnswersWell
  <2> QED  BY <1>2, <2>3, <2>4 DEF AnswersWell
<1> QED  BY <1>8, <1>9, <1>10, <1>11 DEF ClientInv

\* A call that fails has its answer.
LEMMA FailsKeeps ==
    ASSUME NEW w, NEW st, NEW hand, NEW open, IsState(st), KnownWell(w), MadeWell(w),
           ClientInv(w, st, hand, open),
           NEW c, InHand(w, st, hand, c), NEW new, FailsAtOnce(st, c, new)
    PROVE  ClientInv(w, new, hand \ {c.n}, open)
<1>1. /\ c.n \in DOMAIN w.made /\ c.ref = Ref(w, c.n) /\ c.n \in hand
  BY DEF InHand
<1>2. /\ new.questions = st.questions /\ new.toVat = st.toVat /\ new.postponed = st.postponed
      /\ new.answer = [st.answer EXCEPT ![c.n] = Session!Failed]
  BY DEF FailsAtOnce
<1>3. c.n \in Session!Numbers  BY <1>1, RefIs
<1>4. /\ st.answer \in [Session!Numbers -> Seq(SlotSet)]
      /\ \A m \in Session!Numbers : \A i \in DOMAIN st.answer[m] :
           st.answer[m][i][1] \in {"o", "p"} => st.answer[m][i] \in DOMAIN w.known
  BY DEF ClientInv, AnswersWell
<1>5. /\ Session!Failed \in Seq(SlotSet) /\ Session!Failed # Session!NoAnswer
      /\ \A i \in DOMAIN Session!Failed : Session!Failed[i][1] \notin {"o", "p"}
  <2>1. <<Session!Broken, 0>> \in SlotSet /\ <<Session!Broken, 0>>[1] \notin {"o", "p"}
    BY DEF SlotSet, Session!Broken
  <2>2. \A x : \A S : x \in S => <<x>> \in Seq(S) /\ <<x>> # <<>> /\ \A i \in DOMAIN <<x>> : <<x>>[i] = x
    OBVIOUS
  <2> QED  BY <2>1, <2>2 DEF Session!Failed, Session!NoAnswer
<1>6. /\ new.answer \in [Session!Numbers -> Seq(SlotSet)] /\ new.answer[c.n] = Session!Failed
      /\ \A m \in Session!Numbers : m # c.n => new.answer[m] = st.answer[m]
  BY <1>2, <1>3, <1>4, <1>5
<1>7. st.answer[c.n] = Session!NoAnswer /\ c.n \notin Session!Range(st.questions)
  BY <1>1 DEF ClientInv, LaterWell
<1>8. Further(w, st, w, new)  BY <1>6, <1>7, FurtherHere
<1>9. QuestionsWell(w, new)
  <2>1. /\ st.questions \in Seq(DOMAIN w.made)
        /\ \A i, j \in DOMAIN st.questions :
             /\ st.questions[i] = st.questions[j] => i = j
             /\ i < j /\ Ref(w, st.questions[i]) = Ref(w, st.questions[j])
                  => st.questions[i] < st.questions[j]
        /\ \A i \in DOMAIN st.questions :
             Ref(w, st.questions[i]).of = "answer" =>
                st.answer[Ref(w, st.questions[i]).n] # Session!NoAnswer
    BY DEF ClientInv, QuestionsWell
  <2>2. \A i \in DOMAIN st.questions :
           Ref(w, st.questions[i]).of = "answer" =>
              new.answer[Ref(w, st.questions[i]).n] # Session!NoAnswer
    <3>1. \A i \in DOMAIN st.questions : st.questions[i] \in DOMAIN w.made  BY <2>1
    <3>2. \A i \in DOMAIN st.questions :
             Ref(w, st.questions[i]).of = "answer" => Ref(w, st.questions[i]).n \in Session!Numbers
      BY <3>1, RefIs
    <3> QED  BY <1>5, <1>6, <2>1, <3>2
  <2> QED  BY <1>2, <2>1, <2>2 DEF QuestionsWell
<1>10. ToVatWell(w, new)
  <2>1. /\ st.toVat \in Seq(ToVatSet)
        /\ w.taken \in Nat /\ Len(st.questions) = w.taken + Len(st.toVat)
        /\ \A i \in DOMAIN st.toVat :
             /\ st.toVat[i].questionID = w.taken + i
             /\ st.toVat[i].n = st.questions[w.taken + i]
             /\ st.toVat[i].type = "CTP_CALL" => CallWell(w, st, st.toVat[i])
    BY DEF ClientInv, ToVatWell
  <2>2. \A i \in DOMAIN st.toVat : st.toVat[i].n \in DOMAIN w.made
    <3>1. st.questions \in Seq(DOMAIN w.made)  BY DEF ClientInv, QuestionsWell
    <3>2. \A i \in DOMAIN st.toVat : w.taken + i \in DOMAIN st.questions  BY <2>1, <3>1
    <3> QED  BY <2>1, <3>1, <3>2
  <2>3. w.made \in Seq(MadeSet)  BY DEF MadeWell
  <2>4. \A i \in DOMAIN st.toVat :
          st.toVat[i].type = "CTP_CALL" => CallWell(w, new, st.toVat[i])
    BY <1>4, <1>8, <2>1, <2>2, <2>3, CallStays
  <2> QED  BY <1>2, <2>1, <2>4 DEF ToVatWell
<1>11. LaterWell(w, new, hand \ {c.n})
  <2>1. st.postponed \in [Session!Numbers -> Seq(LaterSet)]  BY DEF ClientInv, LaterWell
  <2>2. ASSUME NEW l \in Session!Numbers, NEW i \in DOMAIN st.postponed[l],
               NEW d, d = st.postponed[l][i]
        PROVE  /\ d.n \in DOMAIN w.made /\ l < d.n
               /\ d.ref = Ref(w, d.n) /\ d.args = w.made[d.n].args
               /\ d.ref.of = "answer" /\ d.ref.n = l
               /\ new.answer[d.n] = Session!NoAnswer
               /\ d.n \notin hand \ {c.n} /\ d.n \notin Session!Range(st.questions)
               /\ \A j \in DOMAIN st.postponed[l] : i < j => d.n < st.postponed[l][j].n
    <3>1. /\ d.n \in DOMAIN w.made /\ l < d.n
          /\ d.ref = Ref(w, d.n) /\ d.args = w.made[d.n].args
          /\ d.ref.of = "answer" /\ d.ref.n = l
          /\ st.answer[d.n] = Session!NoAnswer
          /\ d.n \notin hand /\ d.n \notin Session!Range(st.questions)
          /\ \A j \in DOMAIN st.postponed[l] : i < j => d.n < st.postponed[l][j].n
      BY <2>2 DEF ClientInv, LaterWell
    <3>2. d.n \in Session!Numbers /\ d.n # c.n  BY <1>1, <3>1, RefIs
    <3> QED  BY <1>6, <3>1, <3>2
  <2>3. \A m \in hand : /\ m \in DOMAIN w.made /\ m \notin Session!Range(st.questions)
                        /\ st.answer[m] = Session!NoAnswer
    BY DEF ClientInv, LaterWell
  <2>4. \A m \in hand \ {c.n} : m \in Session!Numbers /\ new.answer[m] = Session!NoAnswer
    BY <1>6, <2>3, RefIs
  <2> QED  BY <1>2, <2>1, <2>2, <2>3, <2>4 DEF LaterWell
<1>12. AnswersWell(w, new, hand \ {c.n}, open)
  <2> DEFINE Asking(m) == \E i \in DOMAIN st.questions :
                             st.questions[i] = m /\ (i > w.taken \/ i \in open)
             Later(m) == \E l \in Session!Numbers : \E i \in DOMAIN st.postponed[l] :
                            st.postponed[l][i].n = m
  <2>1. ~Asking(c.n)  BY <1>7 DEF Session!Range
  <2>2. ~Later(c.n)  BY <1>1 DEF ClientInv, LaterWell
  <2>3. ASSUME NEW m \in Session!Numbers
        PROVE  st.answer[m] = Session!NoAnswer <=>
                 m \notin DOMAIN w.made \/ m \in hand \/ Asking(m) \/ Later(m)
    BY DEF ClientInv, AnswersWell
  <2>4. ASSUME NEW m \in Session!Numbers
        PROVE  new.answer[m] = Session!NoAnswer <=>
                 m \notin DOMAIN w.made \/ m \in hand \ {c.n} \/ Asking(m) \/ Later(m)
    <3> HIDE DEF Asking, Later
    <3> QED  BY <1>1, <1>5, <1>6, <2>1, <2>2, <2>3
  <2>5. ASSUME NEW m \in Session!Numbers, NEW i \in DOMAIN new.answer[m],
               new.answer[m][i][1] \in {"o", "p"}
        PROVE  new.answer[m][i] \in DOMAIN w.known
    BY <1>4, <1>5, <1>6, <2>5
  <2> QED  BY <1>2, <1>6, <2>4, <2>5 DEF AnswersWell
<1> QED  BY <1>9, <1>10, <1>11, <1>12 DEF ClientInv

\* What handling a call does to the state of the client.
Moved(st, c, new) ==
    /\ new.resolved = st.resolved
    /\ \A i \in DOMAIN st.questions :
         i \in DOMAIN new.questions /\ new.questions[i] = st.questions[i]
    /\ \A i \in DOMAIN new.questions : i \in DOMAIN st.questions \/ new.questions[i] = c.n
    /\ \A n \in Session!Numbers : n # c.n => new.answer[n] = st.answer[n]
    /\ new.answer[c.n] \in {Session!NoAnswer, Session!Failed}
    /\ (c.ref.of = "answer" => st.answer[c.ref.n] # Session!NoAnswer)
         => new.postponed = st.postponed
    /\ \A k \in Session!Numbers :
         new.postponed[k] # st.postponed[k] => new.answer[k] = Session!NoAnswer

\* A question for a call in hand.
Asks(w, st, hand, n, m, new) ==
    /\ n \in hand /\ n \in DOMAIN w.made
    /\ \A i \in DOMAIN st.questions : Ref(w, st.questions[i]) = Ref(w, n) => st.questions[i] < n
    /\ Ref(w, n).of = "answer" => st.answer[Ref(w, n).n] # Session!NoAnswer
    /\ m \in ToVatSet /\ m.questionID = Len(st.questions) + 1 /\ m.n = n
    /\ m.type = "CTP_CALL" => CallWell(w, st, m)
    /\ new = [questions |-> Append(st.questions, n), toVat |-> Append(st.toVat, m),
              answer |-> st.answer, postponed |-> st.postponed, resolved |-> st.resolved]

\* Its question is the last, and the message its last message.
LEMMA AsksKeeps ==
    ASSUME NEW w, NEW st, NEW hand, NEW open, KnownWell(w), MadeWell(w),
           ClientInv(w, st, hand, open), NEW cn, NEW m, NEW new, Asks(w, st, hand, cn, m, new)
    PROVE  ClientInv(w, new, hand \ {cn}, open)
<1>1. /\ cn \in DOMAIN w.made /\ cn \in hand
      /\ \A i \in DOMAIN st.questions : Ref(w, st.questions[i]) = Ref(w, cn) => st.questions[i] < cn
  BY DEF Asks
<1>2. /\ m \in ToVatSet /\ m.questionID = Len(st.questions) + 1 /\ m.n = cn
      /\ m.type = "CTP_CALL" => CallWell(w, st, m)
      /\ new = [questions |-> Append(st.questions, cn), toVat |-> Append(st.toVat, m),
                answer |-> st.answer, postponed |-> st.postponed, resolved |-> st.resolved]
      /\ Ref(w, cn).of = "answer" => st.answer[Ref(w, cn).n] # Session!NoAnswer
  BY DEF Asks
<1> DEFINE n == Len(st.questions) + 1
<1>3. /\ new.questions = Append(st.questions, cn) /\ new.toVat = Append(st.toVat, m)
      /\ new.postponed = st.postponed /\ new.answer = st.answer
  BY <1>2
<1>4. /\ cn \in Session!Numbers /\ cn \in Nat 
  BY <1>1, RefIs
<1>5. /\ st.questions \in Seq(DOMAIN w.made)
      /\ \A i, j \in DOMAIN st.questions :
           /\ st.questions[i] = st.questions[j] => i = j
           /\ i < j /\ Ref(w, st.questions[i]) = Ref(w, st.questions[j])
                => st.questions[i] < st.questions[j]
      /\ \A i \in DOMAIN st.questions :
           Ref(w, st.questions[i]).of = "answer" =>
              st.answer[Ref(w, st.questions[i]).n] # Session!NoAnswer
  BY DEF ClientInv, QuestionsWell
<1>6. /\ new.questions \in Seq(DOMAIN w.made) /\ Len(new.questions) = n /\ n \in Nat
      /\ new.questions[n] = cn /\ n \in DOMAIN new.questions /\ n \notin DOMAIN st.questions
      /\ \A i \in DOMAIN st.questions :
           i \in DOMAIN new.questions /\ new.questions[i] = st.questions[i] /\ i < n
      /\ \A i \in DOMAIN new.questions : i = n \/ i \in DOMAIN st.questions
  <2>1. PICK s : s = st.questions  OBVIOUS
  <2>2. PICK new_s : new_s = new.questions  OBVIOUS
  <2>3. PICK S : S = DOMAIN w.made  OBVIOUS
  <2>4. s \in Seq(S) /\ new_s = Append(s, cn) /\ cn \in S
    BY <1>1, <1>3, <1>5, <2>1, <2>2, <2>3
  <2>5. n = Len(s) + 1  BY <2>1
  <2> HIDE DEF n
  <2>6. /\ new_s \in Seq(S) /\ Len(new_s) = Len(s) + 1 /\ Len(s) + 1 \in Nat
        /\ new_s[Len(s) + 1] = cn /\ Len(s) + 1 \in DOMAIN new_s /\ Len(s) + 1 \notin DOMAIN s
        /\ \A i \in DOMAIN s : i \in DOMAIN new_s /\ new_s[i] = s[i] /\ i < Len(s) + 1
        /\ \A i \in DOMAIN new_s : i = Len(s) + 1 \/ i \in DOMAIN s
    BY <2>4, AppendIs
  <2> QED  BY <2>1, <2>2, <2>3, <2>5, <2>6
<1>8. m \in ToVatSet /\ m.questionID = n /\ m.n = cn  BY <1>2
<1>9. st.answer[cn] = Session!NoAnswer /\ cn \notin Session!Range(st.questions)
  BY <1>1 DEF ClientInv, LaterWell
<1>11. /\ st.toVat \in Seq(ToVatSet)
       /\ w.taken \in Nat /\ Len(st.questions) = w.taken + Len(st.toVat)
       /\ \A i \in DOMAIN st.toVat :
            /\ st.toVat[i].questionID = w.taken + i
            /\ st.toVat[i].n = st.questions[w.taken + i]
            /\ st.toVat[i].type = "CTP_CALL" => CallWell(w, st, st.toVat[i])
  BY DEF ClientInv, ToVatWell
<1>12. QuestionsWell(w, new)
  <2>1. ASSUME NEW i \in DOMAIN new.questions, NEW j \in DOMAIN new.questions
        PROVE  /\ new.questions[i] = new.questions[j] => i = j
               /\ i < j /\ Ref(w, new.questions[i]) = Ref(w, new.questions[j])
                    => new.questions[i] < new.questions[j]
    <3>1. \A k \in DOMAIN st.questions : st.questions[k] # cn  BY <1>9 DEF Session!Range
    <3>2. CASE i = n /\ j = n  BY <1>6, <3>2
    <3>3. CASE i = n /\ j # n  BY <1>6, <3>1, <3>3
    <3>4. CASE i # n /\ j = n  BY <1>1, <1>6, <3>1, <3>4
    <3>5. CASE i # n /\ j # n  BY <1>5, <1>6, <3>5
    <3> QED  BY <3>2, <3>3, <3>4, <3>5
  <2>2. ASSUME NEW i \in DOMAIN new.questions, Ref(w, new.questions[i]).of = "answer"
        PROVE  new.answer[Ref(w, new.questions[i]).n] # Session!NoAnswer
    <3>1. CASE i = n  BY <1>2, <1>3, <1>6, <2>2, <3>1
    <3>2. CASE i # n  BY <1>3, <1>5, <1>6, <2>2, <3>2, SMTT(30)
    <3> QED  BY <3>1, <3>2
  <2> QED  BY <1>6, <2>1, <2>2 DEF QuestionsWell
<1>13. ToVatWell(w, new)
  <2> DEFINE l == Len(st.toVat) + 1
  <2>1. /\ new.toVat \in Seq(ToVatSet) /\ Len(new.toVat) = l /\ l \in Nat /\ new.toVat[l] = m
        /\ \A i \in DOMAIN st.toVat : i \in DOMAIN new.toVat /\ new.toVat[i] = st.toVat[i]
        /\ \A i \in DOMAIN new.toVat : i = l \/ i \in DOMAIN st.toVat
        /\ DOMAIN st.toVat = 1..Len(st.toVat) /\ Len(st.toVat) \in Nat
    BY <1>3, <1>8, <1>11, AppendIs
  <2>2. n = w.taken + l
    <3>1. \A a, b, d \in Nat : d = a + b => d + 1 = a + (b + 1)  OBVIOUS
    <3>2. Len(st.questions) \in Nat  BY <1>5
    <3> QED  BY <1>11, <2>1, <3>1, <3>2
  <2>3. \A x : CallWell(w, new, x) = CallWell(w, st, x)
    BY <1>3 DEF CallWell, RefKnown, RefSlot
  <2>4. ASSUME NEW i \in DOMAIN new.toVat
        PROVE  /\ new.toVat[i].questionID = w.taken + i
               /\ new.toVat[i].n = new.questions[w.taken + i]
               /\ new.toVat[i].type = "CTP_CALL" => CallWell(w, new, new.toVat[i])
    <3>1. CASE i = l
      BY <1>2, <1>6, <1>8, <2>1, <2>2, <2>3, <3>1
    <3>2. CASE i \in DOMAIN st.toVat
      <4>1. w.taken + i \in DOMAIN st.questions  BY <1>5, <1>11, <2>1, <3>2
      <4>2. new.questions[w.taken + i] = st.questions[w.taken + i] /\ new.toVat[i] = st.toVat[i]
        BY <1>6, <2>1, <3>2, <4>1
      <4> QED  BY <1>11, <2>3, <3>2, <4>2
    <3> QED  BY <2>1, <3>1, <3>2
  <2>5. Len(new.questions) = w.taken + Len(new.toVat)  BY <1>6, <2>1, <2>2
  <2> QED  BY <1>11, <2>1, <2>4, <2>5 DEF ToVatWell
<1>14. LaterWell(w, new, hand \ {cn})
  <2>1. \A x : x \in Session!Range(new.questions) <=> x \in Session!Range(st.questions) \/ x = cn
    <3>1. \A x : x \in Session!Range(new.questions) => x \in Session!Range(st.questions) \/ x = cn
      BY <1>6 DEF Session!Range
    <3>2. \A x : x \in Session!Range(st.questions) => x \in Session!Range(new.questions)
      BY <1>6 DEF Session!Range
    <3>3. cn \in Session!Range(new.questions)  BY <1>6 DEF Session!Range
    <3> QED  BY <3>1, <3>2, <3>3
  <2>2. \A k \in Session!Numbers : \A i \in DOMAIN st.postponed[k] : st.postponed[k][i].n # cn
    BY <1>1 DEF ClientInv, LaterWell
  <2>3. LaterWell(w, st, hand)  BY DEF ClientInv
  <2> QED  BY <1>3, <2>1, <2>2, <2>3 DEF LaterWell
<1>15. AnswersWell(w, new, hand \ {cn}, open)
  <2> DEFINE Asking(s, x) == \E i \in DOMAIN s.questions :
                                s.questions[i] = x /\ (i > w.taken \/ i \in open)
             Later(x) == \E l \in Session!Numbers : \E i \in DOMAIN st.postponed[l] :
                            st.postponed[l][i].n = x
  <2>1. n > w.taken  BY <1>11
  <2>2. \A x : Asking(new, x) <=> Asking(st, x) \/ x = cn
    <3>1. \A x : Asking(st, x) => Asking(new, x)  BY <1>6
    <3>2. Asking(new, cn)  BY <1>6, <2>1
    <3>3. \A x : Asking(new, x) => Asking(st, x) \/ x = cn  BY <1>6
    <3> QED  BY <3>1, <3>2, <3>3
  <2>3. ASSUME NEW x \in Session!Numbers
        PROVE  st.answer[x] = Session!NoAnswer <=>
                 x \notin DOMAIN w.made \/ x \in hand \/ Asking(st, x) \/ Later(x)
    BY DEF ClientInv, AnswersWell
  <2>4. ASSUME NEW x \in Session!Numbers
        PROVE  new.answer[x] = Session!NoAnswer <=>
                 x \notin DOMAIN w.made \/ x \in hand \ {cn} \/ Asking(new, x) \/ Later(x)
    <3> HIDE DEF Asking, Later
    <3> QED  BY <1>1, <1>3, <1>9, <2>2, <2>3
  <2>5. /\ st.answer \in [Session!Numbers -> Seq(SlotSet)]
        /\ \A x \in Session!Numbers : \A i \in DOMAIN st.answer[x] :
             st.answer[x][i][1] \in {"o", "p"} => st.answer[x][i] \in DOMAIN w.known
    BY DEF ClientInv, AnswersWell
  <2> QED  BY <1>3, <2>4, <2>5 DEF AnswersWell
<1> QED  BY <1>12, <1>13, <1>14, <1>15 DEF ClientInv

\* A call that is sent has a question.
LEMMA SendsKeeps ==
    ASSUME NEW w, NEW st, NEW hand, NEW open, IsState(st), KnownWell(w), MadeWell(w),
           ClientInv(w, st, hand, open),
           NEW c, InHand(w, st, hand, c), NEW new, Sends(w, st, c, new)
    PROVE  /\ ClientInv(w, new, hand \ {c.n}, open)
           /\ Moved(st, c, new)
<1>1. /\ c.n \in DOMAIN w.made /\ c.ref = Ref(w, c.n) /\ c.n \in hand
      /\ c.args = w.made[c.n].args
      /\ \A i \in DOMAIN st.questions : Ref(w, st.questions[i]) = c.ref => st.questions[i] < c.n
  BY DEF InHand
<1>2. PICK t \in SlotSet :
        /\ CallWell(w, st, Sent(st, c, t))
        /\ new = [questions |-> Append(st.questions, c.n), toVat |-> Append(st.toVat, Sent(st, c, t)),
                  answer |-> st.answer, postponed |-> st.postponed, resolved |-> st.resolved]
  BY DEF Sends
<1>3. PICK m : m = Sent(st, c, t)  OBVIOUS
<1>4. c.n \in Nat /\ c.n \in Session!Numbers /\ c.args \in Seq(SlotSet)  BY <1>1, RefIs
<1>5. st.questions \in Seq(DOMAIN w.made) /\ Len(st.questions) \in Nat
  BY DEF ClientInv, QuestionsWell
<1>6. /\ m \in ToVatSet /\ m.questionID = Len(st.questions) + 1 /\ m.n = c.n
      /\ m.type = "CTP_CALL" => CallWell(w, st, m)
  BY <1>2, <1>3, <1>4, <1>5 DEF Sent, ToVatSet, CallSet
<1>7. c.ref.of = "answer" => st.answer[c.ref.n] # Session!NoAnswer  BY DEF Sends
<1>8. Asks(w, st, hand, c.n, m, new)  BY <1>1, <1>2, <1>3, <1>6, <1>7 DEF Asks
<1>9. ClientInv(w, new, hand \ {c.n}, open)  BY <1>8, AsksKeeps
<1>10. /\ new.questions = Append(st.questions, c.n) /\ new.resolved = st.resolved
       /\ new.postponed = st.postponed /\ new.answer = st.answer
  BY <1>2
<1>11. /\ \A i \in DOMAIN st.questions :
            i \in DOMAIN new.questions /\ new.questions[i] = st.questions[i]
       /\ \A i \in DOMAIN new.questions : i \in DOMAIN st.questions \/ new.questions[i] = c.n
  <2>1. PICK S : S = DOMAIN w.made  OBVIOUS
  <2>2. st.questions \in Seq(S) /\ c.n \in S  BY <1>1, <1>5, <2>1
  <2> QED  BY <1>10, <2>2
<1>12. st.answer[c.n] = Session!NoAnswer  BY <1>1 DEF ClientInv, LaterWell
<1>13. Moved(st, c, new)  BY <1>10, <1>11, <1>12 DEF Moved
<1> QED  BY <1>9, <1>13

\* Handling a call in hand keeps the invariant of the client.
LEMMA HandleKeeps ==
    ASSUME NEW w, NEW st, NEW hand, NEW open, IsState(st), KnownWell(w), MadeWell(w),
           ResolvedWell(w, st.resolved), ClientInv(w, st, hand, open),
           NEW c, InHand(w, st, hand, c), NEW new, new = Session!Handle(st, c)
    PROVE  /\ IsState(new) /\ ClientInv(w, new, hand \ {c.n}, open)
           /\ Moved(st, c, new)
<1>1. c.n \in Session!Numbers /\ c.ref.of \in {"slot", "answer"}
      /\ (c.ref.of = "answer" => c.ref.n \in Session!Numbers /\ c.ref.n < c.n /\ c.n \in Nat)
  BY RefIs DEF InHand
<1>2. AnswersWell(w, st, hand, open) /\ st.answer \in [Session!Numbers -> Seq(SlotSet)]
      /\ st.postponed \in [Session!Numbers -> Seq(LaterSet)]
  BY DEF ClientInv, AnswersWell, LaterWell
<1>3. st.answer[c.n] = Session!NoAnswer  BY DEF ClientInv, LaterWell, InHand
<1>4. Postpones(st, c, new) \/ FailsAtOnce(st, c, new) \/ Sends(w, st, c, new)
  BY <1>2, HandleIs
<1>5. CASE Postpones(st, c, new)
  <2>1. ClientInv(w, new, hand \ {c.n}, open)  BY <1>5, PostponesKeeps
  <2>2. /\ c.ref.of = "answer" /\ st.answer[c.ref.n] = Session!NoAnswer
        /\ new = [questions |-> st.questions, toVat |-> st.toVat, answer |-> st.answer,
                  postponed |-> [st.postponed EXCEPT ![c.ref.n] = Append(@, c)],
                  resolved |-> st.resolved]
    BY <1>5 DEF Postpones
  <2>3. IsState(new)  BY <2>2 DEF IsState
  <2>4. \A k \in Session!Numbers : new.postponed[k] # st.postponed[k] => k = c.ref.n
    BY <1>1, <1>2, <2>2
  <2>5. new.questions = st.questions /\ new.answer = st.answer /\ new.resolved = st.resolved
    BY <2>2
  <2>6. Moved(st, c, new)  BY <1>3, <2>2, <2>4, <2>5 DEF Moved
  <2> QED  BY <2>1, <2>3, <2>6
<1>6. CASE FailsAtOnce(st, c, new)
  <2>1. ClientInv(w, new, hand \ {c.n}, open)  BY <1>6, FailsKeeps
  <2>2. new = [questions |-> st.questions, toVat |-> st.toVat,
               answer |-> [st.answer EXCEPT ![c.n] = Session!Failed],
               postponed |-> st.postponed, resolved |-> st.resolved]
    BY <1>6 DEF FailsAtOnce
  <2>3. IsState(new)  BY <2>2 DEF IsState
  <2>4. /\ new.questions = st.questions /\ new.resolved = st.resolved
        /\ new.postponed = st.postponed
        /\ new.answer = [st.answer EXCEPT ![c.n] = Session!Failed]
    BY <2>2
  <2>5. Moved(st, c, new)  BY <1>1, <1>2, <2>4 DEF Moved
  <2> QED  BY <2>1, <2>3, <2>5
<1>7. CASE Sends(w, st, c, new)
  <2>1. ClientInv(w, new, hand \ {c.n}, open) /\ Moved(st, c, new)
    BY <1>7, SendsKeeps
  <2>2. IsState(new)  BY <1>7 DEF Sends, IsState
  <2> QED  BY <2>1, <2>2
<1> QED  BY <1>4, <1>5, <1>6, <1>7

\* The calls that wait over one another: closed, and no more than that.
LEMMA BehindIs ==
    ASSUME NEW later, NEW ns \in SUBSET Session!Numbers,
           \A k \in Session!Numbers : \A i \in DOMAIN later[k] : later[k][i].n \in Session!Numbers,
           NEW B, B = Session!Behind(later, ns)
    PROVE  /\ B \subseteq Session!Numbers /\ ns \subseteq B
           /\ \A k \in B : \A i \in DOMAIN later[k] : later[k][i].n \in B
           /\ \A S \in SUBSET Session!Numbers :
                ns \subseteq S /\ (\A k \in S : \A i \in DOMAIN later[k] : later[k][i].n \in S)
                  => B \subseteq S
           /\ \A m \in B : m \in ns \/ \E k \in B : \E i \in DOMAIN later[k] : later[k][i].n = m
<1> DEFINE Closed(S) == ns \subseteq S /\ \A k \in S : \A i \in DOMAIN later[k] : later[k][i].n \in S
<1>1. \A S : (ns \subseteq S /\ (\A k \in S : \A c \in Session!Range(later[k]) : c.n \in S)) <=> Closed(S)
  BY DEF Session!Range
<1>2. B = {m \in Session!Numbers : \A S \in SUBSET Session!Numbers : Closed(S) => m \in S}
  BY <1>1 DEF Session!Behind
<1>3. B \subseteq Session!Numbers /\ ns \subseteq B  BY <1>2
<1>4. ASSUME NEW k \in B, NEW i \in DOMAIN later[k]  PROVE later[k][i].n \in B
  <2>1. later[k][i].n \in Session!Numbers  BY <1>3, <1>4
  <2>2. \A S \in SUBSET Session!Numbers : Closed(S) => k \in S  BY <1>2
  <2>3. \A S \in SUBSET Session!Numbers : Closed(S) => later[k][i].n \in S  BY <2>2
  <2> HIDE DEF Closed
  <2> QED  BY <1>2, <2>1, <2>3
<1>5. \A S \in SUBSET Session!Numbers : Closed(S) => B \subseteq S
  <2> HIDE DEF Closed
  <2> QED  BY <1>2
<1> DEFINE T == {m \in B : m \in ns \/ \E k \in B : \E i \in DOMAIN later[k] : later[k][i].n = m}
<1>6. T \in SUBSET Session!Numbers  BY <1>3
<1>7. Closed(T)
  <2>1. ns \subseteq T  BY <1>3
  <2>2. \A k \in T : k \in B  OBVIOUS
  <2>3. \A k \in B : \A i \in DOMAIN later[k] : later[k][i].n \in T  BY <1>4
  <2> HIDE DEF T
  <2> QED  BY <2>1, <2>2, <2>3
<1>8. B \subseteq T
  <2> HIDE DEF T, Closed
  <2> QED  BY <1>5, <1>6, <1>7
<1>9. \A m \in B : m \in T  BY <1>8
<1> QED  BY <1>3, <1>4, <1>5, <1>9

\* A call of the client whose question has been answered.
Answerable(w, st, open, id, n, vals) ==
    /\ IsState(st) /\ KnownWell(w) /\ MadeWell(w) /\ ResolvedWell(w, st.resolved)
    /\ ClientInv(w, st, {}, open) /\ NoneLeft(st)
    /\ id \in open /\ id \in 1..w.taken /\ n = st.questions[id]
    /\ vals \in Seq(SlotSet) /\ vals # <<>>
    /\ \A k \in DOMAIN vals : vals[k][1] \in {"o", "p"} => vals[k] \in DOMAIN w.known

\* It has its answer, and the calls that wait for it are in hand.
Answered(st, n, vals) ==
    [questions |-> st.questions, toVat |-> st.toVat,
     answer |-> [st.answer EXCEPT ![n] = vals],
     postponed |-> [st.postponed EXCEPT ![n] = <<>>], resolved |-> st.resolved]

\* The calls that are still to be passed on after i of them.
InHands(calls, i) == {calls[j].n : j \in (i + 1)..Len(calls)}

\* The call of an open question has no answer, and no other question.
LEMMA AnswerableIs ==
    ASSUME NEW w, NEW st, NEW open, NEW id, NEW n, NEW vals, Answerable(w, st, open, id, n, vals)
    PROVE  /\ n \in DOMAIN w.made /\ n \in Session!Numbers /\ id \in DOMAIN st.questions
           /\ st.questions[id] = n /\ n \in Session!Range(st.questions)
           /\ st.answer[n] = Session!NoAnswer /\ vals # Session!NoAnswer
           /\ \A i \in DOMAIN st.questions : st.questions[i] = n => i = id
           /\ w.taken \in Nat /\ Len(st.questions) \in Nat /\ w.taken <= Len(st.questions)
           /\ st.answer \in [Session!Numbers -> Seq(SlotSet)]
           /\ st.postponed \in [Session!Numbers -> Seq(LaterSet)]
           /\ st.postponed[n] \in Seq(LaterSet)
<1>1. /\ st.questions \in Seq(DOMAIN w.made) /\ st.toVat \in Seq(ToVatSet)
      /\ w.taken \in Nat /\ Len(st.questions) = w.taken + Len(st.toVat)
      /\ id \in 1..w.taken /\ n = st.questions[id] /\ vals # <<>> /\ id \in open
      /\ MadeWell(w)
  BY DEF Answerable, ClientInv, QuestionsWell, ToVatWell
<1>2. id \in DOMAIN st.questions /\ w.taken <= Len(st.questions) /\ Len(st.questions) \in Nat
  BY <1>1
<1>3. n \in DOMAIN w.made  BY <1>1, <1>2
<1>4. n \in Session!Numbers  BY <1>1, <1>3, RefIs
<1>5. \A i \in DOMAIN st.questions : st.questions[i] = n => i = id
  BY <1>1, <1>2 DEF Answerable, ClientInv, QuestionsWell
<1>6. st.answer[n] = Session!NoAnswer
  BY <1>1, <1>2, <1>4 DEF Answerable, ClientInv, AnswersWell
<1>7. /\ st.answer \in [Session!Numbers -> Seq(SlotSet)]
      /\ st.postponed \in [Session!Numbers -> Seq(LaterSet)]
  BY DEF Answerable, ClientInv, AnswersWell, LaterWell
<1> QED  BY <1>1, <1>2, <1>3, <1>4, <1>5, <1>6, <1>7 DEF Session!Range, Session!NoAnswer

\* A call that waits for the answer of k.
Waiter(w, st, hand, k, d) ==
    /\ d.n \in DOMAIN w.made /\ d.n \in Session!Numbers /\ d.n \in Nat
    /\ k < d.n /\ d.n \notin Session!Range(st.questions)
    /\ d.ref = Ref(w, d.n) /\ d.args = w.made[d.n].args
    /\ d.ref.of = "answer" /\ d.ref.n = k
    /\ st.answer[d.n] = Session!NoAnswer /\ d.n \notin hand
    /\ d = [n |-> d.n, ref |-> d.ref, args |-> d.args]

\* So is each that waits.
LEMMA WaiterIs ==
    ASSUME NEW w, NEW st, NEW hand, MadeWell(w), LaterWell(w, st, hand),
           NEW k \in Session!Numbers, NEW i \in DOMAIN st.postponed[k]
    PROVE  /\ Waiter(w, st, hand, k, st.postponed[k][i])
           /\ \A j \in DOMAIN st.postponed[k] :
                i < j => st.postponed[k][i].n < st.postponed[k][j].n
<1> DEFINE d == st.postponed[k][i]
<1>1. st.postponed[k] \in Seq(LaterSet)  BY DEF LaterWell
<1>2. d \in LaterSet  BY <1>1
<1>3. /\ d.n \in DOMAIN w.made
      /\ k < d.n /\ d.n \notin Session!Range(st.questions)
      /\ d.ref = Ref(w, d.n) /\ d.args = w.made[d.n].args
      /\ d.ref.of = "answer" /\ d.ref.n = k
      /\ st.answer[d.n] = Session!NoAnswer /\ d.n \notin hand
      /\ \A j \in DOMAIN st.postponed[k] : i < j => d.n < st.postponed[k][j].n
  BY DEF LaterWell
<1> HIDE DEF d
<1>4. d.n \in Session!Numbers /\ d.n \in Nat  BY <1>3, RefIs
<1>5. d = [n |-> d.n, ref |-> d.ref, args |-> d.args]  BY <1>2 DEF LaterSet
<1>6. Waiter(w, st, hand, k, d)  BY <1>3, <1>4, <1>5 DEF Waiter
<1> QED  BY <1>3, <1>6 DEF d

\* One waits for one answer only, and once.
LEMMA WaitersApart ==
    ASSUME NEW w, NEW st, NEW hand, MadeWell(w), LaterWell(w, st, hand),
           NEW k \in Session!Numbers
    PROVE  \A i, j \in DOMAIN st.postponed[k] : st.postponed[k][i].n = st.postponed[k][j].n => i = j
<1>1. st.postponed[k] \in Seq(LaterSet)  BY DEF LaterWell
<1>2. ASSUME NEW i \in DOMAIN st.postponed[k], NEW j \in DOMAIN st.postponed[k],
             st.postponed[k][i].n = st.postponed[k][j].n
      PROVE  i = j
  <2>1. i \in Nat /\ j \in Nat  BY <1>1
  <2>2. st.postponed[k][i].n \in Nat  BY WaiterIs DEF Waiter
  <2>3. ~(i < j)  BY <1>2, <2>2, WaiterIs
  <2>4. ~(j < i)  BY <1>2, <2>2, WaiterIs
  <2> QED  BY <2>1, <2>3, <2>4
<1> QED  BY <1>2

\* A call that has its answer hands on those that wait for it.
Handed(w, st, open, id, n, vals, all, calls) ==
    /\ IsState(all) /\ Further(w, st, w, all)
    /\ ClientInv(w, all, InHands(calls, 0), open \ {id})
    /\ all.answer[n] = vals /\ all.postponed[n] = <<>>
    /\ \A k \in Session!Numbers :
         k # n => all.answer[k] = st.answer[k] /\ all.postponed[k] = st.postponed[k]
    /\ all.questions = st.questions /\ all.resolved = st.resolved

\* The answer is there, and those that waited for it wait no more.
LEMMA AnsweredKeeps ==
    ASSUME NEW w, NEW st, NEW open, NEW id, NEW n, NEW vals, Answerable(w, st, open, id, n, vals),
           NEW all, all = Answered(st, n, vals), NEW calls, calls = st.postponed[n]
    PROVE  Handed(w, st, open, id, n, vals, all, calls)
<1> DEFINE hand == InHands(calls, 0)
<1>1. /\ n \in DOMAIN w.made /\ n \in Session!Numbers /\ id \in DOMAIN st.questions
      /\ st.questions[id] = n /\ n \in Session!Range(st.questions)
      /\ st.answer[n] = Session!NoAnswer /\ vals # Session!NoAnswer
      /\ \A i \in DOMAIN st.questions : st.questions[i] = n => i = id
      /\ w.taken \in Nat
      /\ st.answer \in [Session!Numbers -> Seq(SlotSet)]
      /\ st.postponed \in [Session!Numbers -> Seq(LaterSet)]
  BY AnswerableIs
<1>2. /\ KnownWell(w) /\ MadeWell(w) /\ ClientInv(w, st, {}, open) /\ id \in 1..w.taken
      /\ vals \in Seq(SlotSet)
      /\ \A k \in DOMAIN vals : vals[k][1] \in {"o", "p"} => vals[k] \in DOMAIN w.known
  BY DEF Answerable
<1>3. /\ all.questions = st.questions /\ all.toVat = st.toVat /\ all.resolved = st.resolved
      /\ all.answer = [st.answer EXCEPT ![n] = vals]
      /\ all.postponed = [st.postponed EXCEPT ![n] = <<>>] /\ IsState(all)
  BY DEF Answered, IsState
<1>4. /\ all.answer \in [Session!Numbers -> Seq(SlotSet)] /\ all.answer[n] = vals
      /\ all.postponed \in [Session!Numbers -> Seq(LaterSet)] /\ all.postponed[n] = <<>>
      /\ \A k \in Session!Numbers :
           k # n => all.answer[k] = st.answer[k] /\ all.postponed[k] = st.postponed[k]
  BY <1>1, <1>2, <1>3
<1>5. \A k \in Session!Numbers : st.answer[k] # Session!NoAnswer => all.answer[k] = st.answer[k]
  BY <1>1, <1>4
<1>6. Further(w, st, w, all)  BY <1>5, FurtherHere
<1>7. \A m : m \in hand <=> \E j \in DOMAIN calls : calls[j].n = m
  <2>1. calls \in Seq(LaterSet)  BY <1>1
  <2>2. DOMAIN calls = (0 + 1)..Len(calls)  BY <2>1
  <2> QED  BY <2>2 DEF InHands
<1> HIDE DEF hand
<1>8. LaterWell(w, st, {})  BY <1>2 DEF ClientInv
<1>14. \A j \in DOMAIN calls : Waiter(w, st, {}, n, calls[j])
  BY <1>1, <1>2, <1>8, WaiterIs
<1>9. QuestionsWell(w, all)
  <2>1. \A k \in Session!Numbers : st.answer[k] # Session!NoAnswer => all.answer[k] # Session!NoAnswer
    BY <1>5
  <2>2. \A i \in DOMAIN st.questions :
          Ref(w, st.questions[i]).of = "answer" => Ref(w, st.questions[i]).n \in Session!Numbers
    <3>1. \A i \in DOMAIN st.questions : st.questions[i] \in DOMAIN w.made
      BY <1>2 DEF ClientInv, QuestionsWell
    <3> QED  BY <1>2, <3>1, RefIs
  <2>3. QuestionsWell(w, st)  BY <1>2 DEF ClientInv
  <2> QED  BY <1>3, <2>1, <2>2, <2>3 DEF QuestionsWell
<1>10. ToVatWell(w, all)
  <2>1. /\ st.toVat \in Seq(ToVatSet)
        /\ w.taken \in Nat /\ Len(st.questions) = w.taken + Len(st.toVat)
        /\ \A i \in DOMAIN st.toVat :
             /\ st.toVat[i].questionID = w.taken + i
             /\ st.toVat[i].n = st.questions[w.taken + i]
             /\ st.toVat[i].type = "CTP_CALL" => CallWell(w, st, st.toVat[i])
    BY <1>2 DEF ClientInv, ToVatWell
  <2>2. \A i \in DOMAIN st.toVat : st.toVat[i].n \in DOMAIN w.made
    <3>1. st.questions \in Seq(DOMAIN w.made)  BY <1>2 DEF ClientInv, QuestionsWell
    <3>2. \A i \in DOMAIN st.toVat : w.taken + i \in DOMAIN st.questions  BY <2>1, <3>1
    <3> QED  BY <2>1, <3>1, <3>2
  <2>3. w.made \in Seq(MadeSet)  BY <1>2 DEF MadeWell
  <2>4. \A i \in DOMAIN st.toVat :
          st.toVat[i].type = "CTP_CALL" => CallWell(w, all, st.toVat[i])
    BY <1>1, <1>2, <1>6, <2>1, <2>2, <2>3, CallStays
  <2> QED  BY <1>3, <2>1, <2>4 DEF ToVatWell
<1>11. LaterWell(w, all, hand)
  <2>1. ASSUME NEW l \in Session!Numbers, NEW i \in DOMAIN all.postponed[l],
               NEW d, d = all.postponed[l][i]
        PROVE  /\ d.n \in DOMAIN w.made /\ l < d.n
               /\ d.ref = Ref(w, d.n) /\ d.args = w.made[d.n].args
               /\ d.ref.of = "answer" /\ d.ref.n = l
               /\ all.answer[d.n] = Session!NoAnswer
               /\ d.n \notin hand /\ d.n \notin Session!Range(all.questions)
               /\ \A j \in DOMAIN all.postponed[l] : i < j => d.n < all.postponed[l][j].n
    <3>1. l # n /\ all.postponed[l] = st.postponed[l]  BY <1>4, <2>1
    <3>2. /\ d.n \in DOMAIN w.made /\ l < d.n /\ d.n \in Session!Numbers
          /\ d.ref = Ref(w, d.n) /\ d.args = w.made[d.n].args
          /\ d.ref.of = "answer" /\ d.ref.n = l
          /\ st.answer[d.n] = Session!NoAnswer /\ d.n \notin Session!Range(st.questions)
          /\ \A j \in DOMAIN st.postponed[l] : i < j => d.n < st.postponed[l][j].n
      <4>1. i \in DOMAIN st.postponed[l] /\ d = st.postponed[l][i]  BY <2>1, <3>1
      <4>2. /\ Waiter(w, st, {}, l, d)
            /\ \A j \in DOMAIN st.postponed[l] : i < j => d.n < st.postponed[l][j].n
        BY <1>2, <1>8, <4>1, WaiterIs
      <4> QED  BY <4>2 DEF Waiter
    <3>3. d.n # n  BY <1>1, <3>2
    <3>4. d.n \notin hand
      <4>1. \A j \in DOMAIN calls : calls[j].ref = Ref(w, calls[j].n) /\ calls[j].ref.n = n
        BY <1>14 DEF Waiter
      <4> QED  BY <1>7, <3>1, <3>2, <4>1
    <3> QED  BY <1>3, <1>4, <3>1, <3>2, <3>3, <3>4
  <2>2. ASSUME NEW m \in hand
        PROVE  /\ m \in DOMAIN w.made /\ m \notin Session!Range(all.questions)
               /\ all.answer[m] = Session!NoAnswer
    <3>1. PICK j \in DOMAIN calls : calls[j].n = m  BY <1>7
    <3>2. /\ m \in DOMAIN w.made /\ m \in Session!Numbers /\ m \notin Session!Range(st.questions)
          /\ st.answer[m] = Session!NoAnswer
      BY <1>14, <3>1 DEF Waiter
    <3>3. m # n  BY <1>1, <3>2
    <3> QED  BY <1>3, <1>4, <3>2, <3>3
  <2>3. ASSUME NEW l \in Session!Numbers, NEW i \in DOMAIN all.postponed[l]
        PROVE  LET d == all.postponed[l][i]
               IN /\ d.n \in DOMAIN w.made /\ l < d.n
                  /\ d.ref = Ref(w, d.n) /\ d.args = w.made[d.n].args
                  /\ d.ref.of = "answer" /\ d.ref.n = l
                  /\ all.answer[d.n] = Session!NoAnswer
                  /\ d.n \notin hand /\ d.n \notin Session!Range(all.questions)
                  /\ \A j \in DOMAIN all.postponed[l] : i < j => d.n < all.postponed[l][j].n
    BY <2>1, <2>3
  <2> QED  BY <1>4, <2>2, <2>3 DEF LaterWell
<1>12. AnswersWell(w, all, hand, open \ {id})
  <2> DEFINE Asking(m, o) == \E i \in DOMAIN st.questions :
                                st.questions[i] = m /\ (i > w.taken \/ i \in o)
             Later(s, m) == \E l \in Session!Numbers : \E i \in DOMAIN s.postponed[l] :
                               s.postponed[l][i].n = m
  <2>1. ASSUME NEW m \in Session!Numbers
        PROVE  st.answer[m] = Session!NoAnswer <=>
                 m \notin DOMAIN w.made \/ Asking(m, open) \/ Later(st, m)
    <3>1. AnswersWell(w, st, {}, open)  BY <1>2 DEF ClientInv
    <3> QED  BY <3>1 DEF AnswersWell
  <2>2. ASSUME NEW m \in Session!Numbers, m # n
        PROVE  Asking(m, open) <=> Asking(m, open \ {id})
    BY <1>1, <2>2
  <2>3. ~Asking(n, open \ {id})
    <3>1. \A i \in DOMAIN st.questions : st.questions[i] = n => i = id /\ ~(i > w.taken)
      BY <1>1, <1>2
    <3> QED  BY <3>1
  <2>4. n \notin hand
    <3> SUFFICES ASSUME n \in hand  PROVE FALSE  OBVIOUS
    <3>1. PICK j \in DOMAIN calls : calls[j].n = n  BY <1>7
    <3>2. Waiter(w, st, {}, n, calls[j])  BY <1>14
    <3> QED  BY <1>1, <3>1, <3>2 DEF Waiter
  <2>5. ~Later(all, n)
    <3>1. ASSUME NEW l \in Session!Numbers, NEW i \in DOMAIN all.postponed[l]
          PROVE  all.postponed[l][i].n # n
      <4>1. l # n /\ all.postponed[l] = st.postponed[l]  BY <1>4, <3>1
      <4>2. Waiter(w, st, {}, l, st.postponed[l][i])  BY <1>2, <1>8, <3>1, <4>1, WaiterIs
      <4> QED  BY <1>1, <4>1, <4>2 DEF Waiter
    <3> QED  BY <3>1
  <2>6. ASSUME NEW m \in Session!Numbers
        PROVE  Later(st, m) <=> Later(all, m) \/ m \in hand
    <3>1. ASSUME Later(all, m)  PROVE Later(st, m)
      <4>1. PICK l \in Session!Numbers : \E i \in DOMAIN all.postponed[l] : all.postponed[l][i].n = m
        BY <3>1
      <4>2. l # n /\ all.postponed[l] = st.postponed[l]  BY <1>4, <4>1
      <4> QED  BY <4>1, <4>2
    <3>2. ASSUME m \in hand  PROVE Later(st, m)  BY <1>1, <1>7, <3>2
    <3>3. ASSUME Later(st, m)  PROVE Later(all, m) \/ m \in hand
      <4>1. PICK l \in Session!Numbers : \E i \in DOMAIN st.postponed[l] : st.postponed[l][i].n = m
        BY <3>3
      <4>2. CASE l = n  BY <1>7, <4>1, <4>2
      <4>3. CASE l # n  BY <1>4, <4>1, <4>3
      <4> QED  BY <4>2, <4>3
    <3> QED  BY <3>1, <3>2, <3>3
  <2>7. ASSUME NEW m \in Session!Numbers
        PROVE  all.answer[m] = Session!NoAnswer <=>
                 m \notin DOMAIN w.made \/ m \in hand \/ Asking(m, open \ {id}) \/ Later(all, m)
    <3> HIDE DEF Asking, Later
    <3>1. CASE m = n  BY <1>1, <1>4, <2>3, <2>4, <2>5, <3>1
    <3>2. CASE m # n  BY <1>4, <2>1, <2>2, <2>6, <3>2
    <3> QED  BY <3>1, <3>2
  <2>8. \A m \in Session!Numbers : \A k \in DOMAIN all.answer[m] :
           all.answer[m][k][1] \in {"o", "p"} => all.answer[m][k] \in DOMAIN w.known
    <3>1. AnswersWell(w, st, {}, open)  BY <1>2 DEF ClientInv
    <3> QED  BY <1>2, <1>4, <3>1 DEF AnswersWell
  <2> QED  BY <1>3, <1>4, <2>7, <2>8 DEF AnswersWell
<1>13. ClientInv(w, all, hand, open \ {id})
  BY <1>9, <1>10, <1>11, <1>12 DEF ClientInv
<1> QED  BY <1>3, <1>4, <1>6, <1>13 DEF hand, Handed

\* While the calls that waited are passed on in their order.
Passing(w, st, n, vals, open, calls, new, i) ==
    /\ IsState(new) /\ ClientInv(w, new, InHands(calls, i), open)
    /\ new.resolved = st.resolved /\ new.answer[n] = vals /\ new.postponed[n] = <<>>
    /\ \A k \in Session!Numbers : k # n => new.postponed[k] = st.postponed[k]
    /\ \A q \in DOMAIN st.questions : q \in DOMAIN new.questions /\ new.questions[q] = st.questions[q]
    /\ \A q \in DOMAIN new.questions :
         q \in DOMAIN st.questions \/ \E j \in 1..i : new.questions[q] = calls[j].n
    /\ \A k \in Session!Numbers :
         \/ k = n
         \/ new.answer[k] = st.answer[k]
         \/ new.answer[k] = Session!Failed /\ \E j \in 1..i : calls[j].n = k

\* The next of them is passed on, or fails.
LEMMA PassesOn ==
    ASSUME NEW w, NEW st, NEW open, NEW id, NEW n, NEW vals, Answerable(w, st, open, id, n, vals),
           NEW calls, calls = st.postponed[n],
           NEW old, NEW i \in DOMAIN calls, Passing(w, st, n, vals, open \ {id}, calls, old, i - 1),
           NEW new, new = Session!Handle(old, calls[i])
    PROVE  Passing(w, st, n, vals, open \ {id}, calls, new, i)
<1> DEFINE hand == InHands(calls, i - 1)
           c == calls[i]
<1>1. /\ n \in Session!Numbers
      /\ st.answer[n] = Session!NoAnswer /\ vals # Session!NoAnswer
      /\ st.postponed[n] \in Seq(LaterSet)
  BY AnswerableIs
<1>2. /\ KnownWell(w) /\ MadeWell(w) /\ ClientInv(w, st, {}, open) /\ ResolvedWell(w, st.resolved)
  BY DEF Answerable
<1>3. /\ IsState(old) /\ ClientInv(w, old, hand, open \ {id})
      /\ old.resolved = st.resolved /\ old.answer[n] = vals /\ old.postponed[n] = <<>>
      /\ \A k \in Session!Numbers : k # n => old.postponed[k] = st.postponed[k]
      /\ \A q \in DOMAIN st.questions : q \in DOMAIN old.questions /\ old.questions[q] = st.questions[q]
      /\ \A q \in DOMAIN old.questions :
           q \in DOMAIN st.questions \/ \E j \in 1..(i - 1) : old.questions[q] = calls[j].n
      /\ \A k \in Session!Numbers :
           \/ k = n
           \/ old.answer[k] = st.answer[k]
           \/ old.answer[k] = Session!Failed /\ \E j \in 1..(i - 1) : calls[j].n = k
  BY DEF Passing
<1>4. LaterWell(w, st, {}) /\ QuestionsWell(w, st)  BY <1>2 DEF ClientInv
<1>5. /\ \A j \in DOMAIN calls : Waiter(w, st, {}, n, calls[j])
      /\ \A j, k \in DOMAIN calls : calls[j].n = calls[k].n => j = k
      /\ \A j, k \in DOMAIN calls : j < k => calls[j].n < calls[k].n
  BY <1>1, <1>2, <1>4, WaiterIs, WaitersApart
<1>6. calls \in Seq(LaterSet) /\ i \in Nat /\ DOMAIN calls = 1..Len(calls) /\ Len(calls) \in Nat
  BY <1>1
<1>7. /\ c.n \in DOMAIN w.made /\ c.n \in Session!Numbers /\ c.n \in Nat
      /\ n < c.n /\ c.n \notin Session!Range(st.questions)
      /\ c.ref = Ref(w, c.n) /\ c.args = w.made[c.n].args
      /\ c.ref.of = "answer" /\ c.ref.n = n /\ st.answer[c.n] = Session!NoAnswer
      /\ c = [n |-> c.n, ref |-> c.ref, args |-> c.args]
  <2>1. Waiter(w, st, {}, n, c)  BY <1>5
  <2> HIDE DEF c
  <2> QED  BY <2>1 DEF Waiter
<1>8. c.n \in hand /\ hand \ {c.n} = InHands(calls, i)
  <2>1. (i - 1) + 1 = i /\ i \in i..Len(calls)  BY <1>6
  <2>2. c.n \in hand  BY <2>1 DEF InHands
  <2>3. \A j \in i..Len(calls) : j = i \/ j \in (i + 1)..Len(calls)  BY <1>6
  <2>4. \A j \in (i + 1)..Len(calls) : j \in i..Len(calls) /\ j # i /\ j \in DOMAIN calls  BY <1>6
  <2>5. hand = {calls[j].n : j \in i..Len(calls)}  BY <2>1 DEF InHands
  <2>6. \A j \in (i + 1)..Len(calls) : calls[j].n # c.n  BY <1>5, <2>4
  <2>7. \A x : x \in hand \ {c.n} <=> x \in InHands(calls, i)
    BY <2>3, <2>4, <2>5, <2>6 DEF InHands
  <2> QED  BY <2>2, <2>7
<1>9. \A q \in DOMAIN old.questions : Ref(w, old.questions[q]) = c.ref => old.questions[q] < c.n
  <2>1. ASSUME NEW q \in DOMAIN st.questions  PROVE Ref(w, st.questions[q]) # c.ref
    BY <1>1, <1>4, <1>7 DEF QuestionsWell
  <2>2. ASSUME NEW j \in 1..(i - 1)  PROVE calls[j].n < c.n
    <3>1. j \in DOMAIN calls /\ j < i  BY <1>6
    <3> QED  BY <1>5, <3>1
  <2> QED  BY <1>3, <2>1, <2>2
<1>10. InHand(w, old, hand, c)
  <2>1. DOMAIN old.postponed[c.ref.n] = {}  BY <1>3, <1>7
  <2> HIDE DEF c, hand
  <2> QED  BY <1>7, <1>8, <1>9, <2>1 DEF InHand
<1>11. IsState(new) /\ ClientInv(w, new, hand \ {c.n}, open \ {id}) /\ Moved(old, c, new)
  <2> HIDE DEF hand
  <2>1. new = Session!Handle(old, c) /\ ResolvedWell(w, old.resolved)  BY <1>2, <1>3
  <2> HIDE DEF c
  <2> QED  BY <1>2, <1>3, <1>10, <2>1, HandleKeeps
<1> HIDE DEF c, hand
<1>12. /\ new.resolved = old.resolved
       /\ \A q \in DOMAIN old.questions :
            q \in DOMAIN new.questions /\ new.questions[q] = old.questions[q]
       /\ \A q \in DOMAIN new.questions : q \in DOMAIN old.questions \/ new.questions[q] = c.n
       /\ \A k \in Session!Numbers : k # c.n => new.answer[k] = old.answer[k]
       /\ new.answer[c.n] \in {Session!NoAnswer, Session!Failed}
       /\ new.postponed = old.postponed
  <2>1. c.ref.of = "answer" => old.answer[c.ref.n] # Session!NoAnswer  BY <1>1, <1>3, <1>7
  <2> QED  BY <1>11, <2>1 DEF Moved
<1>13. n # c.n  BY <1>7
<1>14. i \in 1..i /\ \A j \in 1..(i - 1) : j \in 1..i  BY <1>6
<1>15. calls[i].n = c.n  BY DEF c
<1>16. \A q \in DOMAIN new.questions :
          q \in DOMAIN st.questions \/ \E j \in 1..i : new.questions[q] = calls[j].n
  BY <1>3, <1>12, <1>14, <1>15
<1>17. ASSUME NEW k \in Session!Numbers
       PROVE  \/ k = n
              \/ new.answer[k] = st.answer[k]
              \/ new.answer[k] = Session!Failed /\ \E j \in 1..i : calls[j].n = k
  <2>1. CASE k = c.n  BY <1>7, <1>12, <1>14, <1>15, <2>1
  <2>2. CASE k # c.n  BY <1>3, <1>12, <1>14, <2>2
  <2> QED  BY <2>1, <2>2
<1>18. ClientInv(w, new, InHands(calls, i), open \ {id})  BY <1>8, <1>11
<1>19. new.resolved = st.resolved /\ new.answer[n] = vals /\ new.postponed[n] = <<>>
       /\ \A k \in Session!Numbers : k # n => new.postponed[k] = st.postponed[k]
  BY <1>1, <1>3, <1>12, <1>13
<1>20. \A q \in DOMAIN st.questions : q \in DOMAIN new.questions /\ new.questions[q] = st.questions[q]
  BY <1>3, <1>12
<1> QED  BY <1>11, <1>16, <1>17, <1>18, <1>19, <1>20 DEF Passing

\* When all have been passed on, those that failed fail what waits for them.
FailsAll(sent, B) ==
    [questions |-> sent.questions, toVat |-> sent.toVat,
     answer |-> [m \in Session!Numbers |-> IF m \in B THEN Session!Failed ELSE sent.answer[m]],
     postponed |-> [m \in Session!Numbers |-> IF m \in B THEN <<>> ELSE sent.postponed[m]],
     resolved |-> sent.resolved]

\* What the answer to a call makes of the state of the client.
AnswerKept(w, st, open, id, n, vals, new) ==
    /\ IsState(new) /\ ClientInv(w, new, {}, open \ {id}) /\ NoneLeft(new)
    /\ new.resolved = st.resolved /\ Further(w, st, w, new)
    /\ \A q \in DOMAIN st.questions : q \in DOMAIN new.questions /\ new.questions[q] = st.questions[q]

\* The states in which calls are handled one after the other.
Handles(list, base, g) ==
    /\ g[0] = base
    /\ \A i \in 1..Len(list) : g[i] = Session!Handle(g[i - 1], list[i])
    /\ Session!FoldLeft(Session!Handle, base, list) = g[Len(list)]

\* There are such states for every list of calls.
LEMMA HandlesAll ==
    ASSUME NEW X, NEW list \in Seq(X), NEW base
    PROVE  \E g : Handles(list, base, g)
BY CallsAreHandled DEF Handles

\* When all have been passed on.
LEMMA AllPassed ==
    ASSUME NEW w, NEW st, NEW open, NEW id, NEW n, NEW vals, Answerable(w, st, open, id, n, vals),
           NEW calls, calls = st.postponed[n],
           NEW all, all = Answered(st, n, vals)
    PROVE  Passing(w, st, n, vals, open \ {id}, calls,
                   Session!FoldLeft(Session!Handle, all, calls), Len(calls))
<1>1. calls \in Seq(LaterSet) /\ Len(calls) \in Nat /\ DOMAIN calls = 1..Len(calls)
  <2>1. st.postponed[n] \in Seq(LaterSet)  BY AnswerableIs
  <2> QED  BY <2>1
<1>6. PICK g : Handles(calls, all, g)  BY <1>1, HandlesAll
<1>2. /\ g[0] = all
      /\ \A i \in 1..Len(calls) : g[i] = Session!Handle(g[i - 1], calls[i])
      /\ Session!FoldLeft(Session!Handle, all, calls) = g[Len(calls)]
  BY <1>6 DEF Handles
<1> DEFINE S == {i \in 0..Len(calls) : Passing(w, st, n, vals, open \ {id}, calls, g[i], i)}
<1>3. 0 \in S
  <2>3. Handed(w, st, open, id, n, vals, all, calls)  BY AnsweredKeeps
  <2>1. /\ IsState(all) /\ Further(w, st, w, all)
        /\ ClientInv(w, all, InHands(calls, 0), open \ {id})
        /\ all.answer[n] = vals /\ all.postponed[n] = <<>>
        /\ \A k \in Session!Numbers :
             k # n => all.answer[k] = st.answer[k] /\ all.postponed[k] = st.postponed[k]
        /\ all.questions = st.questions /\ all.resolved = st.resolved
    BY <2>3 DEF Handed
  <2>2. Passing(w, st, n, vals, open \ {id}, calls, all, 0)  BY <2>1 DEF Passing
  <2> QED  BY <1>1, <1>2, <2>2
<1>4. ASSUME NEW i \in 1..Len(calls), (i - 1) \in S  PROVE i \in S
  <2>1. i \in DOMAIN calls /\ i \in 0..Len(calls)  BY <1>1
  <2>2. PICK old : old = g[i - 1]  OBVIOUS
  <2>3. PICK new : new = g[i]  OBVIOUS
  <2>4. new = Session!Handle(old, calls[i])  BY <1>2, <2>2, <2>3
  <2>5. Passing(w, st, n, vals, open \ {id}, calls, old, i - 1)  BY <1>4, <2>2
  <2>6. Passing(w, st, n, vals, open \ {id}, calls, new, i)  BY <2>1, <2>4, <2>5, PassesOn
  <2> QED  BY <2>1, <2>3, <2>6
<1>5. Len(calls) \in S
  <2> HIDE DEF S
  <2>1. \A i \in 1..Len(calls) : (i - 1) \in S => i \in S  BY <1>4
  <2>2. \A i \in 0..Len(calls) : i \in S  BY <1>1, <1>3, <2>1, Upwards
  <2> QED  BY <1>1, <2>2
<1> QED  BY <1>2, <1>5

\* The fields of a state that has other answers.
LEMMA WithAnswer ==
    ASSUME NEW st, IsState(st), NEW a, NEW p
    PROVE  [st EXCEPT !.answer = a, !.postponed = p]
           = [questions |-> st.questions, toVat |-> st.toVat, answer |-> a, postponed |-> p,
              resolved |-> st.resolved]
<1>1. PICK mid : mid = [st EXCEPT !.answer = a]  OBVIOUS
<1>2. mid = [questions |-> st.questions, toVat |-> st.toVat, answer |-> a,
             postponed |-> st.postponed, resolved |-> st.resolved]
  BY <1>1 DEF IsState
<1>3. [st EXCEPT !.answer = a, !.postponed = p] = [mid EXCEPT !.postponed = p]  BY <1>1
<1>4. [mid EXCEPT !.postponed = p]
      = [questions |-> st.questions, toVat |-> st.toVat, answer |-> a, postponed |-> p,
         resolved |-> st.resolved]
  BY <1>2
<1> QED  BY <1>3, <1>4

\* An answer that comes in keeps the invariant of the client.
LEMMA SettleAnswerKeeps ==
    ASSUME NEW w, NEW st, NEW open, NEW id, NEW n, NEW vals, Answerable(w, st, open, id, n, vals),
           NEW new, new = Session!SettleAnswer(st, n, vals)
    PROVE  AnswerKept(w, st, open, id, n, vals, new)
<1>1. PICK calls : calls = st.postponed[n]  OBVIOUS
<1>2. PICK all : all = Answered(st, n, vals)  OBVIOUS
<1>3. PICK sent : sent = Session!FoldLeft(Session!Handle, all, calls)  OBVIOUS
<1> DEFINE ns == {m \in {c.n : c \in Session!Range(calls)} : sent.answer[m] = Session!Failed}
           B == Session!Behind(st.postponed, ns)
<1>4. Passing(w, st, n, vals, open \ {id}, calls, sent, Len(calls))
  BY <1>1, <1>2, <1>3, AllPassed
<1>5. /\ n \in DOMAIN w.made /\ n \in Session!Numbers /\ id \in DOMAIN st.questions
      /\ st.questions[id] = n /\ n \in Session!Range(st.questions)
      /\ st.answer[n] = Session!NoAnswer /\ vals # Session!NoAnswer
      /\ w.taken \in Nat /\ Len(st.questions) \in Nat /\ w.taken <= Len(st.questions)
      /\ st.postponed[n] \in Seq(LaterSet)
  BY AnswerableIs
<1>6. /\ KnownWell(w) /\ MadeWell(w) /\ ClientInv(w, st, {}, open) /\ IsState(st) /\ NoneLeft(st)
  BY DEF Answerable
<1>7. calls \in Seq(LaterSet) /\ DOMAIN calls = 1..Len(calls) /\ Len(calls) \in Nat
  BY <1>1, <1>5
<1>8. InHands(calls, Len(calls)) = {}
  <2>1. \A j \in (Len(calls) + 1)..Len(calls) : FALSE  BY <1>7
  <2> QED  BY <2>1 DEF InHands
<1>9. /\ IsState(sent) /\ ClientInv(w, sent, {}, open \ {id})
      /\ sent.resolved = st.resolved /\ sent.answer[n] = vals /\ sent.postponed[n] = <<>>
      /\ \A k \in Session!Numbers : k # n => sent.postponed[k] = st.postponed[k]
      /\ \A q \in DOMAIN st.questions : q \in DOMAIN sent.questions /\ sent.questions[q] = st.questions[q]
      /\ \A q \in DOMAIN sent.questions :
           q \in DOMAIN st.questions \/ \E j \in DOMAIN calls : sent.questions[q] = calls[j].n
      /\ \A k \in Session!Numbers :
           \/ k = n
           \/ sent.answer[k] = st.answer[k]
           \/ sent.answer[k] = Session!Failed /\ \E j \in DOMAIN calls : calls[j].n = k
  BY <1>4, <1>7, <1>8 DEF Passing
<1>10. LaterWell(w, st, {}) /\ LaterWell(w, sent, {})  BY <1>6, <1>9 DEF ClientInv
<1>11. \A k \in Session!Numbers : \A i \in DOMAIN st.postponed[k] :
          Waiter(w, st, {}, k, st.postponed[k][i])
  BY <1>6, <1>10, WaiterIs
<1>12. \A k \in Session!Numbers : \A i \in DOMAIN sent.postponed[k] :
          Waiter(w, sent, {}, k, sent.postponed[k][i])
  BY <1>6, <1>10, WaiterIs
<1>13. \A m : m \in ns <=> sent.answer[m] = Session!Failed /\ \E j \in DOMAIN calls : calls[j].n = m
  BY DEF Session!Range
<1>14. new = [sent EXCEPT !.answer = [m \in Session!Numbers |-> IF m \in B THEN Session!Failed ELSE @[m]],
                          !.postponed = [m \in Session!Numbers |-> IF m \in B THEN <<>> ELSE @[m]]]
  <2>1. all = [st EXCEPT !.answer[n] = vals, !.postponed[n] = <<>>]
    <3>1. PICK a : a = [st.answer EXCEPT ![n] = vals]  OBVIOUS
    <3>2. PICK p : p = [st.postponed EXCEPT ![n] = <<>>]  OBVIOUS
    <3>3. [st EXCEPT !.answer[n] = vals, !.postponed[n] = <<>>]
          = [st EXCEPT !.answer = a, !.postponed = p]
      BY <1>6, <3>1, <3>2 DEF IsState
    <3>4. [st EXCEPT !.answer = a, !.postponed = p]
          = [questions |-> st.questions, toVat |-> st.toVat, answer |-> a, postponed |-> p,
             resolved |-> st.resolved]
      BY <1>6, WithAnswer
    <3> QED  BY <1>2, <3>1, <3>2, <3>3, <3>4 DEF Answered
  <2>2. sent = Session!FoldLeft(Session!Handle, [st EXCEPT !.answer[n] = vals, !.postponed[n] = <<>>],
                                st.postponed[n])
    BY <1>1, <1>3, <2>1
  <2>3. new = Session!Fail(sent, st.postponed, ns)
    BY <1>1, <2>2 DEF Session!SettleAnswer, Session!PassOn
  <2> HIDE DEF ns
  <2> QED  BY <2>3 DEF Session!Fail
<1>15. new = FailsAll(sent, B)
  <2> HIDE DEF B
  <2> QED  BY <1>9, <1>14 DEF FailsAll, IsState
<1> HIDE DEF ns, B
<1>37. \A j \in DOMAIN calls : Waiter(w, st, {}, n, calls[j])  BY <1>1, <1>5, <1>11
<1>38. \A j \in DOMAIN calls :
          /\ calls[j].n \in Session!Numbers /\ calls[j].n \in DOMAIN w.made
          /\ st.answer[calls[j].n] = Session!NoAnswer /\ calls[j].n \notin Session!Range(st.questions)
  BY <1>37 DEF Waiter
<1>16. ns \in SUBSET Session!Numbers  BY <1>13, <1>38
<1>17. \A k \in Session!Numbers : \A i \in DOMAIN st.postponed[k] :
          st.postponed[k][i].n \in Session!Numbers
  BY <1>11 DEF Waiter
<1>18. /\ B \subseteq Session!Numbers /\ ns \subseteq B
       /\ \A k \in B : \A i \in DOMAIN st.postponed[k] : st.postponed[k][i].n \in B
       /\ \A S \in SUBSET Session!Numbers :
            ns \subseteq S /\ (\A k \in S : \A i \in DOMAIN st.postponed[k] : st.postponed[k][i].n \in S)
              => B \subseteq S
       /\ \A m \in B : m \in ns \/ \E k \in B : \E i \in DOMAIN st.postponed[k] : st.postponed[k][i].n = m
  BY <1>16, <1>17, BehindIs DEF B
<1>19. B \cap Session!Range(sent.questions) = {} /\ n \notin B
  <2> DEFINE S == Session!Numbers \ Session!Range(sent.questions)
  <2>1. n \in Session!Range(sent.questions)  BY <1>5, <1>9 DEF Session!Range
  <2>2. ASSUME NEW m \in ns  PROVE m \notin Session!Range(sent.questions)
    <3> SUFFICES ASSUME NEW q \in DOMAIN sent.questions, sent.questions[q] = m  PROVE FALSE
      BY DEF Session!Range
    <3>1. PICK j \in DOMAIN calls : calls[j].n = m  BY <1>13
    <3>3. m \notin Session!Range(st.questions) /\ m \in Session!Numbers  BY <1>38, <3>1
    <3>4. q \notin DOMAIN st.questions  BY <1>9, <3>3 DEF Session!Range
    <3>5. q > w.taken
      <4>1. sent.questions \in Seq(DOMAIN w.made) /\ st.questions \in Seq(DOMAIN w.made)
        BY <1>6, <1>9 DEF ClientInv, QuestionsWell
      <4>2. q \in Nat /\ q >= 1 /\ DOMAIN st.questions = 1..Len(st.questions)  BY <4>1
      <4> QED  BY <1>5, <3>4, <4>2
    <3>6. sent.answer[m] = Session!NoAnswer
      BY <1>9, <3>3, <3>5 DEF ClientInv, AnswersWell
    <3>7. sent.answer[m] = Session!Failed  BY <1>13, <2>2
    <3>8. Session!Failed # Session!NoAnswer  BY DEF Session!Failed, Session!NoAnswer
    <3> QED  BY <3>6, <3>7, <3>8
  <2>3. ASSUME NEW k \in S, NEW i \in DOMAIN st.postponed[k]  PROVE st.postponed[k][i].n \in S
    <3>1. k \in Session!Numbers /\ k # n  BY <2>1
    <3>2. sent.postponed[k] = st.postponed[k]  BY <1>9, <3>1
    <3>3. Waiter(w, sent, {}, k, st.postponed[k][i])  BY <1>12, <3>1, <3>2
    <3> QED  BY <3>3 DEF Waiter
  <2>4. ns \subseteq S  BY <1>16, <2>2
  <2>5. S \in SUBSET Session!Numbers  OBVIOUS
  <2>6. B \subseteq S
    <3> HIDE DEF S
    <3> QED  BY <1>18, <2>3, <2>4, <2>5
  <2> QED  BY <2>1, <2>6
<1>20. \A k \in B : k # n /\ sent.postponed[k] = st.postponed[k]  BY <1>9, <1>18, <1>19
\* Who waits for one that is behind has no answer, and who waits elsewhere is not behind.
<1>21. \A m \in B : m \in ns \/ sent.answer[m] = Session!NoAnswer
  <2>1. ASSUME NEW m \in B, m \notin ns  PROVE sent.answer[m] = Session!NoAnswer
    <3>1. PICK k \in B : \E i \in DOMAIN st.postponed[k] : st.postponed[k][i].n = m  BY <1>18, <2>1
    <3>2. PICK i \in DOMAIN st.postponed[k] : st.postponed[k][i].n = m  BY <3>1
    <3>3. Waiter(w, sent, {}, k, st.postponed[k][i])  BY <1>12, <1>18, <1>20
    <3> QED  BY <3>2, <3>3 DEF Waiter
  <2> QED  BY <2>1
<1>22. ASSUME NEW k \in Session!Numbers, k \notin B, NEW i \in DOMAIN sent.postponed[k]
       PROVE  sent.postponed[k][i].n \notin B
  <2> DEFINE m == sent.postponed[k][i].n
  <2> SUFFICES ASSUME m \in B  PROVE FALSE  OBVIOUS
  <2>1. Waiter(w, sent, {}, k, sent.postponed[k][i])  BY <1>12
  <2>2. sent.answer[m] = Session!NoAnswer /\ Ref(w, m).n = k  BY <2>1 DEF Waiter
  <2>3. m \notin ns
    <3>1. sent.answer[m] # Session!Failed  BY <2>2 DEF Session!NoAnswer, Session!Failed
    <3> QED  BY <1>13, <3>1
  <2>4. PICK l \in B : \E j \in DOMAIN st.postponed[l] : st.postponed[l][j].n = m  BY <1>18, <2>3
  <2>5. PICK j \in DOMAIN st.postponed[l] : st.postponed[l][j].n = m  BY <2>4
  <2>6. Waiter(w, sent, {}, l, st.postponed[l][j])  BY <1>12, <1>18, <1>20
  <2>7. Ref(w, m).n = l  BY <2>5, <2>6 DEF Waiter
  <2> QED  BY <1>22, <2>2, <2>7
<1>23. \A m \in B : m \in DOMAIN w.made
  <2>1. ASSUME NEW m \in B  PROVE m \in DOMAIN w.made
    <3>1. CASE m \in ns
      BY <1>13, <1>38, <3>1
    <3>2. CASE m \notin ns
      <4>1. PICK k \in B : \E i \in DOMAIN st.postponed[k] : st.postponed[k][i].n = m  BY <1>18, <3>2
      <4>2. PICK i \in DOMAIN st.postponed[k] : st.postponed[k][i].n = m  BY <4>1
      <4>3. Waiter(w, st, {}, k, st.postponed[k][i])  BY <1>11, <1>18
      <4> QED  BY <4>2, <4>3 DEF Waiter
    <3> QED  BY <3>1, <3>2
  <2> QED  BY <2>1
<1>24. /\ new.questions = sent.questions /\ new.toVat = sent.toVat /\ new.resolved = sent.resolved
       /\ \A m \in Session!Numbers :
            /\ new.answer[m] = IF m \in B THEN Session!Failed ELSE sent.answer[m]
            /\ new.postponed[m] = IF m \in B THEN <<>> ELSE sent.postponed[m]
       /\ DOMAIN new.answer = Session!Numbers /\ DOMAIN new.postponed = Session!Numbers
       /\ new.answer = [m \in Session!Numbers |-> new.answer[m]]
       /\ new.postponed = [m \in Session!Numbers |-> new.postponed[m]]
       /\ IsState(new)
  BY <1>15 DEF FailsAll, IsState
<1>25. /\ sent.answer \in [Session!Numbers -> Seq(SlotSet)]
       /\ sent.postponed \in [Session!Numbers -> Seq(LaterSet)]
  BY <1>9, <1>10 DEF ClientInv, AnswersWell, LaterWell
<1>26. /\ new.answer \in [Session!Numbers -> Seq(SlotSet)]
       /\ new.postponed \in [Session!Numbers -> Seq(LaterSet)]
  <2>1. Session!Failed \in Seq(SlotSet)  BY DEF Session!Failed, SlotSet, Session!Broken
  <2>2. \A m \in Session!Numbers : new.answer[m] \in Seq(SlotSet)  BY <1>24, <1>25, <2>1
  <2>3. <<>> \in Seq(LaterSet)  OBVIOUS
  <2>4. \A m \in Session!Numbers : new.postponed[m] \in Seq(LaterSet)  BY <1>24, <1>25, <2>3
  <2> QED  BY <1>24, <2>2, <2>4
<1>27. \A m \in Session!Numbers :
          sent.answer[m] # Session!NoAnswer => new.answer[m] = sent.answer[m]
  BY <1>13, <1>21, <1>24
<1>28. Further(w, sent, w, new)  BY <1>27, FurtherHere
<1>29. \A m \in B : new.answer[m] # Session!NoAnswer
  BY <1>18, <1>24 DEF Session!Failed, Session!NoAnswer
<1>30. QuestionsWell(w, new)
  <2>1. QuestionsWell(w, sent)  BY <1>9 DEF ClientInv
  <2>2. \A i \in DOMAIN sent.questions :
          Ref(w, sent.questions[i]).of = "answer" => Ref(w, sent.questions[i]).n \in Session!Numbers
    <3>1. \A i \in DOMAIN sent.questions : sent.questions[i] \in DOMAIN w.made
      BY <2>1 DEF QuestionsWell
    <3> QED  BY <1>6, <3>1, RefIs
  <2>3. \A m \in Session!Numbers :
          sent.answer[m] # Session!NoAnswer => new.answer[m] # Session!NoAnswer
    BY <1>27
  <2> QED  BY <1>24, <2>1, <2>2, <2>3 DEF QuestionsWell
<1>31. ToVatWell(w, new)
  <2>1. /\ sent.toVat \in Seq(ToVatSet)
        /\ w.taken \in Nat /\ Len(sent.questions) = w.taken + Len(sent.toVat)
        /\ \A i \in DOMAIN sent.toVat :
             /\ sent.toVat[i].questionID = w.taken + i
             /\ sent.toVat[i].n = sent.questions[w.taken + i]
             /\ sent.toVat[i].type = "CTP_CALL" => CallWell(w, sent, sent.toVat[i])
    BY <1>9 DEF ClientInv, ToVatWell
  <2>2. \A i \in DOMAIN sent.toVat : sent.toVat[i].n \in DOMAIN w.made
    <3>1. sent.questions \in Seq(DOMAIN w.made)  BY <1>9 DEF ClientInv, QuestionsWell
    <3>2. \A i \in DOMAIN sent.toVat : w.taken + i \in DOMAIN sent.questions  BY <2>1, <3>1
    <3> QED  BY <2>1, <3>1, <3>2
  <2>3. w.made \in Seq(MadeSet)  BY <1>6 DEF MadeWell
  <2>4. \A i \in DOMAIN sent.toVat :
          sent.toVat[i].type = "CTP_CALL" => CallWell(w, new, sent.toVat[i])
    BY <1>6, <1>25, <1>28, <2>1, <2>2, <2>3, CallStays
  <2> QED  BY <1>24, <2>1, <2>4 DEF ToVatWell
<1>32. LaterWell(w, new, {})
  <2>1. ASSUME NEW k \in Session!Numbers, NEW i \in DOMAIN new.postponed[k]
        PROVE  /\ k \notin B /\ new.postponed[k] = sent.postponed[k]
               /\ i \in DOMAIN sent.postponed[k]
    <3>1. k \in B => DOMAIN new.postponed[k] = {}  BY <1>24
    <3>2. k \notin B  BY <2>1, <3>1
    <3> QED  BY <1>24, <2>1, <3>2
  <2>2. ASSUME NEW k \in Session!Numbers, NEW i \in DOMAIN new.postponed[k]
        PROVE  LET d == new.postponed[k][i]
               IN /\ d.n \in DOMAIN w.made /\ k < d.n
                  /\ d.ref = Ref(w, d.n) /\ d.args = w.made[d.n].args
                  /\ d.ref.of = "answer" /\ d.ref.n = k
                  /\ new.answer[d.n] = Session!NoAnswer
                  /\ d.n \notin {} /\ d.n \notin Session!Range(new.questions)
                  /\ \A j \in DOMAIN new.postponed[k] : i < j => d.n < new.postponed[k][j].n
    <3>1. /\ k \notin B /\ new.postponed[k] = sent.postponed[k] /\ i \in DOMAIN sent.postponed[k]
      BY <2>1, <2>2
    <3>2. PICK d : d = sent.postponed[k][i]  OBVIOUS
    <3>3. /\ Waiter(w, sent, {}, k, d)
          /\ \A j \in DOMAIN sent.postponed[k] : i < j => d.n < sent.postponed[k][j].n
      BY <1>6, <1>10, <3>1, <3>2, WaiterIs
    <3>4. d.n \notin B  BY <1>22, <3>1, <3>2
    <3>5. d.n \in Session!Numbers /\ sent.answer[d.n] = Session!NoAnswer  BY <3>3 DEF Waiter
    <3>6. new.answer[d.n] = Session!NoAnswer  BY <1>24, <3>4, <3>5
    <3> QED  BY <1>24, <3>1, <3>2, <3>3, <3>6 DEF Waiter
  <2> QED  BY <1>26, <2>2 DEF LaterWell
<1>33. AnswersWell(w, new, {}, open \ {id})
  <2> DEFINE Asking(m) == \E i \in DOMAIN sent.questions :
                             sent.questions[i] = m /\ (i > w.taken \/ i \in open \ {id})
             Later(s, m) == \E l \in Session!Numbers : \E i \in DOMAIN s.postponed[l] :
                               s.postponed[l][i].n = m
  <2>1. ASSUME NEW m \in Session!Numbers
        PROVE  sent.answer[m] = Session!NoAnswer <=>
                 m \notin DOMAIN w.made \/ Asking(m) \/ Later(sent, m)
    <3>1. AnswersWell(w, sent, {}, open \ {id})  BY <1>9 DEF ClientInv
    <3> QED  BY <3>1 DEF AnswersWell
  <2>2. \A m \in B : ~Asking(m)  BY <1>19 DEF Session!Range
  <2>3. \A m \in B : ~Later(new, m)
    <3>1. ASSUME NEW l \in Session!Numbers, NEW i \in DOMAIN new.postponed[l]
          PROVE  new.postponed[l][i].n \notin B
      <4>1. l \in B => DOMAIN new.postponed[l] = {}  BY <1>24
      <4>2. l \notin B /\ new.postponed[l] = sent.postponed[l]  BY <1>24, <3>1, <4>1
      <4> QED  BY <1>22, <3>1, <4>2
    <3> QED  BY <3>1
  <2>4. ASSUME NEW m \in Session!Numbers, m \notin B
        PROVE  Later(sent, m) <=> Later(new, m)
    <3>1. ASSUME Later(sent, m)  PROVE Later(new, m)
      <4>1. PICK l \in Session!Numbers : \E i \in DOMAIN sent.postponed[l] : sent.postponed[l][i].n = m
        BY <3>1
      <4>2. PICK i \in DOMAIN sent.postponed[l] : sent.postponed[l][i].n = m  BY <4>1
      <4>3. l # n  BY <1>9, <4>2
      <4>4. l \notin B  BY <1>9, <1>18, <2>4, <4>2, <4>3
      <4>5. new.postponed[l] = sent.postponed[l]  BY <1>24, <4>4
      <4> QED  BY <4>2, <4>5
    <3>2. ASSUME Later(new, m)  PROVE Later(sent, m)
      <4>1. PICK l \in Session!Numbers : \E i \in DOMAIN new.postponed[l] : new.postponed[l][i].n = m
        BY <3>2
      <4>2. l \in B => DOMAIN new.postponed[l] = {}  BY <1>24
      <4>3. l \notin B /\ new.postponed[l] = sent.postponed[l]  BY <1>24, <4>1, <4>2
      <4> QED  BY <4>1, <4>3
    <3> QED  BY <3>1, <3>2
  <2>5. ASSUME NEW m \in Session!Numbers
        PROVE  new.answer[m] = Session!NoAnswer <=>
                 m \notin DOMAIN w.made \/ Asking(m) \/ Later(new, m)
    <3> HIDE DEF Asking, Later
    <3>1. CASE m \in B  BY <1>23, <1>29, <2>2, <2>3, <3>1
    <3>2. CASE m \notin B  BY <1>24, <2>1, <2>4, <3>2
    <3> QED  BY <3>1, <3>2
  <2>6. \A m \in Session!Numbers : \A k \in DOMAIN new.answer[m] :
           new.answer[m][k][1] \in {"o", "p"} => new.answer[m][k] \in DOMAIN w.known
    <3>1. ASSUME NEW m \in Session!Numbers, NEW k \in DOMAIN new.answer[m],
                 new.answer[m][k][1] \in {"o", "p"}
          PROVE  new.answer[m][k] \in DOMAIN w.known
      <4>1. m \in B => new.answer[m][k] = <<Session!Broken, 0>>
        <5>1. ASSUME m \in B  PROVE new.answer[m] = << <<Session!Broken, 0>> >>
          BY <1>24, <5>1 DEF Session!Failed
        <5> QED  BY <3>1, <5>1
      <4>2. m \notin B  BY <3>1, <4>1 DEF Session!Broken
      <4>3. new.answer[m] = sent.answer[m]  BY <1>24, <4>2
      <4>4. AnswersWell(w, sent, {}, open \ {id})  BY <1>9 DEF ClientInv
      <4> QED  BY <3>1, <4>3, <4>4 DEF AnswersWell
    <3> QED  BY <3>1
  <2> QED  BY <1>24, <1>26, <2>5, <2>6 DEF AnswersWell
<1>34. NoneLeft(new)
  <2>1. ASSUME NEW k \in Session!Numbers, new.postponed[k] # <<>>
        PROVE  new.answer[k] = Session!NoAnswer
    <3>1. k \notin B /\ new.postponed[k] = sent.postponed[k]  BY <1>24, <2>1
    <3>2. k # n /\ st.postponed[k] # <<>>  BY <1>9, <2>1, <3>1
    <3>3. st.answer[k] = Session!NoAnswer  BY <1>6, <3>2 DEF NoneLeft
    <3>4. sent.answer[k] = st.answer[k]
      <4>1. CASE sent.answer[k] = Session!Failed /\ \E j \in DOMAIN calls : calls[j].n = k
        <5>1. k \in ns  BY <1>13, <4>1
        <5> QED  BY <1>18, <3>1, <5>1
      <4> QED  BY <1>9, <3>2, <4>1
    <3> QED  BY <1>24, <3>1, <3>3, <3>4
  <2> QED  BY <2>1 DEF NoneLeft
<1>35. Further(w, st, w, new)
  <2>1. ASSUME NEW k \in Session!Numbers, st.answer[k] # Session!NoAnswer
        PROVE  new.answer[k] = st.answer[k]
    <3>1. k # n  BY <1>5, <2>1
    <3>2. \A j \in DOMAIN calls : calls[j].n # k
      BY <1>38, <2>1
    <3>3. sent.answer[k] = st.answer[k]  BY <1>9, <3>1, <3>2
    <3> QED  BY <1>27, <2>1, <3>3
  <2> QED  BY <2>1, FurtherHere
<1>36. ClientInv(w, new, {}, open \ {id})  BY <1>30, <1>31, <1>32, <1>33 DEF ClientInv
<1> QED  BY <1>9, <1>24, <1>34, <1>35, <1>36 DEF AnswerKept

\* What the client has stays right while it knows more and promises are
\* settled, and while it makes calls, which are then in hand.
LEMMA ClientGoesOn ==
    ASSUME NEW w, NEW st, NEW v, NEW open, KnownWell(w), MadeWell(w), MadeWell(v),
           ClientInv(w, st, {}, open), Further(w, st, v, st), v.taken = w.taken
    PROVE  ClientInv(v, st, DOMAIN v.made \ DOMAIN w.made, open)
<1> DEFINE hand == DOMAIN v.made \ DOMAIN w.made
<1>1. /\ DOMAIN w.made \subseteq DOMAIN v.made /\ \A n \in DOMAIN w.made : v.made[n] = w.made[n]
      /\ DOMAIN w.known \subseteq DOMAIN v.known
  <2>1. w.made \in Seq(MadeSet) /\ v.made \in Seq(MadeSet)  BY DEF MadeWell
  <2>2. Len(w.made) <= Len(v.made)  BY DEF Further
  <2> QED  BY <2>1, <2>2 DEF Further
<1>2. \A n \in DOMAIN w.made : Ref(v, n) = Ref(w, n)  BY <1>1 DEF Ref
<1>3. /\ st.questions \in Seq(DOMAIN w.made)
      /\ \A i, j \in DOMAIN st.questions :
           /\ st.questions[i] = st.questions[j] => i = j
           /\ i < j /\ Ref(w, st.questions[i]) = Ref(w, st.questions[j])
                => st.questions[i] < st.questions[j]
      /\ \A i \in DOMAIN st.questions :
           Ref(w, st.questions[i]).of = "answer" =>
              st.answer[Ref(w, st.questions[i]).n] # Session!NoAnswer
  BY DEF ClientInv, QuestionsWell
<1>4. st.questions \in Seq(DOMAIN v.made) /\ \A i \in DOMAIN st.questions : st.questions[i] \in DOMAIN w.made
  <2>1. PICK S : S = DOMAIN w.made  OBVIOUS
  <2>2. PICK T : T = DOMAIN v.made  OBVIOUS
  <2>3. S \subseteq T /\ st.questions \in Seq(S)  BY <1>1, <1>3, <2>1, <2>2
  <2>4. st.questions \in Seq(T) /\ \A i \in DOMAIN st.questions : st.questions[i] \in S  BY <2>3
  <2> QED  BY <2>1, <2>2, <2>4
<1>5. QuestionsWell(v, st)  BY <1>2, <1>3, <1>4 DEF QuestionsWell
<1>6. st.answer \in [Session!Numbers -> Seq(SlotSet)]  BY DEF ClientInv, AnswersWell
<1>7. ToVatWell(v, st)
  <2>1. /\ st.toVat \in Seq(ToVatSet)
        /\ w.taken \in Nat /\ Len(st.questions) = w.taken + Len(st.toVat)
        /\ \A i \in DOMAIN st.toVat :
             /\ st.toVat[i].questionID = w.taken + i
             /\ st.toVat[i].n = st.questions[w.taken + i]
             /\ st.toVat[i].type = "CTP_CALL" => CallWell(w, st, st.toVat[i])
    BY DEF ClientInv, ToVatWell
  <2>2. \A i \in DOMAIN st.toVat : st.toVat[i].n \in DOMAIN w.made
    <3>2. \A i \in DOMAIN st.toVat : w.taken + i \in DOMAIN st.questions  BY <1>3, <2>1
    <3> QED  BY <1>4, <2>1, <3>2
  <2>3. w.made \in Seq(MadeSet) /\ v.made \in Seq(MadeSet)  BY DEF MadeWell
  <2>4. \A i \in DOMAIN st.toVat :
          st.toVat[i].type = "CTP_CALL" => CallWell(v, st, st.toVat[i])
    BY <1>6, <2>1, <2>2, <2>3, CallStays
  <2> QED  BY <2>1, <2>4 DEF ToVatWell
<1>8. LaterWell(v, st, hand)
  <2>1. LaterWell(w, st, {})  BY DEF ClientInv
  <2>2. ASSUME NEW k \in Session!Numbers, NEW i \in DOMAIN st.postponed[k]
        PROVE  LET c == st.postponed[k][i]
               IN /\ c.n \in DOMAIN v.made /\ k < c.n
                  /\ c.ref = Ref(v, c.n) /\ c.args = v.made[c.n].args
                  /\ c.ref.of = "answer" /\ c.ref.n = k
                  /\ st.answer[c.n] = Session!NoAnswer
                  /\ c.n \notin hand /\ c.n \notin Session!Range(st.questions)
                  /\ \A j \in DOMAIN st.postponed[k] : i < j => c.n < st.postponed[k][j].n
    <3>1. PICK c : c = st.postponed[k][i]  OBVIOUS
    <3>2. /\ Waiter(w, st, {}, k, c)
          /\ \A j \in DOMAIN st.postponed[k] : i < j => c.n < st.postponed[k][j].n
      BY <2>1, <3>1, WaiterIs
    <3>3. /\ c.n \in DOMAIN w.made /\ k < c.n /\ c.n \notin Session!Range(st.questions)
          /\ c.ref = Ref(w, c.n) /\ c.args = w.made[c.n].args
          /\ c.ref.of = "answer" /\ c.ref.n = k
          /\ st.answer[c.n] = Session!NoAnswer
      BY <3>2 DEF Waiter
    <3> QED  BY <1>1, <1>2, <3>1, <3>2, <3>3
  <2>3. ASSUME NEW n \in hand
        PROVE  /\ n \in DOMAIN v.made /\ n \notin Session!Range(st.questions)
               /\ st.answer[n] = Session!NoAnswer
    <3>1. n \in DOMAIN v.made /\ n \notin DOMAIN w.made  OBVIOUS
    <3>2. n \in Session!Numbers  BY <3>1, RefIs
    <3>3. st.answer[n] = Session!NoAnswer  BY <3>1, <3>2 DEF ClientInv, AnswersWell
    <3> QED  BY <1>4, <3>1, <3>3 DEF Session!Range
  <2>4. st.postponed \in [Session!Numbers -> Seq(LaterSet)]  BY <2>1 DEF LaterWell
  <2> HIDE DEF hand
  <2> QED  BY <2>2, <2>3, <2>4 DEF LaterWell
<1>9. AnswersWell(v, st, hand, open)
  <2>1. AnswersWell(w, st, {}, open)  BY DEF ClientInv
  <2>2. \A n : n \notin DOMAIN w.made <=> n \notin DOMAIN v.made \/ n \in hand  BY <1>1
  <2> HIDE DEF hand
  <2> QED  BY <1>1, <2>1, <2>2 DEF AnswersWell
<1> QED  BY <1>5, <1>7, <1>8, <1>9 DEF ClientInv

\* What has been executed stays what was called.
LEMMA RunsStay ==
    ASSUME NEW w, NEW st, NEW v, NEW new, Further(w, st, v, new),
           st.answer \in [Session!Numbers -> Seq(SlotSet)], MadeWell(w), w.taken \in Nat,
           v.taken \in Nat, w.taken <= v.taken,
           \A k \in 1..w.taken : st.questions[k] \in DOMAIN w.made /\ new.questions[k] = st.questions[k],
           NEW e, e.object \in Objects, Runs(w, st, e)
    PROVE  /\ Runs(v, new, e) /\ Ref(v, e.n) = Ref(w, e.n)
           /\ e.n \in DOMAIN w.made
<1> DEFINE ref == Ref(w, e.n)
           x == w.known[RefSlot(st, ref)]
<1>1. PICK k \in 1..w.taken : e.n = st.questions[k]  BY DEF Runs
<1>2. e.n \in DOMAIN w.made  BY <1>1
<1>3. v.made[e.n] = w.made[e.n] /\ Ref(v, e.n) = ref  BY <1>2 DEF Further, Ref
<1>4. RefKnown(w, st, ref)  BY DEF Runs
<1>5. /\ RefKnown(v, new, ref) /\ v.known[RefSlot(new, ref)] = x
  BY <1>4, RefStays
<1>6. \E l \in 1..v.taken : e.n = new.questions[l]
  <2>1. k \in 1..v.taken  OBVIOUS
  <2> QED  BY <1>1, <2>1
<1>7. e.object = Stands(v, x)
  <2>1. e.object = Stands(w, x)  BY DEF Runs
  <2>2. CASE x \in Promises
    <3>1. w.settled[x] # Session!Unsettled
      BY <2>1, <2>2, KindsApart DEF Stands, Passed
    <3> QED  BY <2>1, <2>2, <3>1 DEF Stands, Further
  <2>3. CASE x \notin Promises  BY <2>1, <2>3 DEF Stands
  <2> QED  BY <2>2, <2>3
<1>8. e.args = [l \in DOMAIN v.made[e.n].args |-> v.known[v.made[e.n].args[l]]]
  <2> DEFINE with == w.made[e.n].args
  <2>1. with \in Seq(DOMAIN w.known)  BY <1>2 DEF MadeWell
  <2>2. \A l \in DOMAIN with : with[l] \in DOMAIN w.known  BY <2>1
  <2>3. \A l \in DOMAIN with : v.known[with[l]] = w.known[with[l]]  BY <2>2 DEF Further
  <2>4. e.args = [l \in DOMAIN with |-> w.known[with[l]]]  BY DEF Runs
  <2> HIDE DEF with
  <2>5. e.args = [l \in DOMAIN with |-> v.known[with[l]]]  BY <2>3, <2>4
  <2> QED  BY <1>3, <2>5 DEF with
<1> HIDE DEF ref, x
<1> QED  BY <1>2, <1>3, <1>5, <1>6, <1>7, <1>8 DEF Runs, ref

\* The types of what the vat has.
VatTypes(x) ==
    /\ x.waiting \in [Promises -> Seq(CallSet)]
    /\ x.running \subseteq [n : Nat, questionID : Nat]
    /\ x.executed \in Seq([n : Nat, object : Objects, args : Seq(Passed)])
    /\ x.toClient \in Seq(ToClientSet)

\* What the vat has stays right while the client goes on.
LEMMA VatSideStays ==
    ASSUME NEW w, NEW st, NEW v, NEW new, Further(w, st, v, new), KnownWell(w),
           st.answer \in [Session!Numbers -> Seq(SlotSet)], MadeWell(w), MadeWell(v),
           w.taken \in Nat, v.taken \in Nat, w.taken <= v.taken, v.settled = w.settled,
           \A k \in 1..w.taken : st.questions[k] \in DOMAIN w.made /\ new.questions[k] = st.questions[k],
           NEW x, VatTypes(x), PlacesWell(w, st, x), WaitingWell(w, st, x), ExecutedWell(w, st, x),
           NEW y, y.waiting = x.waiting, y.running = x.running, y.executed = x.executed,
           ReturnsWell(w, y.toClient), \A id \in Nat : Returned(y, id) => Returned(x, id)
    PROVE  PlacesWell(v, new, y) /\ WaitingWell(v, new, y) /\ ExecutedWell(v, new, y)
<1>1. ASSUME NEW p \in Promises, NEW i \in DOMAIN x.waiting[p]
      PROVE  /\ x.waiting[p][i].questionID \in 1..w.taken
             /\ x.waiting[p][i].n = st.questions[x.waiting[p][i].questionID]
             /\ x.waiting[p][i].n \in DOMAIN w.made
             /\ CallWell(w, st, x.waiting[p][i])
             /\ w.known[x.waiting[p][i].target] = p /\ w.settled[p] = Session!Unsettled
  BY DEF PlacesWell, WaitingWell
<1>2. WaitingWell(v, new, y)
  <2>1. w.made \in Seq(MadeSet) /\ v.made \in Seq(MadeSet)  BY DEF MadeWell
  <2>2. ASSUME NEW p \in Promises, NEW i \in DOMAIN x.waiting[p]
        PROVE  /\ CallWell(v, new, x.waiting[p][i])
               /\ v.known[x.waiting[p][i].target] = w.known[x.waiting[p][i].target]
    <3>1. PICK m : m = x.waiting[p][i]  OBVIOUS
    <3>2. m.n \in DOMAIN w.made /\ CallWell(w, st, m)  BY <1>1, <3>1
    <3>3. CallWell(v, new, m) /\ v.known[m.target] = w.known[m.target]
      BY <2>1, <3>2, CallStays
    <3> QED  BY <3>1, <3>3
  <2> QED  BY <1>1, <2>2 DEF WaitingWell
<1>3. ASSUME NEW i \in DOMAIN x.executed  PROVE x.executed[i].object \in Objects
  <2>1. PICK done : done = x.executed  OBVIOUS
  <2>2. PICK E : E = [n : Nat, object : Objects, args : Seq(Passed)]  OBVIOUS
  <2>3. done \in Seq(E) /\ i \in DOMAIN done  BY <2>1, <2>2 DEF VatTypes
  <2>4. done[i] \in E  BY <2>3
  <2> QED  BY <2>1, <2>2, <2>4
<1>4. ASSUME NEW i \in DOMAIN x.executed
      PROVE  /\ Runs(v, new, x.executed[i])
             /\ Ref(v, x.executed[i].n) = Ref(w, x.executed[i].n)
  <2>1. PICK e : e = x.executed[i]  OBVIOUS
  <2>2. e.object \in Objects /\ Runs(w, st, e)  BY <1>3, <2>1 DEF ExecutedWell
  <2>3. Runs(v, new, e) /\ Ref(v, e.n) = Ref(w, e.n)  BY <2>2, RunsStay
  <2> QED  BY <2>1, <2>3
<1>5. \A p \in Promises : \A i \in DOMAIN x.waiting[p] : Ref(v, x.waiting[p][i].n) = Ref(w, x.waiting[p][i].n)
  BY <1>1 DEF Further, Ref
<1>6. ExecutedWell(v, new, y)
  <2>1. \A i \in DOMAIN y.executed : Runs(v, new, y.executed[i])  BY <1>4
  <2>2. \A i, j \in DOMAIN y.executed :
          j < i /\ Ref(v, y.executed[j].n) = Ref(v, y.executed[i].n)
            => y.executed[j].n < y.executed[i].n
    BY <1>4 DEF ExecutedWell
  <2>3. \A i \in DOMAIN y.executed : \A p \in Promises : \A j \in DOMAIN y.waiting[p] :
          Ref(v, y.waiting[p][j].n) = Ref(v, y.executed[i].n) => y.executed[i].n < y.waiting[p][j].n
    BY <1>4, <1>5 DEF ExecutedWell
  <2> QED  BY <2>1, <2>2, <2>3 DEF ExecutedWell
<1>7. PlacesWell(v, new, y)
  <2>0. \A id \in 1..w.taken : id \in 1..v.taken  OBVIOUS
  <2>1. ReturnsWell(v, y.toClient)  BY <2>0 DEF ReturnsWell
  <2>2. \A id \in Nat : (Waited(y, id) <=> Waited(x, id)) /\ (Ran(y, id) <=> Ran(x, id))
    BY DEF Waited, Ran
  <2>3. \A id \in Nat : /\ Waited(y, id) => ~Ran(y, id) /\ ~Returned(y, id)
                        /\ Ran(y, id) => ~Returned(y, id)
    BY <2>2 DEF PlacesWell
  <2>4. \A c \in y.running : c.questionID \in 1..v.taken /\ c.n = new.questions[c.questionID]
    BY <2>0 DEF PlacesWell
  <2>5. ASSUME NEW p \in Promises, NEW i \in DOMAIN y.waiting[p]
        PROVE  /\ y.waiting[p][i].questionID \in 1..v.taken
               /\ y.waiting[p][i].n = new.questions[y.waiting[p][i].questionID]
               /\ \A q \in Promises : \A j \in DOMAIN y.waiting[q] :
                    y.waiting[p][i].questionID = y.waiting[q][j].questionID => p = q
               /\ \A j \in DOMAIN y.waiting[p] :
                    i < j => y.waiting[p][i].questionID < y.waiting[p][j].questionID
    BY <1>1, <2>0 DEF PlacesWell
  <2> QED  BY <2>1, <2>3, <2>4, <2>5 DEF PlacesWell
<1> QED  BY <1>2, <1>6, <1>7

\* A call that the client makes has the next number.
MakesCall(w, v, x) ==
    /\ Len(w.made) < MaxCalls /\ x \in MadeSet /\ x.args \in Seq(DOMAIN w.known)
    /\ x.ref.of = "slot" => x.ref.slot \in DOMAIN w.known
    /\ x.ref.of = "answer" => x.ref.n \in DOMAIN w.made
    /\ v.made = Append(w.made, x) /\ v.known = w.known /\ v.settled = w.settled
    /\ v.taken = w.taken

\* What that leaves of what there was.
IsMade(w, st, v, x, N) ==
    /\ MadeWell(v) /\ KnownWell(v) /\ Further(w, st, v, st)
    /\ DOMAIN v.made \ DOMAIN w.made = {N} /\ N \in DOMAIN v.made /\ v.made[N] = x
    /\ N \in Nat /\ N \notin DOMAIN w.made /\ N \in Session!Numbers
    /\ \A n \in DOMAIN w.made : n < N

\* The call made is new, and the last.
LEMMA CallMade ==
    ASSUME NEW w, NEW st, KnownWell(w), MadeWell(w), NEW x, NEW v, MakesCall(w, v, x),
           NEW N, N = Len(w.made) + 1
    PROVE  IsMade(w, st, v, x, N)
<1>1. PICK made_w : made_w = w.made  OBVIOUS
<1>2. PICK made_v : made_v = v.made  OBVIOUS
<1>3. made_w \in Seq(MadeSet) /\ Len(made_w) <= MaxCalls /\ Len(made_w) < MaxCalls
      /\ x \in MadeSet /\ made_v = Append(made_w, x) /\ N = Len(made_w) + 1 /\ MaxCalls \in Nat
  BY <1>1, <1>2, SessionAssumption DEF MadeWell, MakesCall
<1>4. /\ made_v \in Seq(MadeSet) /\ Len(made_v) = N /\ N \in Nat /\ N <= MaxCalls
      /\ N \in DOMAIN made_v /\ N \notin DOMAIN made_w /\ made_v[N] = x
      /\ \A i \in DOMAIN made_w : i \in DOMAIN made_v /\ made_v[i] = made_w[i] /\ i < N
      /\ \A i \in DOMAIN made_v : i = N \/ i \in DOMAIN made_w
      /\ Len(made_w) <= Len(made_v) /\ N \in 1..MaxCalls
  <2>1. PICK S : S = MadeSet  OBVIOUS
  <2>2. made_w \in Seq(S) /\ x \in S /\ made_v = Append(made_w, x) /\ N = Len(made_w) + 1
        /\ Len(made_w) < MaxCalls /\ MaxCalls \in Nat
    BY <1>3, <2>1
  <2>3. /\ made_v \in Seq(S) /\ Len(made_w) \in Nat
        /\ Len(made_v) = Len(made_w) + 1 /\ Len(made_w) + 1 \in Nat
        /\ Len(made_w) + 1 \in DOMAIN made_v /\ Len(made_w) + 1 \notin DOMAIN made_w
        /\ made_v[Len(made_w) + 1] = x
        /\ \A i \in DOMAIN made_w : i \in DOMAIN made_v /\ made_v[i] = made_w[i] /\ i < Len(made_w) + 1
        /\ \A i \in DOMAIN made_v : i = Len(made_w) + 1 \/ i \in DOMAIN made_w
    BY <2>2, AppendIs
  <2>4. \A a, b \in Nat : a < b => a + 1 <= b /\ a <= a + 1 /\ a + 1 \in 1..b  OBVIOUS
  <2>5. N <= MaxCalls /\ Len(made_w) <= N /\ N \in 1..MaxCalls  BY <2>2, <2>3, <2>4
  <2> QED  BY <2>1, <2>2, <2>3, <2>5
<1>5. /\ v.known = w.known /\ v.settled = w.settled /\ v.taken = w.taken
      /\ x.args \in Seq(DOMAIN w.known)
      /\ x.ref.of = "slot" => x.ref.slot \in DOMAIN w.known
      /\ x.ref.of = "answer" => x.ref.n \in DOMAIN w.made
  BY DEF MakesCall
<1>6. DOMAIN v.made \ DOMAIN w.made = {N}  BY <1>1, <1>2, <1>4
<1>7. KnownWell(v)  BY <1>5 DEF KnownWell
<1>8. Further(w, st, v, st)  BY <1>1, <1>2, <1>4, <1>5 DEF Further
<1>9. MadeWell(v)
  <2>1. ASSUME NEW n \in DOMAIN v.made
        PROVE  /\ v.made[n].args \in Seq(DOMAIN v.known)
               /\ v.made[n].ref.of = "slot" => v.made[n].ref.slot \in DOMAIN v.known
               /\ v.made[n].ref.of = "answer" => v.made[n].ref.n \in 1..(n - 1)
    <3>1. CASE n = N
      <4>1. v.made[n] = x  BY <1>2, <1>4, <3>1
      <4>2. DOMAIN w.made = 1..(N - 1)  BY <1>1, <1>3, <1>4
      <4> QED  BY <1>5, <3>1, <4>1, <4>2
    <3>2. CASE n # N
      <4>1. n \in DOMAIN w.made /\ v.made[n] = w.made[n]  BY <1>1, <1>2, <1>4, <3>2
      <4> QED  BY <1>5, <4>1 DEF MadeWell
    <3> QED  BY <3>1, <3>2
  <2>2. v.made \in Seq(MadeSet) /\ Len(v.made) <= MaxCalls  BY <1>2, <1>4
  <2> QED  BY <2>1, <2>2 DEF MadeWell
<1> QED  BY <1>1, <1>2, <1>4, <1>6, <1>7, <1>8, <1>9 DEF Session!Numbers, IsMade

\* What a call that is made does to the state of the client.
CallKept(w, st, v, new, open) ==
    /\ IsState(new) /\ ClientInv(v, new, {}, open) /\ NoneLeft(new) /\ Further(w, st, v, new)
    /\ MadeWell(v) /\ KnownWell(v) /\ new.resolved = st.resolved
    /\ \A i \in DOMAIN st.questions : i \in DOMAIN new.questions /\ new.questions[i] = st.questions[i]

\* A call that is handled at once, or waits.
LEMMA CallKeeps ==
    ASSUME NEW w, NEW st, NEW open, KnownWell(w), MadeWell(w), IsState(st), NoneLeft(st),
           ResolvedWell(w, st.resolved), ClientInv(w, st, {}, open),
           NEW x, NEW v, MakesCall(w, v, x), x.ref.of \in {"slot", "answer"},
           NEW N, N = Len(w.made) + 1,
           NEW new, new = Session!Handle(st, [n |-> N, ref |-> x.ref, args |-> x.args])
    PROVE  CallKept(w, st, v, new, open)
<1>0. IsMade(w, st, v, x, N)  BY CallMade
<1>1. /\ MadeWell(v) /\ KnownWell(v) /\ Further(w, st, v, st)
      /\ DOMAIN v.made \ DOMAIN w.made = {N} /\ N \in DOMAIN v.made /\ v.made[N] = x
      /\ N \in Nat /\ N \notin DOMAIN w.made /\ N \in Session!Numbers
      /\ \A n \in DOMAIN w.made : n < N
  BY <1>0 DEF IsMade
<1>2. PICK c : c = [n |-> N, ref |-> x.ref, args |-> x.args]  OBVIOUS
<1>3. v.taken = w.taken /\ v.known = w.known /\ v.settled = w.settled  BY DEF MakesCall
<1>4. ClientInv(v, st, {N}, open)  BY <1>1, <1>3, ClientGoesOn
<1>5. ResolvedWell(v, st.resolved)  BY <1>3 DEF ResolvedWell
<1>6. QuestionsWell(w, st) /\ LaterWell(w, st, {}) /\ AnswersWell(w, st, {}, open)  BY DEF ClientInv
<1>7. \A k \in Session!Numbers : \A i \in DOMAIN st.postponed[k] :
         st.postponed[k][i].n \in DOMAIN w.made /\ k < st.postponed[k][i].n
  BY <1>6, WaiterIs DEF Waiter
<1>8. \A i \in DOMAIN st.questions : st.questions[i] \in DOMAIN w.made  BY <1>6 DEF QuestionsWell
<1>9. InHand(v, st, {N}, c)
  <2>1. c.n = N /\ c.ref = x.ref /\ c.args = x.args  BY <1>2
  <2>2. Ref(v, N) = x.ref  BY <1>1 DEF Ref
  <2>3. \A i \in DOMAIN st.questions : st.questions[i] < N  BY <1>1, <1>8
  <2>4. c.ref.of = "answer" =>
          \A j \in DOMAIN st.postponed[c.ref.n] : st.postponed[c.ref.n][j].n < N
    <3>1. ASSUME x.ref.of = "answer"  PROVE x.ref.n \in Session!Numbers
      BY <1>1, <2>2, <3>1, RefIs
    <3> QED  BY <1>1, <1>7, <2>1, <3>1
  <2>5. c = [n |-> c.n, ref |-> c.ref, args |-> c.args]  BY <1>2
  <2> QED  BY <1>1, <2>1, <2>2, <2>3, <2>4, <2>5 DEF InHand
<1>10. IsState(new) /\ ClientInv(v, new, {N} \ {c.n}, open) /\ Moved(st, c, new)
  BY <1>1, <1>2, <1>4, <1>5, <1>9, HandleKeeps
<1>11. c.n = N /\ {N} \ {c.n} = {}  BY <1>2
<1>12. st.answer[N] = Session!NoAnswer  BY <1>1, <1>6 DEF AnswersWell
<1>13. \A k \in Session!Numbers : k # N => new.answer[k] = st.answer[k]
  BY <1>10, <1>11 DEF Moved
<1>14. Further(w, st, v, new)
  <2>1. \A k \in Session!Numbers : st.answer[k] # Session!NoAnswer => new.answer[k] = st.answer[k]
    BY <1>12, <1>13
  <2> QED  BY <1>1, <2>1 DEF Further
<1>15. NoneLeft(new)
  <2>1. ASSUME NEW k \in Session!Numbers, new.postponed[k] # <<>>
        PROVE  new.answer[k] = Session!NoAnswer
    <3>1. CASE new.postponed[k] # st.postponed[k]  BY <1>10, <3>1 DEF Moved
    <3>2. CASE new.postponed[k] = st.postponed[k]
      <4>1. st.postponed[k] # <<>> /\ st.answer[k] = Session!NoAnswer
        BY <2>1, <3>2 DEF NoneLeft
      <4>2. k # N
        <5>1. st.postponed[k] \in Seq(LaterSet)  BY <1>6 DEF LaterWell
        <5>2. 1 \in DOMAIN st.postponed[k]  BY <4>1, <5>1
        <5>3. st.postponed[k][1].n \in DOMAIN w.made /\ k < st.postponed[k][1].n  BY <1>7, <5>2
        <5>4. st.postponed[k][1].n < N /\ st.postponed[k][1].n \in Nat
          <6>1. w.made \in Seq(MadeSet)  BY DEF MadeWell
          <6>2. \A n \in DOMAIN w.made : n \in Nat  BY <6>1
          <6> QED  BY <1>1, <5>3, <6>2
        <5> QED  BY <1>1, <5>3, <5>4
      <4> QED  BY <1>13, <4>1, <4>2
    <3> QED  BY <3>1, <3>2
  <2> QED  BY <2>1 DEF NoneLeft
<1> QED  BY <1>1, <1>10, <1>11, <1>14, <1>15 DEF CallKept, Moved

\* A bootstrap has its question at once.
LEMMA BootstrapKeeps ==
    ASSUME NEW w, NEW st, NEW open, KnownWell(w), MadeWell(w), IsState(st), NoneLeft(st),
           ClientInv(w, st, {}, open),
           NEW x, NEW v, MakesCall(w, v, x), x.ref = Session!BootRef,
           NEW N, N = Len(w.made) + 1,
           NEW new, new = [questions |-> Append(st.questions, N),
                           toVat |-> Append(st.toVat, [type |-> "CTP_BOOTSTRAP",
                                                       questionID |-> Len(st.questions) + 1, n |-> N]),
                           answer |-> st.answer, postponed |-> st.postponed,
                           resolved |-> st.resolved]
    PROVE  CallKept(w, st, v, new, open)
<1>0. IsMade(w, st, v, x, N)  BY CallMade
<1>1. /\ MadeWell(v) /\ KnownWell(v) /\ Further(w, st, v, st)
      /\ DOMAIN v.made \ DOMAIN w.made = {N} /\ N \in DOMAIN v.made /\ v.made[N] = x
      /\ N \in Nat /\ N \notin DOMAIN w.made /\ N \in Session!Numbers
      /\ \A n \in DOMAIN w.made : n < N
  BY <1>0 DEF IsMade
<1>2. PICK m : m = [type |-> "CTP_BOOTSTRAP", questionID |-> Len(st.questions) + 1, n |-> N]  OBVIOUS
<1>3. v.taken = w.taken  BY DEF MakesCall
<1>4. ClientInv(v, st, {N}, open)  BY <1>1, <1>3, ClientGoesOn
<1>5. st.questions \in Seq(DOMAIN w.made)  BY DEF ClientInv, QuestionsWell
<1>6. Len(st.questions) + 1 \in Nat /\ \A i \in DOMAIN st.questions : st.questions[i] \in DOMAIN w.made
  <2>1. PICK S : S = DOMAIN w.made  OBVIOUS
  <2>2. st.questions \in Seq(S)  BY <1>5, <2>1
  <2> QED  BY <2>1, <2>2
<1>7. Asks(v, st, {N}, N, m, new)
  <2>1. Ref(v, N).of = "bootstrap"  BY <1>1 DEF Ref, Session!BootRef
  <2>2. m \in ToVatSet /\ m.questionID = Len(st.questions) + 1 /\ m.n = N /\ m.type # "CTP_CALL"
    BY <1>1, <1>2, <1>6 DEF ToVatSet
  <2>3. \A i \in DOMAIN st.questions : st.questions[i] < N  BY <1>1, <1>6
  <2>4. new = [questions |-> Append(st.questions, N), toVat |-> Append(st.toVat, m),
               answer |-> st.answer, postponed |-> st.postponed, resolved |-> st.resolved]
    BY <1>2
  <2> QED  BY <1>1, <2>1, <2>2, <2>3, <2>4 DEF Asks
<1>8. ClientInv(v, new, {N} \ {N}, open)  BY <1>1, <1>4, <1>7, AsksKeeps
<1>9. {N} \ {N} = {}  OBVIOUS
<1>10. /\ new.questions = Append(st.questions, N) /\ new.answer = st.answer
       /\ new.postponed = st.postponed /\ new.resolved = st.resolved /\ IsState(new)
  BY DEF IsState
<1>11. \A i \in DOMAIN st.questions : i \in DOMAIN new.questions /\ new.questions[i] = st.questions[i]
  <2>1. PICK S : S = Nat  OBVIOUS
  <2>2. st.questions \in Seq(S)
    <3>1. PICK T : T = DOMAIN w.made  OBVIOUS
    <3>2. w.made \in Seq(MadeSet)  BY DEF MadeWell
    <3>3. T \subseteq S  BY <2>1, <3>1, <3>2
    <3>4. st.questions \in Seq(T)  BY <1>5, <3>1
    <3> QED  BY <3>3, <3>4
  <2> QED  BY <1>10, <2>2
<1>12. Further(w, st, v, new)  BY <1>1, <1>10 DEF Further
<1>13. NoneLeft(new)  BY <1>10 DEF NoneLeft
<1> QED  BY <1>1, <1>8, <1>9, <1>10, <1>11, <1>12, <1>13 DEF CallKept

\* What the invariant says of the two ends, for the lemmas above.
LEMMA EndsAre ==
    ASSUME SessionInv
    PROVE  /\ VatTypes(Vat) /\ KnownWell(World) /\ MadeWell(World) /\ IsState(Session!Client)
           /\ ClientInv(World, Session!Client, {}, Open(Vat)) /\ NoneLeft(Session!Client)
           /\ ResolvedWell(World, Session!Client.resolved)
           /\ PlacesWell(World, Session!Client, Vat) /\ WaitingWell(World, Session!Client, Vat)
           /\ ExecutedWell(World, Session!Client, Vat) /\ ReturnsWell(World, Vat.toClient)
           /\ World.taken \in Nat /\ World.taken <= Len(questions)
           /\ Session!Client.answer \in [Session!Numbers -> Seq(SlotSet)]
           /\ \A k \in 1..World.taken :
                /\ k \in DOMAIN questions
                /\ Session!Client.questions[k] \in DOMAIN World.made
<1>1. VatTypes(Vat)  BY DEF SessionInv, SessionTypes, VatTypes, Vat
<1>2. IsState(Session!Client)  BY DEF IsState, Session!Client
<1>3. ResolvedWell(World, Session!Client.resolved)  BY DEF SessionInv, Session!Client
<1>4. /\ KnownWell(World) /\ MadeWell(World)
      /\ ClientInv(World, Session!Client, {}, Open(Vat)) /\ NoneLeft(Session!Client)
      /\ PlacesWell(World, Session!Client, Vat) /\ WaitingWell(World, Session!Client, Vat)
      /\ ExecutedWell(World, Session!Client, Vat)
  BY DEF SessionInv
<1>5. ReturnsWell(World, Vat.toClient)  BY <1>4 DEF PlacesWell
<1>6. PICK w : w = World  OBVIOUS
<1>7. PICK st : st = Session!Client  OBVIOUS
<1>8. /\ st.questions \in Seq(DOMAIN w.made) /\ st.toVat \in Seq(ToVatSet)
      /\ w.taken \in Nat /\ Len(st.questions) = w.taken + Len(st.toVat)
      /\ st.answer \in [Session!Numbers -> Seq(SlotSet)]
  BY <1>4, <1>6, <1>7 DEF ClientInv, QuestionsWell, ToVatWell, AnswersWell
<1>9. /\ w.taken <= Len(st.questions)
      /\ \A k \in 1..w.taken : k \in DOMAIN st.questions /\ st.questions[k] \in DOMAIN w.made
  <2>1. PICK S : S = DOMAIN w.made  OBVIOUS
  <2>2. PICK s : s = st.questions  OBVIOUS
  <2>3. PICK t : t = st.toVat  OBVIOUS
  <2>4. s \in Seq(S) /\ Len(t) \in Nat /\ w.taken \in Nat /\ Len(s) = w.taken + Len(t)
    BY <1>8, <2>1, <2>2, <2>3
  <2>5. /\ w.taken <= Len(s)
        /\ \A k \in 1..w.taken : k \in DOMAIN s /\ s[k] \in S
    BY <2>4
  <2> QED  BY <2>1, <2>2, <2>5
<1>10. st.questions = questions  BY <1>7 DEF Session!Client
<1> QED  BY <1>1, <1>2, <1>3, <1>4, <1>5, <1>6, <1>7, <1>8, <1>9, <1>10

\* A step in which the client calls keeps the invariant.
LEMMA AfterCall ==
    ASSUME SessionInv,
           UNCHANGED <<exports, settled, waiting, running, executed, toClient, known, torn, thrown>>,
           World'.taken = World.taken,
           CallKept(World, Session!Client, World', Session!Client', Open(Vat))
    PROVE  SessionInv'
<1>1. PICK w : w = World  OBVIOUS
<1>2. PICK v : v = World'  OBVIOUS
<1>3. PICK st : st = Session!Client  OBVIOUS
<1>4. PICK new : new = Session!Client'  OBVIOUS
<1>5. PICK x : x = Vat  OBVIOUS
<1>6. Vat' = x  BY <1>5 DEF Vat
<1>7. /\ IsState(new) /\ ClientInv(v, new, {}, Open(x)) /\ NoneLeft(new) /\ Further(w, st, v, new)
      /\ MadeWell(v) /\ KnownWell(v) /\ new.resolved = st.resolved
      /\ \A i \in DOMAIN st.questions : i \in DOMAIN new.questions /\ new.questions[i] = st.questions[i]
  BY <1>1, <1>2, <1>3, <1>4, <1>5 DEF CallKept
<1>8. v.known = w.known /\ v.settled = w.settled /\ v.taken = w.taken
  BY <1>1, <1>2 DEF World
<1>9. /\ VatTypes(x) /\ KnownWell(w) /\ MadeWell(w) /\ ResolvedWell(w, st.resolved)
      /\ PlacesWell(w, st, x) /\ WaitingWell(w, st, x) /\ ExecutedWell(w, st, x)
      /\ ReturnsWell(w, x.toClient) /\ w.taken \in Nat
      /\ st.answer \in [Session!Numbers -> Seq(SlotSet)]
  BY <1>1, <1>3, <1>5, EndsAre
<1>10. \A k \in 1..w.taken : k \in DOMAIN st.questions /\ st.questions[k] \in DOMAIN w.made
  BY <1>1, <1>3, EndsAre DEF Session!Client
<1>11. PlacesWell(v, new, x) /\ WaitingWell(v, new, x) /\ ExecutedWell(v, new, x)
  BY <1>7, <1>8, <1>9, <1>10, VatSideStays
<1>12. ResolvedWell(v, new.resolved)  BY <1>7, <1>8, <1>9 DEF ResolvedWell
<1>13. resolved' = new.resolved /\ resolved = st.resolved  BY <1>3, <1>4 DEF Session!Client
<1>14. SessionTypes' /\ GoodExports(exports') /\ HoldsSlots'
  <2>1. SessionTypes /\ GoodExports(exports) /\ HoldsSlots  BY DEF SessionInv
  <2>2. SessionTypes'  BY <2>1 DEF SessionTypes, Session!Range
  <2>3. HoldsSlots'  BY <2>1 DEF HoldsSlots
  <2>4. GoodExports(exports')  BY <2>1
  <2> QED  BY <2>2, <2>3, <2>4
<1>15. MessagesWell'  BY DEF SessionInv, MessagesWell
<1>16. PromisesWell'
  <2>1. resolved' = resolved  BY <1>7, <1>13
  <2>2. PromisesWell  BY DEF SessionInv
  <2>3. \A id, n : SlotComes(id, n)' <=> SlotComes(id, n)  BY DEF SlotComes, Session!Range
  <2> QED  BY <2>1, <2>2, <2>3 DEF PromisesWell
<1>17. /\ ResolvedWell(World', resolved') /\ KnownWell(World') /\ MadeWell(World')
       /\ ClientInv(World', Session!Client', {}, Open(Vat')) /\ NoneLeft(Session!Client')
       /\ PlacesWell(World', Session!Client', Vat') /\ WaitingWell(World', Session!Client', Vat')
       /\ ExecutedWell(World', Session!Client', Vat')
  BY <1>2, <1>4, <1>6, <1>7, <1>11, <1>12, <1>13
<1> QED  BY <1>14, <1>15, <1>16, <1>17 DEF SessionInv

\* GetBootstrap keeps the invariant.
LEMMA GetBootstrapKeeps ==
    ASSUME SessionInv, Session!GetBootstrap
    PROVE  SessionInv'
<1> DEFINE N == Len(made) + 1
           x == [ref |-> Session!BootRef, args |-> <<>>]
<1>1. /\ Len(made) < MaxCalls
      /\ made' = Append(made, x)
      /\ questions' = Append(questions, N)
      /\ toVat' = Append(toVat, [type |-> "CTP_BOOTSTRAP", questionID |-> Len(questions) + 1, n |-> N])
      /\ UNCHANGED <<exports, settled, waiting, running, executed, toClient, answer, postponed,
                     known, resolved, torn, thrown>>
  BY DEF Session!GetBootstrap
<1>2. PICK w : w = World  OBVIOUS
<1>3. PICK v : v = World'  OBVIOUS
<1>4. PICK st : st = Session!Client  OBVIOUS
<1>5. PICK new : new = Session!Client'  OBVIOUS
<1>6. /\ KnownWell(w) /\ MadeWell(w) /\ IsState(st) /\ NoneLeft(st) /\ ClientInv(w, st, {}, Open(Vat))
  BY <1>2, <1>4, EndsAre
<1>7. /\ w.made = made /\ w.known = known /\ w.settled = settled
      /\ w.taken = Len(questions) - Len(toVat)
      /\ v.made = made' /\ v.known = known' /\ v.settled = settled'
      /\ v.taken = Len(questions') - Len(toVat')
  BY <1>2, <1>3 DEF World
<1>8. /\ st.questions = questions /\ st.toVat = toVat /\ st.answer = answer
      /\ st.postponed = postponed /\ st.resolved = resolved
      /\ new = [questions |-> questions', toVat |-> toVat', answer |-> answer',
                postponed |-> postponed', resolved |-> resolved']
  BY <1>4, <1>5 DEF Session!Client
<1>9. v.taken = w.taken
  <2>1. questions \in Seq(DOMAIN w.made) /\ toVat \in Seq(ToVatSet)
    BY <1>6, <1>8 DEF ClientInv, QuestionsWell, ToVatWell
  <2>2. Len(questions') = Len(questions) + 1 /\ Len(questions) \in Nat
    <3>1. PICK S : S = DOMAIN w.made  OBVIOUS
    <3> QED  BY <1>1, <2>1, <3>1, AppendProperties
  <2>3. Len(toVat') = Len(toVat) + 1 /\ Len(toVat) \in Nat
    <3>1. PICK S : S = ToVatSet  OBVIOUS
    <3> QED  BY <1>1, <2>1, <3>1, AppendProperties
  <2> QED  BY <1>7, <2>2, <2>3
<1>10. MakesCall(w, v, x)
  <2>1. x \in MadeSet /\ x.args \in Seq(DOMAIN w.known) /\ x.ref.of = "bootstrap"
    BY DEF MadeSet, RefSet, Session!BootRef
  <2> HIDE DEF x
  <2> QED  BY <1>1, <1>7, <1>9, <2>1 DEF MakesCall
<1>11. CallKept(w, st, v, new, Open(Vat))
  <2>1. x.ref = Session!BootRef  OBVIOUS
  <2>2. N = Len(w.made) + 1  BY <1>7
  <2>3. new = [questions |-> Append(st.questions, N),
               toVat |-> Append(st.toVat, [type |-> "CTP_BOOTSTRAP",
                                           questionID |-> Len(st.questions) + 1, n |-> N]),
               answer |-> st.answer, postponed |-> st.postponed, resolved |-> st.resolved]
    BY <1>1, <1>8
  <2> HIDE DEF x, N
  <2> QED  BY <1>6, <1>10, <2>1, <2>2, <2>3, BootstrapKeeps
<1>12. CallKept(World, Session!Client, World', Session!Client', Open(Vat)) /\ World'.taken = World.taken
  BY <1>2, <1>3, <1>4, <1>5, <1>9, <1>11
<1> QED  BY <1>1, <1>12, AfterCall

\* A call keeps the invariant.
LEMMA CallKeepsInv ==
    ASSUME SessionInv, NEW ref \in Session!Refs,
           NEW with \in {<<>>} \cup {<<s>> : s \in DOMAIN known}, Session!Call(ref, with)
    PROVE  SessionInv'
<1> DEFINE N == Len(made) + 1
           x == [ref |-> ref, args |-> with]
<1>1. /\ Len(made) < MaxCalls
      /\ made' = Append(made, x)
      /\ Session!Becomes(Session!Handle(Session!Client, [n |-> N, ref |-> ref, args |-> with]))
      /\ UNCHANGED <<exports, settled, waiting, running, executed, toClient, known, torn, thrown>>
  BY DEF Session!Call
<1>2. PICK w : w = World  OBVIOUS
<1>3. PICK v : v = World'  OBVIOUS
<1>4. PICK st : st = Session!Client  OBVIOUS
<1>5. PICK new : new = Session!Handle(st, [n |-> N, ref |-> ref, args |-> with])  OBVIOUS
<1>6. /\ KnownWell(w) /\ MadeWell(w) /\ IsState(st) /\ NoneLeft(st) /\ ClientInv(w, st, {}, Open(Vat))
      /\ ResolvedWell(w, st.resolved) /\ w.taken \in Nat
  BY <1>2, <1>4, EndsAre
<1>7. /\ w.made = made /\ w.known = known /\ w.settled = settled
      /\ w.taken = Len(questions) - Len(toVat)
      /\ v = [made |-> made', known |-> known', settled |-> settled',
              taken |-> Len(questions') - Len(toVat')]
  BY <1>2, <1>3 DEF World
<1>8. /\ st.questions = questions /\ st.toVat = toVat /\ st.answer = answer
      /\ st.postponed = postponed /\ st.resolved = resolved
      /\ Session!Client' = [questions |-> questions', toVat |-> toVat', answer |-> answer',
                            postponed |-> postponed', resolved |-> resolved']
  BY <1>4 DEF Session!Client
<1>9. /\ questions' = new.questions /\ toVat' = new.toVat /\ answer' = new.answer
      /\ postponed' = new.postponed /\ resolved' = new.resolved
  BY <1>1, <1>4, <1>5 DEF Session!Becomes
<1>10. PICK u : u = [made |-> made', known |-> known, settled |-> settled, taken |-> w.taken]  OBVIOUS
<1>11. ref.of \in {"slot", "answer"} /\ MakesCall(w, u, x)
  <2>1. \A s \in DOMAIN w.known : s \in SlotSet  BY <1>6 DEF KnownWell, SlotSet
  <2>2. with \in Seq(DOMAIN w.known) /\ with \in Seq(SlotSet)
    <3>1. CASE with = <<>>  BY <3>1
    <3>2. CASE with # <<>>
      <4>1. PICK s \in DOMAIN known : with = <<s>>  BY <3>2
      <4> QED  BY <1>7, <2>1, <4>1
    <3> QED  BY <3>1, <3>2
  <2>3. CASE \E s \in DOMAIN known : ref = Session!SlotRef(s)
    <3>1. PICK s \in DOMAIN known : ref = [of |-> "slot", slot |-> s]
      BY <2>3 DEF Session!SlotRef
    <3>2. ref \in RefSet /\ ref.of = "slot" /\ ref.slot \in DOMAIN w.known
      BY <1>7, <2>1, <3>1 DEF RefSet
    <3>3. x \in MadeSet /\ x.args = with /\ x.ref = ref  BY <2>2, <3>2 DEF MadeSet
    <3> HIDE DEF x
    <3> QED  BY <1>1, <1>7, <1>10, <2>2, <3>2, <3>3 DEF MakesCall
  <2>4. CASE ref \in {Session!MemberRef(n, k) : n \in {n \in DOMAIN made : answer[n] # Session!Failed}, k \in 1..2}
    <3>1. PICK n \in DOMAIN made, k \in 1..2 : ref = [of |-> "answer", n |-> n, k |-> k]
      BY <2>4 DEF Session!MemberRef
    <3>2. n \in Nat
      <4>1. w.made \in Seq(MadeSet)  BY <1>6 DEF MadeWell
      <4> QED  BY <1>7, <4>1
    <3>3. ref \in RefSet /\ ref.of = "answer" /\ ref.n \in DOMAIN w.made
      BY <1>7, <3>1, <3>2 DEF RefSet
    <3>4. x \in MadeSet /\ x.args = with /\ x.ref = ref  BY <2>2, <3>3 DEF MadeSet
    <3> HIDE DEF x
    <3> QED  BY <1>1, <1>7, <1>10, <2>2, <3>3, <3>4 DEF MakesCall
  <2> QED  BY <2>3, <2>4 DEF Session!Refs
<1>12. CallKept(w, st, u, new, Open(Vat))
  <2>1. x.ref = ref /\ x.args = with /\ N = Len(w.made) + 1  BY <1>7
  <2> HIDE DEF x, N
  <2> QED  BY <1>5, <1>6, <1>11, <2>1, CallKeeps
<1>13. Len(questions') - Len(toVat') = w.taken
  <2>1. ToVatWell(u, new) /\ QuestionsWell(u, new)  BY <1>12 DEF CallKept, ClientInv
  <2>2. /\ new.toVat \in Seq(ToVatSet) /\ Len(new.questions) = u.taken + Len(new.toVat)
    BY <2>1 DEF ToVatWell
  <2>3. u.taken = w.taken /\ Len(new.toVat) \in Nat  BY <1>10, <2>2
  <2> QED  BY <1>6, <1>9, <2>2, <2>3
<1>14. v = u  BY <1>1, <1>7, <1>10, <1>13
<1>15. Session!Client' = new  BY <1>8, <1>9, <1>12 DEF CallKept, IsState
<1>16. CallKept(World, Session!Client, World', Session!Client', Open(Vat)) /\ World'.taken = World.taken
  BY <1>2, <1>3, <1>4, <1>10, <1>12, <1>14, <1>15
<1> QED  BY <1>1, <1>16, AfterCall

\* A message that is taken is no longer on its way, and the others follow.
TailOf(s, t) ==
    /\ Len(s) \in Nat /\ Len(t) \in Nat /\ Len(s) = Len(t) + 1 /\ 1 \in DOMAIN s
    /\ DOMAIN s = 1..Len(s) /\ DOMAIN t = 1..Len(t)
    /\ \A i \in DOMAIN t : i \in Nat /\ i + 1 \in DOMAIN s /\ t[i] = s[i + 1]
    /\ \A i \in DOMAIN s : i \in Nat /\ (i = 1 \/ (i - 1 \in DOMAIN t /\ t[i - 1] = s[i]))

\* The rest of a sequence.
LEMMA TailIs ==
    ASSUME NEW S, NEW s \in Seq(S), s # <<>>, NEW t, t = Tail(s)
    PROVE  TailOf(s, t) /\ t \in Seq(S) /\ Head(s) = s[1] /\ Head(s) \in S
<1>1. /\ Len(s) \in Nat /\ DOMAIN s = 1..Len(s) /\ Len(s) # 0 /\ Head(s) = s[1]
      /\ t \in Seq(S) /\ Len(t) = Len(s) - 1 /\ Len(t) \in Nat /\ DOMAIN t = 1..Len(t)
      /\ \A i \in 1..Len(t) : t[i] = s[i + 1]
  BY HeadTailProperties
<1>2. 1 \in DOMAIN s /\ Len(s) = Len(t) + 1  BY <1>1
<1>3. Head(s) \in S  BY <1>1, <1>2
<1>4. \A i \in DOMAIN t : i \in Nat /\ i + 1 \in DOMAIN s /\ t[i] = s[i + 1]  BY <1>1
<1>5. ASSUME NEW i \in DOMAIN s, i # 1  PROVE i \in Nat /\ i - 1 \in DOMAIN t /\ t[i - 1] = s[i]
  <2>1. i \in Nat /\ i - 1 \in DOMAIN t /\ (i - 1) + 1 = i  BY <1>1, <1>5
  <2> QED  BY <1>4, <2>1
<1>6. \A i \in DOMAIN s : i \in Nat  BY <1>1
<1> QED  BY <1>1, <1>2, <1>3, <1>4, <1>5, <1>6 DEF TailOf

\* The client holds slots of exports.
Holds(f) ==
    \A s \in DOMAIN f :
        /\ s \in SlotSet /\ s[1] \in {"o", "p"} /\ s[2] \in DOMAIN exports[s[1]]
        /\ f[s] = exports[s[1]][s[2]]

\* What the slots of a message make known.
LEMMA UnserializeIs ==
    ASSUME SessionInv, NEW m, GoodMessage(exports, m), m.slots \in Seq(SlotSet),
           NEW f, f = Session!UnserializeSlots(m)
    PROVE  /\ Holds(f) /\ DOMAIN known \subseteq DOMAIN f
           /\ \A s \in DOMAIN known : f[s] = known[s]
           /\ \A i \in DOMAIN m.slots : Session!IsSlot(m.slots[i]) => m.slots[i] \in DOMAIN f
<1> DEFINE new == {i \in DOMAIN m.slots : Session!IsSlot(m.slots[i]) /\ m.slots[i] \notin DOMAIN known}
           D == DOMAIN known \cup {m.slots[i] : i \in new}
           F(s) == IF s \in DOMAIN known THEN known[s]
                   ELSE m.vals[CHOOSE i \in DOMAIN m.slots : m.slots[i] = s]
<1>1. f = [s \in D |-> F(s)]  BY DEF Session!UnserializeSlots
<1>2. DOMAIN f = D /\ \A s \in D : f[s] = F(s)
  <2> HIDE DEF D, F
  <2> QED  BY <1>1
<1>3. \A s \in DOMAIN known : f[s] = known[s]  BY <1>2
<1>4. \A i \in DOMAIN m.slots : Session!IsSlot(m.slots[i]) => m.slots[i] \in DOMAIN f  BY <1>2
<1>5. Holds(f)
  <2>1. ASSUME NEW s \in DOMAIN f
        PROVE  /\ s \in SlotSet /\ s[1] \in {"o", "p"} /\ s[2] \in DOMAIN exports[s[1]]
               /\ f[s] = exports[s[1]][s[2]]
    <3>1. CASE s \in DOMAIN known  BY <1>3, <3>1 DEF SessionInv, HoldsSlots
    <3>2. CASE s \notin DOMAIN known
      <4>1. PICK i \in DOMAIN m.slots : Session!IsSlot(m.slots[i]) /\ m.slots[i] = s
        BY <1>2, <3>2
      <4>2. PICK j : j = CHOOSE k \in DOMAIN m.slots : m.slots[k] = s  OBVIOUS
      <4>3. j \in DOMAIN m.slots /\ m.slots[j] = s  BY <4>1, <4>2
      <4>4. f[s] = m.vals[j]  BY <1>2, <3>2, <4>2
      <4>5. SlotIs(exports, s, m.vals[j])  BY <4>3 DEF GoodMessage
      <4>6. s[1] \in {"o", "p"}  BY <4>1 DEF Session!IsSlot
      <4>7. m.vals[j] \notin Plain
        <5>1. CASE m.vals[j] \in Plain
          <6>1. s[1] = m.vals[j]  BY <4>5, <5>1 DEF SlotIs
          <6> QED  BY <4>6, <5>1, <6>1 DEF Plain, Session!Data, Session!Broken
        <5> QED  BY <5>1
      <4> QED  BY <4>4, <4>5, <4>6, <4>7 DEF SlotIs
    <3> QED  BY <3>1, <3>2
  <2> QED  BY <2>1 DEF Holds
<1> QED  BY <1>2, <1>3, <1>4, <1>5

\* What is known is of its kind.
LEMMA HoldsKnown ==
    ASSUME GoodExports(exports), NEW v, Holds(v.known)
    PROVE  KnownWell(v)
<1>1. ASSUME NEW s \in DOMAIN v.known
      PROVE  s \in {"o", "p"} \X Nat /\ v.known[s] \in Passed /\ s[1] = Session!Kind(v.known[s])
  <2>1. /\ s \in SlotSet /\ s[1] \in {"o", "p"} /\ s[2] \in DOMAIN exports[s[1]]
        /\ v.known[s] = exports[s[1]][s[2]]
    BY DEF Holds
  <2>2. exports[s[1]] \in Seq(Passed) /\ Session!Kind(exports[s[1]][s[2]]) = s[1]
    BY <2>1 DEF GoodExports
  <2>3. s \in {"o", "p"} \X Nat  BY <2>1 DEF SlotSet
  <2> QED  BY <2>1, <2>2, <2>3
<1> QED  BY <1>1 DEF KnownWell

\* To know more keeps what has been called and resolved.
LEMMA KnowsMore ==
    ASSUME NEW w, KnownWell(w), MadeWell(w), NEW st, NEW v,
           v.made = w.made, v.settled = w.settled,
           DOMAIN w.known \subseteq DOMAIN v.known, \A s \in DOMAIN w.known : v.known[s] = w.known[s]
    PROVE  /\ MadeWell(v) /\ Further(w, st, v, st)
           /\ \A res : ResolvedWell(w, res) => ResolvedWell(v, res)
<1>1. w.made \in Seq(MadeSet)  BY DEF MadeWell
<1>2. Further(w, st, v, st)  BY <1>1 DEF Further
<1>3. MadeWell(v)
  <2>1. ASSUME NEW n \in DOMAIN v.made  PROVE v.made[n].args \in Seq(DOMAIN v.known)
    <3>1. PICK S : S = DOMAIN w.known  OBVIOUS
    <3>2. PICK T : T = DOMAIN v.known  OBVIOUS
    <3>3. w.made[n].args \in Seq(S) /\ S \subseteq T  BY <3>1, <3>2 DEF MadeWell
    <3>4. w.made[n].args \in Seq(T)  BY <3>3
    <3> QED  BY <3>2, <3>4
  <2> QED  BY <2>1 DEF MadeWell
<1>4. ASSUME NEW res, ResolvedWell(w, res)  PROVE ResolvedWell(v, res)
  BY <1>4 DEF ResolvedWell
<1> QED  BY <1>2, <1>3, <1>4

\* A message that the client takes: what returns are still on their way.
LEMMA TakenIs ==
    ASSUME NEW w, NEW st, NEW x, VatTypes(x), PlacesWell(w, st, x),
           NEW y, y.waiting = x.waiting, y.running = x.running,
           TailOf(x.toClient, y.toClient), NEW m, m = x.toClient[1]
    PROVE  /\ ReturnsWell(w, y.toClient) /\ \A id \in Nat : Returned(y, id) => Returned(x, id)
           /\ m.type = "CTP_RETURN" => /\ Open(y) = Open(x) \ {m.id}
                                       /\ m.id \in Open(x) /\ m.id \in 1..w.taken
           /\ m.type # "CTP_RETURN" => Open(y) = Open(x)
<1> DEFINE s == x.toClient
           t == y.toClient
<1>1. /\ 1 \in DOMAIN s
      /\ \A i \in DOMAIN t : i \in Nat /\ i + 1 \in DOMAIN s /\ t[i] = s[i + 1]
      /\ \A i \in DOMAIN s : i \in Nat /\ (i = 1 \/ (i - 1 \in DOMAIN t /\ t[i - 1] = s[i]))
  BY DEF TailOf
<1>2. /\ \A i \in Returns(s) :
           /\ s[i].id \in 1..w.taken
           /\ \A j \in Returns(s) : s[i].id = s[j].id => i = j
  BY DEF PlacesWell, ReturnsWell
<1>3. \A i \in Returns(t) : i \in Nat /\ i + 1 \in Returns(s) /\ t[i] = s[i + 1]
  BY <1>1 DEF Returns
<1>4. ReturnsWell(w, t)
  <2>1. \A i, j \in Nat : i + 1 = j + 1 => i = j  OBVIOUS
  <2> QED  BY <1>2, <1>3, <2>1 DEF ReturnsWell
<1>5. \A id \in Nat : Returned(y, id) => Returned(x, id)
  BY <1>3 DEF Returned
<1>6. \A id \in Nat : (Waited(y, id) <=> Waited(x, id)) /\ (Ran(y, id) <=> Ran(x, id))
  BY DEF Waited, Ran
<1>7. ASSUME NEW id \in Nat, Returned(x, id), ~Returned(y, id)
      PROVE  m.type = "CTP_RETURN" /\ m.id = id
  <2>1. PICK i \in Returns(s) : s[i].id = id  BY <1>7 DEF Returned
  <2>2. i \in DOMAIN s /\ s[i].type = "CTP_RETURN"  BY <2>1 DEF Returns
  <2>3. CASE i = 1  BY <2>1, <2>2, <2>3
  <2>4. CASE i # 1
    <3>1. i - 1 \in Returns(t) /\ t[i - 1].id = id  BY <1>1, <2>1, <2>2, <2>4 DEF Returns
    <3> QED  BY <1>7, <3>1 DEF Returned
  <2> QED  BY <2>3, <2>4
<1>8. CASE m.type = "CTP_RETURN"
  <2>1. 1 \in Returns(s) /\ s[1] = m  BY <1>1, <1>8 DEF Returns
  <2>2. m.id \in 1..w.taken /\ m.id \in Nat /\ Returned(x, m.id)  BY <1>2, <2>1 DEF Returned
  <2>3. ~Waited(x, m.id) /\ ~Ran(x, m.id)  BY <2>2 DEF PlacesWell
  <2>4. ~Returned(y, m.id)
    <3>1. ASSUME NEW i \in Returns(t), t[i].id = m.id  PROVE FALSE
      <4>1. i \in Nat /\ i + 1 \in Returns(s) /\ s[i + 1].id = s[1].id  BY <1>3, <2>1, <3>1
      <4>2. i + 1 = 1  BY <1>2, <2>1, <4>1
      <4>3. i \in DOMAIN t  BY <3>1 DEF Returns
      <4>4. i # 0  BY <4>3 DEF TailOf
      <4> QED  BY <4>1, <4>2, <4>4
    <3> QED  BY <3>1 DEF Returned
  <2>5. \A id : id \in Open(y) <=> id \in Open(x) /\ id # m.id
    BY <1>5, <1>6, <1>7, <2>2, <2>3, <2>4 DEF Open
  <2>6. Open(y) = Open(x) \ {m.id}  BY <2>5
  <2>7. m.id \in Open(x)  BY <2>2 DEF Open
  <2> QED  BY <1>4, <1>5, <1>8, <2>2, <2>6, <2>7
<1>9. CASE m.type # "CTP_RETURN"
  <2>1. \A id : id \in Open(y) <=> id \in Open(x)
    BY <1>5, <1>6, <1>7, <1>9 DEF Open
  <2>2. Open(y) = Open(x)  BY <2>1
  <2> QED  BY <1>4, <1>5, <1>9, <2>2
<1> QED  BY <1>8, <1>9

\* The promises and what is on its way when the client has taken a message.
LEMMA PromisesTaken ==
    ASSUME SessionInv, toClient # <<>>, NEW m, m = Head(toClient), toClient' = Tail(toClient),
           UNCHANGED <<exports, settled, torn>>, known' = Session!UnserializeSlots(m),
           DOMAIN resolved \subseteq DOMAIN resolved',
           m.type = "CTP_RESOLVE" /\ <<"p", m.id>> \in DOMAIN known => <<"p", m.id>> \in DOMAIN resolved',
           thrown' => thrown \/ (m.type = "CTP_RESOLVE" /\ <<"p", m.id>> \notin DOMAIN known)
    PROVE  /\ GoodMessage(exports, m) /\ m \in ToClientSet /\ m = toClient[1]
           /\ m.type = "CTP_RESOLVE" => GoodResolve(exports, settled, m)
           /\ TailOf(toClient, toClient') /\ toClient' \in Seq(ToClientSet)
           /\ HoldsSlots' /\ MessagesWell' /\ PromisesWell'
           /\ DOMAIN known \subseteq DOMAIN known' /\ \A s \in DOMAIN known : known'[s] = known[s]
           /\ \A i \in DOMAIN m.slots : Session!IsSlot(m.slots[i]) => m.slots[i] \in DOMAIN known'
<1>1. toClient \in Seq(ToClientSet) /\ MessagesWell /\ PromisesWell
  BY DEF SessionInv, SessionTypes
<1>2. TailOf(toClient, toClient') /\ toClient' \in Seq(ToClientSet) /\ m = toClient[1] /\ m \in ToClientSet
  <2>1. PICK S : S = ToClientSet  OBVIOUS
  <2>2. /\ TailOf(toClient, toClient') /\ toClient' \in Seq(S) /\ Head(toClient) = toClient[1]
        /\ Head(toClient) \in S
    BY <1>1, <2>1, TailIs
  <2> QED  BY <2>1, <2>2
<1>3. /\ 1 \in DOMAIN toClient /\ Len(toClient) \in Nat /\ Len(toClient') \in Nat
      /\ Len(toClient) = Len(toClient') + 1 /\ DOMAIN toClient = 1..Len(toClient)
      /\ DOMAIN toClient' = 1..Len(toClient')
      /\ \A i \in DOMAIN toClient' : /\ i \in Nat /\ i + 1 \in DOMAIN toClient
                                     /\ toClient'[i] = toClient[i + 1]
      /\ \A i \in DOMAIN toClient :
           i \in Nat /\ (i = 1 \/ (i - 1 \in DOMAIN toClient' /\ toClient'[i - 1] = toClient[i]))
  BY <1>2 DEF TailOf
<1>4. /\ GoodMessage(exports, m)
      /\ m.type = "CTP_RESOLVE" => GoodResolve(exports, settled, m)
  BY <1>1, <1>2, <1>3 DEF MessagesWell
<1>5. m.slots \in Seq(SlotSet)  BY <1>2 DEF ToClientSet
<1>6. /\ Holds(known') /\ DOMAIN known \subseteq DOMAIN known'
      /\ \A s \in DOMAIN known : known'[s] = known[s]
      /\ \A i \in DOMAIN m.slots : Session!IsSlot(m.slots[i]) => m.slots[i] \in DOMAIN known'
  BY <1>4, <1>5, UnserializeIs
<1>7. HoldsSlots'  BY <1>6 DEF Holds, HoldsSlots
<1>8. MessagesWell'  BY <1>1, <1>3 DEF MessagesWell
<1>9. ASSUME NEW id, NEW n \in 0..Len(toClient'), SlotComes(id, n + 1)  PROVE SlotComes(id, n)'
  <2>1. CASE <<"p", id>> \in DOMAIN known  BY <1>6, <2>1 DEF SlotComes
  <2>2. CASE <<"p", id>> \notin DOMAIN known
    <3>1. PICK j \in 1..(n + 1) : <<"p", id>> \in Session!Range(toClient[j].slots)
      BY <1>9, <2>2 DEF SlotComes
    <3>2. CASE j = 1
      <4>1. PICK i \in DOMAIN m.slots : m.slots[i] = <<"p", id>>
        BY <1>2, <3>1, <3>2 DEF Session!Range
      <4>2. Session!IsSlot(m.slots[i])  BY <4>1 DEF Session!IsSlot
      <4> QED  BY <1>6, <4>1, <4>2 DEF SlotComes
    <3>3. CASE j # 1
      <4>1. j - 1 \in 1..n /\ j \in Nat  BY <3>1, <3>3
      <4>2. j \in DOMAIN toClient  BY <1>3, <3>1
      <4>3. toClient'[j - 1] = toClient[j]  BY <1>3, <3>3, <4>2
      <4> QED  BY <3>1, <4>1, <4>3 DEF SlotComes, Session!Range
    <3> QED  BY <3>2, <3>3
  <2> QED  BY <2>1, <2>2
<1>10. ASSUME NEW id \in DOMAIN exports["p"], exports["p"][id] \notin torn
       PROVE  SlotComes(id, Len(toClient))'
  <2>1. SlotComes(id, Len(toClient))  BY <1>1, <1>10 DEF PromisesWell
  <2>2. SlotComes(id, Len(toClient') + 1)  BY <1>3, <2>1
  <2>3. Len(toClient') \in 0..Len(toClient')  BY <1>3
  <2> QED  BY <1>9, <2>2, <2>3
<1>11. ASSUME NEW i \in DOMAIN toClient, toClient[i].type = "CTP_RESOLVE",
              exports["p"][toClient[i].id] \notin torn
       PROVE  SlotComes(toClient[i].id, i - 1)
  BY <1>1, <1>11 DEF PromisesWell
<1>12. m.type = "CTP_RESOLVE" /\ exports["p"][m.id] \notin torn => <<"p", m.id>> \in DOMAIN known
  <2>1. SUFFICES ASSUME m.type = "CTP_RESOLVE", exports["p"][m.id] \notin torn
                 PROVE  <<"p", m.id>> \in DOMAIN known
    OBVIOUS
  <2>2. SlotComes(m.id, 1 - 1)  BY <1>2, <1>3, <1>11, <2>1
  <2>3. 1..(1 - 1) = {}  OBVIOUS
  <2> QED  BY <2>2, <2>3 DEF SlotComes
<1>13. ASSUME NEW id \in DOMAIN exports["p"], exports["p"][id] \notin torn,
              settled[exports["p"][id]] \in Objects \cup Plain, <<"p", id>> \notin DOMAIN resolved'
       PROVE  \E i \in DOMAIN toClient' : toClient'[i].type = "CTP_RESOLVE" /\ toClient'[i].id = id
  <2>1. PICK i \in DOMAIN toClient : toClient[i].type = "CTP_RESOLVE" /\ toClient[i].id = id
    BY <1>1, <1>13 DEF PromisesWell
  <2>2. i # 1  BY <1>2, <1>12, <1>13, <2>1
  <2> QED  BY <1>3, <2>1, <2>2
<1>14. ASSUME NEW i \in DOMAIN toClient', toClient'[i].type = "CTP_RESOLVE",
              exports["p"][toClient'[i].id] \notin torn
       PROVE  SlotComes(toClient[i].id, i - 1)'
  <2>1. /\ i \in Nat /\ i + 1 \in DOMAIN toClient /\ toClient'[i] = toClient[i + 1]
        /\ i - 1 \in 0..Len(toClient') /\ (i + 1) - 1 = (i - 1) + 1
    BY <1>3
  <2>2. SlotComes(toClient[i + 1].id, (i + 1) - 1)  BY <1>11, <1>14, <2>1
  <2>3. SlotComes(toClient[i + 1].id, (i - 1) + 1)  BY <2>1, <2>2
  <2>4. PICK id : id = toClient[i + 1].id  OBVIOUS
  <2>5. SlotComes(id, i - 1)'  BY <1>9, <2>1, <2>3, <2>4
  <2> QED  BY <2>1, <2>4, <2>5
<1>15. thrown' => torn # {}
  <2>1. thrown => torn # {}  BY <1>1 DEF PromisesWell
  <2>2. ASSUME m.type = "CTP_RESOLVE", <<"p", m.id>> \notin DOMAIN known
        PROVE  torn # {}
    BY <1>12, <2>2
  <2> QED  BY <2>1, <2>2
<1>16. PromisesWell'
  BY <1>10, <1>13, <1>14, <1>15 DEF PromisesWell
<1> QED  BY <1>2, <1>4, <1>6, <1>7, <1>8, <1>16

\* A step in which the client takes a message keeps the invariant.
LEMMA AfterDispatch ==
    ASSUME SessionInv, toClient # <<>>, NEW m, m = Head(toClient), toClient' = Tail(toClient),
           UNCHANGED <<exports, settled, waiting, running, executed, made, torn>>,
           known' = Session!UnserializeSlots(m),
           DOMAIN resolved \subseteq DOMAIN resolved',
           m.type = "CTP_RESOLVE" /\ <<"p", m.id>> \in DOMAIN known => <<"p", m.id>> \in DOMAIN resolved',
           thrown' => thrown \/ (m.type = "CTP_RESOLVE" /\ <<"p", m.id>> \notin DOMAIN known),
           World'.taken = World.taken, Further(World, Session!Client, World', Session!Client'),
           \A i \in DOMAIN questions : questions'[i] = questions[i],
           ClientInv(World', Session!Client', {}, Open(Vat')), NoneLeft(Session!Client'),
           ResolvedWell(World', resolved'), MadeWell(World')
    PROVE  SessionInv'
<1>1. PICK w : w = World  OBVIOUS
<1>2. PICK v : v = World'  OBVIOUS
<1>3. PICK st : st = Session!Client  OBVIOUS
<1>4. PICK new : new = Session!Client'  OBVIOUS
<1>5. PICK x : x = Vat  OBVIOUS
<1>6. PICK y : y = Vat'  OBVIOUS
<1>7. /\ y.waiting = x.waiting /\ y.running = x.running /\ y.executed = x.executed
      /\ x.toClient = toClient /\ y.toClient = toClient'
  BY <1>5, <1>6 DEF Vat
<1>8. /\ VatTypes(x) /\ KnownWell(w) /\ MadeWell(w)
      /\ PlacesWell(w, st, x) /\ WaitingWell(w, st, x) /\ ExecutedWell(w, st, x)
      /\ w.taken \in Nat
      /\ st.answer \in [Session!Numbers -> Seq(SlotSet)]
  BY <1>1, <1>3, <1>5, EndsAre
<1>9. \A k \in 1..w.taken : k \in DOMAIN questions /\ st.questions[k] \in DOMAIN w.made
  BY <1>1, <1>3, EndsAre
<1>10. st.questions = questions /\ new.questions = questions'  BY <1>3, <1>4 DEF Session!Client
<1>11. v.taken = w.taken /\ v.settled = w.settled /\ v.known = known' /\ MadeWell(v) /\ Further(w, st, v, new)
  BY <1>1, <1>2, <1>3, <1>4 DEF World
<1>12. /\ TailOf(toClient, toClient') /\ toClient' \in Seq(ToClientSet)
       /\ HoldsSlots' /\ MessagesWell' /\ PromisesWell'
  BY PromisesTaken
<1>13. TailOf(x.toClient, y.toClient)  BY <1>7, <1>12
<1>14. ReturnsWell(w, y.toClient) /\ \A id \in Nat : Returned(y, id) => Returned(x, id)
  BY <1>7, <1>8, <1>13, TakenIs
<1>15. \A k \in 1..w.taken : st.questions[k] \in DOMAIN w.made /\ new.questions[k] = st.questions[k]
  BY <1>9, <1>10
<1>16. PlacesWell(v, new, y) /\ WaitingWell(v, new, y) /\ ExecutedWell(v, new, y)
  <2>1. v.taken \in Nat /\ w.taken <= v.taken  BY <1>8, <1>11
  <2> QED  BY <1>7, <1>8, <1>11, <1>14, <1>15, <2>1, VatSideStays
<1>17. GoodExports(exports') /\ SessionTypes'
  <2>1. SessionTypes /\ GoodExports(exports)  BY DEF SessionInv
  <2> QED  BY <1>12, <2>1 DEF SessionTypes, Session!Range
<1>18. KnownWell(World')
  <2>1. Holds(v.known)  BY <1>11, <1>12 DEF Holds, HoldsSlots
  <2>2. GoodExports(exports)  BY DEF SessionInv
  <2> QED  BY <1>2, <2>1, <2>2, HoldsKnown
<1>19. /\ PlacesWell(World', Session!Client', Vat') /\ WaitingWell(World', Session!Client', Vat')
       /\ ExecutedWell(World', Session!Client', Vat')
  BY <1>2, <1>4, <1>6, <1>16
<1> QED  BY <1>12, <1>17, <1>18, <1>19 DEF SessionInv

\* What the slots of a message that the client takes make of its world.
Learns(w, st, u, open) ==
    /\ MadeWell(u) /\ KnownWell(u) /\ Further(w, st, u, st) /\ ClientInv(u, st, {}, open)
    /\ ResolvedWell(u, st.resolved) /\ u.taken = w.taken

\* A client that knows more goes on as before.
LEMMA LearnsMore ==
    ASSUME NEW w, KnownWell(w), MadeWell(w), NEW st, NEW open, ClientInv(w, st, {}, open),
           ResolvedWell(w, st.resolved), GoodExports(exports),
           NEW u, u.made = w.made, u.settled = w.settled, u.taken = w.taken, Holds(u.known),
           DOMAIN w.known \subseteq DOMAIN u.known, \A s \in DOMAIN w.known : u.known[s] = w.known[s]
    PROVE  Learns(w, st, u, open)
<1>1. KnownWell(u)  BY HoldsKnown
<1>2. /\ MadeWell(u) /\ Further(w, st, u, st)
      /\ \A res : ResolvedWell(w, res) => ResolvedWell(u, res)
  BY KnowsMore
<1>3. ResolvedWell(u, st.resolved)  BY <1>2
<1>4. ClientInv(u, st, DOMAIN u.made \ DOMAIN w.made, open)  BY <1>2, ClientGoesOn
<1>5. DOMAIN u.made \ DOMAIN w.made = {}  OBVIOUS
<1> QED  BY <1>1, <1>2, <1>3, <1>4, <1>5 DEF Learns

\* What follows when the client has taken a message, for the questions it has.
LEMMA TakenCount ==
    ASSUME NEW u, NEW new, NEW open, ClientInv(u, new, {}, open), u.taken \in Nat
    PROVE  Len(new.questions) - Len(new.toVat) = u.taken
<1>1. new.toVat \in Seq(ToVatSet) /\ Len(new.questions) = u.taken + Len(new.toVat)
  BY DEF ClientInv, ToVatWell
<1>2. Len(new.toVat) \in Nat  BY <1>1
<1> QED  BY <1>1, <1>2

\* A return: the call has its answer, and those that waited for it go on.
LEMMA ReturnKeeps ==
    ASSUME SessionInv, Session!ClientDispatch, Session!CTP_RETURN(Head(toClient))
    PROVE  SessionInv'
<1>1. PICK m : m = Head(toClient)  OBVIOUS
<1>2. /\ toClient # <<>> /\ toClient' = Tail(toClient)
      /\ UNCHANGED <<exports, settled, waiting, running, executed, made, torn>>
  BY DEF Session!ClientDispatch
<1>3. /\ m.type = "CTP_RETURN" /\ known' = Session!UnserializeSlots(m) /\ thrown' = thrown
      /\ Session!Becomes(Session!SettleAnswer(Session!Client, questions[m.id], m.slots))
  BY <1>1 DEF Session!CTP_RETURN
<1>4. PICK w : w = World  OBVIOUS
<1>5. PICK st : st = Session!Client  OBVIOUS
<1>6. PICK n : n = questions[m.id]  OBVIOUS
<1>7. PICK new : new = Session!SettleAnswer(st, n, m.slots)  OBVIOUS
<1>8. PICK u : u = [made |-> made, known |-> known', settled |-> settled, taken |-> w.taken]
  OBVIOUS
<1>9. PICK x : x = Vat  OBVIOUS
<1>10. PICK y : y = Vat'  OBVIOUS
<1>11. /\ questions' = new.questions /\ toVat' = new.toVat /\ answer' = new.answer
       /\ postponed' = new.postponed /\ resolved' = new.resolved
  BY <1>3, <1>5, <1>6, <1>7 DEF Session!Becomes
<1>12. /\ KnownWell(w) /\ MadeWell(w) /\ IsState(st) /\ NoneLeft(st) /\ ClientInv(w, st, {}, Open(x))
       /\ ResolvedWell(w, st.resolved) /\ w.taken \in Nat
       /\ VatTypes(x) /\ PlacesWell(w, st, x)
  BY <1>4, <1>5, <1>9, EndsAre
<1>13. /\ w.made = made /\ w.known = known /\ w.settled = settled
       /\ World' = [made |-> made', known |-> known', settled |-> settled',
                    taken |-> Len(questions') - Len(toVat')]
  BY <1>4 DEF World
<1>14. /\ st.questions = questions /\ st.resolved = resolved
       /\ Session!Client' = [questions |-> questions', toVat |-> toVat', answer |-> answer',
                             postponed |-> postponed', resolved |-> resolved']
  BY <1>5 DEF Session!Client
<1>15. /\ y.waiting = x.waiting /\ y.running = x.running
       /\ x.toClient = toClient /\ y.toClient = toClient'
  BY <1>2, <1>9, <1>10 DEF Vat
<1>16. GoodExports(exports) /\ toClient \in Seq(ToClientSet) /\ MessagesWell
  BY DEF SessionInv, SessionTypes
<1>17. TailOf(toClient, toClient') /\ m = toClient[1] /\ m \in ToClientSet
  <2>1. PICK S : S = ToClientSet  OBVIOUS
  <2>2. /\ TailOf(toClient, toClient') /\ Head(toClient) = toClient[1] /\ Head(toClient) \in S
    BY <1>2, <1>16, <2>1, TailIs
  <2> QED  BY <1>1, <2>1, <2>2
<1>18. m.slots \in Seq(SlotSet) /\ GoodMessage(exports, m) /\ m.slots # <<>>
  <2>1. m.slots \in Seq(SlotSet)  BY <1>17 DEF ToClientSet
  <2>2. GoodMessage(exports, m)  BY <1>16, <1>17 DEF MessagesWell, TailOf
  <2>3. m.vals # <<>> /\ DOMAIN m.slots = DOMAIN m.vals  BY <2>2 DEF GoodMessage
  <2>4. m.vals \in Seq(Passed \cup Plain)  BY <1>17 DEF ToClientSet
  <2>5. 1 \in DOMAIN m.vals  BY <2>3, <2>4
  <2> QED  BY <2>1, <2>2, <2>3, <2>5
<1>19. /\ Holds(known') /\ DOMAIN known \subseteq DOMAIN known'
       /\ \A s \in DOMAIN known : known'[s] = known[s]
       /\ \A i \in DOMAIN m.slots : Session!IsSlot(m.slots[i]) => m.slots[i] \in DOMAIN known'
  BY <1>3, <1>18, UnserializeIs
<1>20. /\ u.made = made /\ u.known = known' /\ u.settled = settled /\ u.taken = w.taken
  BY <1>8
<1>21. Learns(w, st, u, Open(x))
  BY <1>12, <1>13, <1>16, <1>19, <1>20, LearnsMore
<1>22. m.id \in Open(x) /\ m.id \in 1..w.taken /\ Open(y) = Open(x) \ {m.id}
  BY <1>3, <1>12, <1>15, <1>17, TakenIs
<1>23. Answerable(u, st, Open(x), m.id, n, m.slots)
  <2>1. \A k \in DOMAIN m.slots : m.slots[k][1] \in {"o", "p"} => m.slots[k] \in DOMAIN u.known
    BY <1>19, <1>20 DEF Session!IsSlot
  <2> QED  BY <1>6, <1>12, <1>14, <1>18, <1>20, <1>21, <1>22, <2>1 DEF Answerable, Learns
<1>24. AnswerKept(u, st, Open(x), m.id, n, m.slots, new)  BY <1>7, <1>23, SettleAnswerKeeps
<1>25. /\ IsState(new) /\ ClientInv(u, new, {}, Open(y)) /\ NoneLeft(new)
       /\ new.resolved = st.resolved /\ Further(u, st, u, new)
       /\ \A q \in DOMAIN st.questions : new.questions[q] = st.questions[q]
  BY <1>22, <1>24 DEF AnswerKept
<1>26. World' = u
  <2>1. Len(questions') - Len(toVat') = w.taken  BY <1>11, <1>12, <1>20, <1>25, TakenCount
  <2> QED  BY <1>2, <1>8, <1>13, <2>1
<1>27. Session!Client' = new  BY <1>11, <1>14, <1>25 DEF IsState
<1>28. Further(w, st, u, new)
  <2>1. /\ Further(w, st, u, st)
        /\ \A k \in Session!Numbers : st.answer[k] # Session!NoAnswer => new.answer[k] = st.answer[k]
    BY <1>21, <1>25 DEF Learns, Further
  <2> QED  BY <2>1 DEF Further
<1>29. MadeWell(u) /\ ResolvedWell(u, st.resolved)  BY <1>21 DEF Learns
<1>30. resolved' = resolved  BY <1>11, <1>14, <1>25
<1>31. /\ World'.taken = World.taken /\ Further(World, Session!Client, World', Session!Client')
       /\ \A i \in DOMAIN questions : questions'[i] = questions[i]
       /\ ClientInv(World', Session!Client', {}, Open(Vat')) /\ NoneLeft(Session!Client')
       /\ ResolvedWell(World', resolved') /\ MadeWell(World')
  BY <1>4, <1>5, <1>10, <1>11, <1>14, <1>20, <1>25, <1>26, <1>27, <1>28, <1>29, <1>30
<1> QED  BY <1>1, <1>2, <1>3, <1>30, <1>31, AfterDispatch

\* A resolution: calls through the import go to what it was resolved with.
LEMMA ResolveKeeps ==
    ASSUME SessionInv, Session!ClientDispatch, Session!CTP_RESOLVE(Head(toClient))
    PROVE  SessionInv'
<1>1. PICK m : m = Head(toClient)  OBVIOUS
<1>2. /\ toClient # <<>> /\ toClient' = Tail(toClient)
      /\ UNCHANGED <<exports, settled, waiting, running, executed, made, torn>>
  BY DEF Session!ClientDispatch
<1> DEFINE p == <<"p", m.id>>
<1>3. /\ m.type = "CTP_RESOLVE" /\ known' = Session!UnserializeSlots(m)
      /\ UNCHANGED <<questions, toVat, answer, postponed>>
      /\ p \in DOMAIN known =>
           /\ resolved' = [s \in DOMAIN resolved \cup {p} |-> IF s = p THEN m.slots[1] ELSE resolved[s]]
           /\ thrown' = thrown
      /\ p \notin DOMAIN known => resolved' = resolved
  BY <1>1 DEF Session!CTP_RESOLVE
<1>4. PICK w : w = World  OBVIOUS
<1>5. PICK st : st = Session!Client  OBVIOUS
<1>7. PICK new : new = Session!Client'  OBVIOUS
<1>8. PICK u : u = World'  OBVIOUS
<1>9. PICK x : x = Vat  OBVIOUS
<1>10. PICK y : y = Vat'  OBVIOUS
<1>12. /\ KnownWell(w) /\ MadeWell(w) /\ IsState(st) /\ NoneLeft(st) /\ ClientInv(w, st, {}, Open(x))
       /\ ResolvedWell(w, st.resolved) /\ w.taken \in Nat
       /\ VatTypes(x) /\ PlacesWell(w, st, x)
  BY <1>4, <1>5, <1>9, EndsAre
<1>13. /\ w.made = made /\ w.known = known /\ w.settled = settled
       /\ u.made = w.made /\ u.known = known' /\ u.settled = w.settled /\ u.taken = w.taken
  BY <1>2, <1>3, <1>4, <1>8 DEF World
<1>14. /\ st.questions = questions /\ st.resolved = resolved
       /\ new.questions = st.questions /\ new.toVat = st.toVat /\ new.answer = st.answer
       /\ new.postponed = st.postponed /\ new.resolved = resolved'
  BY <1>3, <1>5, <1>7 DEF Session!Client
<1>15. /\ y.waiting = x.waiting /\ y.running = x.running
       /\ x.toClient = toClient /\ y.toClient = toClient'
  BY <1>2, <1>9, <1>10 DEF Vat
<1>16. GoodExports(exports) /\ toClient \in Seq(ToClientSet) /\ MessagesWell /\ HoldsSlots
  BY DEF SessionInv, SessionTypes
<1>17. TailOf(toClient, toClient') /\ m = toClient[1] /\ m \in ToClientSet
  <2>1. PICK S : S = ToClientSet  OBVIOUS
  <2>2. /\ TailOf(toClient, toClient') /\ Head(toClient) = toClient[1] /\ Head(toClient) \in S
    BY <1>2, <1>16, <2>1, TailIs
  <2> QED  BY <1>1, <2>1, <2>2
<1>18. /\ m.slots \in Seq(SlotSet) /\ GoodMessage(exports, m) /\ GoodResolve(exports, settled, m)
  <2>1. m.slots \in Seq(SlotSet)  BY <1>17 DEF ToClientSet
  <2>2. GoodMessage(exports, m) /\ GoodResolve(exports, settled, m)
    BY <1>3, <1>16, <1>17 DEF MessagesWell, TailOf
  <2> QED  BY <2>1, <2>2
<1>19. /\ Holds(known') /\ DOMAIN known \subseteq DOMAIN known'
       /\ \A s \in DOMAIN known : known'[s] = known[s]
       /\ \A i \in DOMAIN m.slots : Session!IsSlot(m.slots[i]) => m.slots[i] \in DOMAIN known'
  BY <1>3, <1>18, UnserializeIs
<1>20. Learns(w, st, u, Open(x))  BY <1>12, <1>13, <1>16, <1>19, LearnsMore
<1>21. Open(y) = Open(x)  BY <1>3, <1>12, <1>15, <1>17, TakenIs
<1>22. ClientInv(u, new, {}, Open(y))
  <2>1. ClientInv(u, st, {}, Open(y))  BY <1>20, <1>21 DEF Learns
  <2>2. QuestionsWell(u, new)  BY <1>14, <2>1 DEF ClientInv, QuestionsWell
  <2>3. ToVatWell(u, new)
    <3>1. \A d : CallWell(u, st, d) => CallWell(u, new, d)
      BY <1>14 DEF CallWell, RefKnown, RefSlot
    <3> QED  BY <1>14, <2>1, <3>1 DEF ClientInv, ToVatWell
  <2>4. LaterWell(u, new, {})  BY <1>14, <2>1 DEF ClientInv, LaterWell
  <2>5. AnswersWell(u, new, {}, Open(y))  BY <1>14, <2>1 DEF ClientInv, AnswersWell
  <2> QED  BY <2>2, <2>3, <2>4, <2>5 DEF ClientInv
<1>23. NoneLeft(new)  BY <1>12, <1>14 DEF NoneLeft
<1>24. Further(w, st, u, new)  BY <1>14, <1>20 DEF Learns, Further
<1>25. DOMAIN resolved \subseteq DOMAIN resolved' /\ (p \in DOMAIN known => p \in DOMAIN resolved')
  <2>1. CASE p \in DOMAIN known
    <3>1. DOMAIN resolved' = DOMAIN resolved \cup {p}  BY <1>3, <2>1
    <3> QED  BY <3>1
  <2>2. CASE p \notin DOMAIN known  BY <1>3, <2>2
  <2> QED  BY <2>1, <2>2
<1>26. ResolvedWell(u, resolved')
  <2>1. ResolvedWell(u, resolved)  BY <1>14, <1>20 DEF Learns
  <2>2. CASE p \notin DOMAIN known  BY <1>3, <2>1, <2>2
  <2>3. CASE p \in DOMAIN known
    <3>1. DOMAIN resolved' = DOMAIN resolved \cup {p} /\ resolved'[p] = m.slots[1]
          /\ \A s \in DOMAIN resolved : s # p => resolved'[s] = resolved[s]
      BY <1>3, <2>3
    <3> DEFINE q == exports["p"][m.id]
    <3>2. p[1] = "p" /\ p[2] = m.id  OBVIOUS
    <3>3. known[p] = q /\ known'[p] = q /\ p \in DOMAIN u.known /\ p[1] = "p"
      BY <1>13, <1>16, <1>19, <2>3, <3>2 DEF HoldsSlots
    <3>4. settled[q] \in Objects \cup Plain /\ m.vals = <<settled[q]>>  BY <1>18 DEF GoodResolve
    <3> DEFINE r == settled[q]
    <3>5. 1 \in DOMAIN m.vals /\ m.vals[1] = r  BY <3>4
    <3>6. SlotIs(exports, m.slots[1], r) /\ 1 \in DOMAIN m.slots
      BY <1>18, <3>5 DEF GoodMessage
    <3> HIDE DEF q, r, p
    <3>7. CASE r \in Plain
      <4>1. m.slots[1] = <<r, 0>>  BY <3>6, <3>7 DEF SlotIs
      <4>2. \A s \in DOMAIN resolved' : s = p \/ s \in DOMAIN resolved  BY <3>1
      <4>3. resolved'[p] = <<u.settled[u.known[p]], 0>> /\ u.settled[u.known[p]] = r
        BY <1>13, <3>1, <3>3, <4>1 DEF r
      <4> QED  BY <2>1, <3>1, <3>3, <3>7, <4>2, <4>3 DEF ResolvedWell
    <3>8. CASE r \notin Plain
      <4>1. /\ m.slots[1] \in SlotSet /\ m.slots[1][1] = Session!Kind(r) /\ r \in Passed
            /\ m.slots[1][2] \in DOMAIN exports[m.slots[1][1]]
            /\ exports[m.slots[1][1]][m.slots[1][2]] = r
        BY <3>6, <3>8 DEF SlotIs
      <4>2. Session!IsSlot(m.slots[1])  BY <4>1, KindsApart DEF Session!IsSlot
      <4>3. m.slots[1] \in DOMAIN known'  BY <1>19, <3>6, <4>2
      <4>4. known'[m.slots[1]] = r  BY <1>19, <4>1, <4>3 DEF Holds
      <4>5. \A s \in DOMAIN resolved' : s = p \/ s \in DOMAIN resolved  BY <3>1
      <4>6. /\ u.settled[u.known[p]] = r /\ resolved'[p] \in DOMAIN u.known
            /\ u.known[resolved'[p]] = r /\ r \in Objects \cup Plain
        BY <1>13, <3>1, <3>3, <3>4, <4>3, <4>4 DEF r
      <4> QED  BY <2>1, <3>1, <3>3, <3>8, <4>5, <4>6 DEF ResolvedWell
    <3> QED  BY <3>7, <3>8
  <2> QED  BY <2>2, <2>3
<1>27. MadeWell(u)  BY <1>20 DEF Learns
<1>28. thrown' => thrown \/ p \notin DOMAIN known  BY <1>3
<1>29. /\ World'.taken = World.taken /\ Further(World, Session!Client, World', Session!Client')
       /\ \A i \in DOMAIN questions : questions'[i] = questions[i]
       /\ ClientInv(World', Session!Client', {}, Open(Vat')) /\ NoneLeft(Session!Client')
       /\ ResolvedWell(World', resolved') /\ MadeWell(World')
  BY <1>3, <1>4, <1>5, <1>7, <1>8, <1>10, <1>13, <1>22, <1>23, <1>24, <1>26, <1>27
<1> QED  BY <1>1, <1>2, <1>3, <1>25, <1>28, <1>29, AfterDispatch

\* So does each message that the client takes.
LEMMA ClientDispatchKeeps ==
    ASSUME SessionInv, Session!ClientDispatch
    PROVE  SessionInv'
BY ReturnKeeps, ResolveKeeps DEF Session!ClientDispatch

\* Messages that the vat adds come after those that are there.
Joined(s, e, t) ==
    /\ Len(s) \in Nat /\ Len(e) \in Nat /\ Len(t) = Len(s) + Len(e)
    /\ DOMAIN s = 1..Len(s) /\ DOMAIN e = 1..Len(e) /\ DOMAIN t = 1..Len(t)
    /\ \A i \in DOMAIN s : i \in Nat /\ i \in DOMAIN t /\ t[i] = s[i]
    /\ \A j \in DOMAIN e : j \in Nat /\ Len(s) + j \in DOMAIN t /\ t[Len(s) + j] = e[j]
    /\ \A i \in DOMAIN t : i \in Nat /\ (i \in DOMAIN s \/ \E j \in DOMAIN e : i = Len(s) + j)

\* So they are in a sequence to which another is joined.
LEMMA JoinIs ==
    ASSUME NEW S, NEW s \in Seq(S), NEW e \in Seq(S), NEW t, t = s \o e
    PROVE  Joined(s, e, t) /\ t \in Seq(S)
<1>1. /\ Len(s) \in Nat /\ Len(e) \in Nat /\ t \in Seq(S) /\ Len(t) = Len(s) + Len(e)
      /\ DOMAIN s = 1..Len(s) /\ DOMAIN e = 1..Len(e) /\ DOMAIN t = 1..Len(t)
      /\ \A i \in 1..Len(t) : t[i] = IF i <= Len(s) THEN s[i] ELSE e[i - Len(s)]
  OBVIOUS
<1>2. \A i \in DOMAIN s : i \in Nat /\ i \in DOMAIN t /\ t[i] = s[i]  BY <1>1
<1>3. ASSUME NEW j \in DOMAIN e
      PROVE  j \in Nat /\ Len(s) + j \in DOMAIN t /\ t[Len(s) + j] = e[j]
  <2>1. j \in Nat /\ Len(s) + j \in 1..Len(t) /\ ~(Len(s) + j <= Len(s)) /\ (Len(s) + j) - Len(s) = j
    BY <1>1
  <2> QED  BY <1>1, <2>1
<1>4. ASSUME NEW i \in DOMAIN t, i \notin DOMAIN s  PROVE \E j \in DOMAIN e : i = Len(s) + j
  <2>1. i - Len(s) \in 1..Len(e) /\ i = Len(s) + (i - Len(s))  BY <1>1, <1>4
  <2> QED  BY <1>1, <2>1
<1>5. \A i \in DOMAIN t : i \in Nat  BY <1>1
<1> QED  BY <1>1, <1>2, <1>3, <1>4, <1>5 DEF Joined

\* What the vat may add to what is on its way to the client.
Adds(ex, res, lost, more) ==
    /\ more \in Seq(ToClientSet) /\ GoodExports(ex) /\ Grown(exports, ex)
    /\ torn \subseteq lost /\ lost \subseteq torn \cup Session!Range(ex["p"])
    /\ \A q \in Promises : settled[q] # Session!Unsettled => res[q] = settled[q]
    /\ \A j \in DOMAIN more :
         /\ GoodMessage(ex, more[j])
         /\ more[j].type = "CTP_RESOLVE" =>
              /\ GoodResolve(ex, res, more[j])
              /\ \/ ex["p"][more[j].id] \in lost \/ more[j].id \in DOMAIN exports["p"]
                 \/ \E l \in 1..(j - 1) : <<"p", more[j].id>> \in Session!Range(more[l].slots)
    /\ \A id \in DOMAIN ex["p"] : ex["p"][id] \notin lost =>
         /\ \/ id \in DOMAIN exports["p"]
            \/ \E l \in DOMAIN more : <<"p", id>> \in Session!Range(more[l].slots)
         /\ res[ex["p"][id]] \in Objects \cup Plain =>
              \/ id \in DOMAIN exports["p"] /\ settled[ex["p"][id]] \in Objects \cup Plain
              \/ \E j \in DOMAIN more : more[j].type = "CTP_RESOLVE" /\ more[j].id = id

\* It leaves the messages and the promises right.
LEMMA AddsWell ==
    ASSUME SessionInv, NEW more, Adds(exports', settled', torn', more),
           toClient' = toClient \o more, UNCHANGED <<known, resolved, thrown>>
    PROVE  /\ toClient' \in Seq(ToClientSet) /\ Joined(toClient, more, toClient')
           /\ GoodExports(exports') /\ torn' \subseteq Session!Range(exports["p"])'
           /\ HoldsSlots' /\ MessagesWell' /\ PromisesWell'
<1>1. /\ toClient \in Seq(ToClientSet) /\ MessagesWell /\ PromisesWell /\ HoldsSlots
      /\ GoodExports(exports) /\ torn \subseteq Session!Range(exports["p"])
  BY DEF SessionInv, SessionTypes
<1>2. /\ more \in Seq(ToClientSet) /\ GoodExports(exports') /\ Grown(exports, exports')
      /\ torn \subseteq torn' /\ torn' \subseteq torn \cup Session!Range(exports'["p"])
      /\ \A q \in Promises : settled[q] # Session!Unsettled => settled'[q] = settled[q]
  BY DEF Adds
<1>3. toClient' \in Seq(ToClientSet) /\ Joined(toClient, more, toClient')
  <2>1. PICK S : S = ToClientSet  OBVIOUS
  <2>2. toClient \in Seq(S) /\ more \in Seq(S)  BY <1>1, <1>2, <2>1
  <2>3. toClient' \in Seq(S) /\ Joined(toClient, more, toClient')  BY <2>2, JoinIs
  <2> QED  BY <2>1, <2>3
<1>4. \A k \in {"o", "p"} : \A i \in DOMAIN exports[k] :
        i \in DOMAIN exports'[k] /\ exports'[k][i] = exports[k][i]
  <2>1. \A k \in {"o", "p"} : exports[k] \in Seq(Passed) /\ exports'[k] \in Seq(Passed)
    BY <1>1, <1>2 DEF GoodExports
  <2> QED  BY <1>2, <2>1 DEF Grown
<1>5. torn' \subseteq Session!Range(exports["p"])'
  <2>1. Session!Range(exports["p"]) \subseteq Session!Range(exports'["p"])
    BY <1>4 DEF Session!Range
  <2>2. Session!Range(exports["p"])' = Session!Range(exports'["p"])  BY DEF Session!Range
  <2> QED  BY <1>1, <1>2, <2>1, <2>2
<1>6. HoldsSlots'
  <2>1. ASSUME NEW s \in DOMAIN known
        PROVE  /\ s \in SlotSet /\ s[1] \in {"o", "p"} /\ s[2] \in DOMAIN exports'[s[1]]
               /\ known[s] = exports'[s[1]][s[2]]
    <3>1. /\ s \in SlotSet /\ s[1] \in {"o", "p"} /\ s[2] \in DOMAIN exports[s[1]]
          /\ known[s] = exports[s[1]][s[2]]
      BY <1>1 DEF HoldsSlots
    <3> QED  BY <1>4, <3>1
  <2> QED  BY <2>1 DEF HoldsSlots
<1>7. ASSUME NEW p, p \in Passed, settled[p] \in Objects \cup Plain, Session!Kind(p) = "p"
      PROVE  settled'[p] = settled[p]
  <2>1. p \in Promises  BY <1>7, KindsApart DEF Passed
  <2>2. settled[p] # Session!Unsettled  BY <1>7, KindsApart DEF Passed
  <2> QED  BY <1>2, <2>1, <2>2
<1>8. \A id \in DOMAIN exports["p"] : exports["p"][id] \in Passed /\ Session!Kind(exports["p"][id]) = "p"
  BY <1>1 DEF GoodExports
<1>9. MessagesWell'
  <2>1. ASSUME NEW i \in DOMAIN toClient'
        PROVE  /\ GoodMessage(exports', toClient'[i])
               /\ toClient'[i].type = "CTP_RESOLVE" => GoodResolve(exports', settled', toClient'[i])
    <3>1. CASE i \in DOMAIN toClient
      <4>1. PICK m : m = toClient[i]  OBVIOUS
      <4>2. toClient'[i] = m  BY <1>3, <3>1, <4>1 DEF Joined
      <4>3. GoodMessage(exports, m) /\ (m.type = "CTP_RESOLVE" => GoodResolve(exports, settled, m))
        BY <1>1, <3>1, <4>1 DEF MessagesWell
      <4>4. GoodMessage(exports', m)  BY <1>1, <1>2, <4>3, MessageStays
      <4>5. m.type = "CTP_RESOLVE" => GoodResolve(exports', settled', m)
        <5>1. SUFFICES ASSUME GoodResolve(exports, settled, m)  PROVE GoodResolve(exports', settled', m)
          BY <4>3
        <5>2. GoodResolve(exports', settled, m)  BY <1>1, <1>2, <5>1, ResolveStays
        <5>3. m.id \in DOMAIN exports["p"] /\ exports'["p"][m.id] = exports["p"][m.id]
          BY <1>4, <5>1 DEF GoodResolve
        <5>4. settled'[exports["p"][m.id]] = settled[exports["p"][m.id]]
          BY <1>7, <1>8, <5>1, <5>3 DEF GoodResolve
        <5> QED  BY <5>2, <5>3, <5>4 DEF GoodResolve
      <4> QED  BY <4>2, <4>4, <4>5
    <3>2. CASE i \notin DOMAIN toClient
      <4>1. PICK j \in DOMAIN more : toClient'[i] = more[j]  BY <1>3, <3>2 DEF Joined
      <4> QED  BY <4>1 DEF Adds
    <3> QED  BY <3>1, <3>2
  <2> QED  BY <2>1 DEF MessagesWell
<1>10. ASSUME NEW id, NEW n, n \in Nat, SlotComes(id, n), n <= Len(toClient),
              NEW k, k \in Nat, n <= k
       PROVE  SlotComes(id, k)'
  <2>1. CASE <<"p", id>> \in DOMAIN known  BY <2>1 DEF SlotComes
  <2>2. CASE \E j \in 1..n : <<"p", id>> \in Session!Range(toClient[j].slots)
    <3>1. PICK j \in 1..n : <<"p", id>> \in Session!Range(toClient[j].slots)  BY <2>2
    <3>2. j \in DOMAIN toClient  BY <1>3, <1>10, <3>1 DEF Joined
    <3>3. j \in 1..k /\ toClient'[j] = toClient[j]  BY <1>3, <1>10, <3>1, <3>2 DEF Joined
    <3> QED  BY <3>1, <3>3 DEF SlotComes, Session!Range
  <2> QED  BY <1>10, <2>1, <2>2 DEF SlotComes
<1>11. ASSUME NEW id, NEW l \in DOMAIN more, <<"p", id>> \in Session!Range(more[l].slots),
              NEW k, k \in Nat, Len(toClient) + l <= k
       PROVE  SlotComes(id, k)'
  <2>1. /\ Len(toClient) + l \in DOMAIN toClient' /\ toClient'[Len(toClient) + l] = more[l]
        /\ l \in Nat /\ Len(toClient) \in Nat
    BY <1>3 DEF Joined
  <2>2. Len(toClient) + l \in 1..k  BY <1>3, <1>11, <2>1 DEF Joined
  <2> QED  BY <1>11, <2>1, <2>2 DEF SlotComes, Session!Range
<1>12. /\ Len(toClient) \in Nat /\ Len(more) \in Nat /\ Len(toClient') \in Nat
       /\ Len(toClient') = Len(toClient) + Len(more) /\ DOMAIN toClient = 1..Len(toClient)
       /\ DOMAIN more = 1..Len(more)
  BY <1>3 DEF Joined
<1>13. ASSUME NEW id \in DOMAIN exports'["p"], exports'["p"][id] \notin torn'
       PROVE  SlotComes(id, Len(toClient))'
  <2>1. CASE id \in DOMAIN exports["p"]
    <3>1. exports["p"][id] \notin torn  BY <1>2, <1>4, <1>13, <2>1
    <3>2. SlotComes(id, Len(toClient))  BY <1>1, <2>1, <3>1 DEF PromisesWell
    <3>3. Len(toClient) <= Len(toClient')  BY <1>12
    <3>4. PICK k : k = Len(toClient')  OBVIOUS
    <3>5. SlotComes(id, k)'  BY <1>10, <1>12, <3>2, <3>3, <3>4
    <3> QED  BY <3>4, <3>5
  <2>2. CASE id \notin DOMAIN exports["p"]
    <3>1. PICK l \in DOMAIN more : <<"p", id>> \in Session!Range(more[l].slots)
      BY <1>13, <2>2 DEF Adds
    <3>2. PICK k : k = Len(toClient')  OBVIOUS
    <3>3. k \in Nat /\ Len(toClient) + l <= k  BY <1>12, <3>2
    <3>4. SlotComes(id, k)'  BY <1>11, <3>1, <3>3
    <3> QED  BY <3>2, <3>4
  <2> QED  BY <2>1, <2>2
<1>14. ASSUME NEW id \in DOMAIN exports'["p"], exports'["p"][id] \notin torn',
              settled'[exports'["p"][id]] \in Objects \cup Plain
       PROVE  \/ <<"p", id>> \in DOMAIN resolved'
              \/ \E i \in DOMAIN toClient' : toClient'[i].type = "CTP_RESOLVE" /\ toClient'[i].id = id
  <2>1. \/ id \in DOMAIN exports["p"] /\ settled[exports'["p"][id]] \in Objects \cup Plain
        \/ \E j \in DOMAIN more : more[j].type = "CTP_RESOLVE" /\ more[j].id = id
    BY <1>14 DEF Adds
  <2>2. CASE \E j \in DOMAIN more : more[j].type = "CTP_RESOLVE" /\ more[j].id = id
    <3>1. PICK j \in DOMAIN more : more[j].type = "CTP_RESOLVE" /\ more[j].id = id  BY <2>2
    <3>2. Len(toClient) + j \in DOMAIN toClient' /\ toClient'[Len(toClient) + j] = more[j]
      BY <1>3 DEF Joined
    <3> QED  BY <3>1, <3>2
  <2>3. CASE id \in DOMAIN exports["p"] /\ settled[exports'["p"][id]] \in Objects \cup Plain
    <3>1. exports["p"][id] \notin torn /\ settled[exports["p"][id]] \in Objects \cup Plain
      BY <1>2, <1>4, <1>14, <2>3
    <3>2. \/ <<"p", id>> \in DOMAIN resolved
          \/ \E i \in DOMAIN toClient : toClient[i].type = "CTP_RESOLVE" /\ toClient[i].id = id
      BY <1>1, <2>3, <3>1 DEF PromisesWell
    <3>3. \A i \in DOMAIN toClient : i \in DOMAIN toClient' /\ toClient'[i] = toClient[i]
      BY <1>3 DEF Joined
    <3> QED  BY <3>2, <3>3
  <2> QED  BY <2>1, <2>2, <2>3
<1>15. ASSUME NEW i \in DOMAIN toClient', toClient'[i].type = "CTP_RESOLVE",
              exports'["p"][toClient'[i].id] \notin torn'
       PROVE  SlotComes(toClient[i].id, i - 1)'
  <2>1. PICK id : id = toClient'[i].id  OBVIOUS
  <2>2. PICK k : k = i - 1  OBVIOUS
  <2>3. CASE i \in DOMAIN toClient
    <3>1. toClient'[i] = toClient[i] /\ i \in 1..Len(toClient)  BY <1>3, <2>3 DEF Joined
    <3>2. GoodResolve(exports, settled, toClient[i])  BY <1>1, <1>15, <2>3, <3>1 DEF MessagesWell
    <3>3. id \in DOMAIN exports["p"]  BY <2>1, <3>1, <3>2 DEF GoodResolve
    <3>4. exports["p"][id] \notin torn  BY <1>2, <1>4, <1>15, <2>1, <3>3
    <3>5. SlotComes(id, k)  BY <1>1, <1>15, <2>1, <2>2, <2>3, <3>1, <3>4 DEF PromisesWell
    <3>6. k \in Nat /\ k <= Len(toClient) /\ k <= k  BY <1>12, <2>2, <3>1
    <3>7. SlotComes(id, k)'  BY <1>10, <3>5, <3>6
    <3> QED  BY <2>1, <2>2, <3>7
  <2>4. CASE i \notin DOMAIN toClient
    <3>1. PICK j \in DOMAIN more : i = Len(toClient) + j /\ toClient'[i] = more[j]
      BY <1>3, <2>4 DEF Joined
    <3>2. j \in Nat /\ j # 0 /\ j <= Len(more) /\ k = Len(toClient) + (j - 1) /\ k \in Nat
          /\ Len(toClient) <= k
      BY <1>12, <2>2, <3>1
    <3>3. more[j].type = "CTP_RESOLVE" /\ more[j].id = id /\ exports'["p"][id] \notin torn'
      BY <1>15, <2>1, <3>1
    <3>4. \/ id \in DOMAIN exports["p"]
          \/ \E l \in 1..(j - 1) : <<"p", id>> \in Session!Range(more[l].slots)
      BY <3>3 DEF Adds
    <3>5. CASE id \in DOMAIN exports["p"]
      <4>1. exports["p"][id] \notin torn  BY <1>2, <1>4, <3>3, <3>5
      <4>2. SlotComes(id, Len(toClient))  BY <1>1, <3>5, <4>1 DEF PromisesWell
      <4>3. Len(toClient) <= Len(toClient)  BY <1>12
      <4>4. SlotComes(id, k)'  BY <1>10, <1>12, <3>2, <4>2, <4>3
      <4> QED  BY <2>1, <2>2, <4>4
    <3>6. CASE \E l \in 1..(j - 1) : <<"p", id>> \in Session!Range(more[l].slots)
      <4>1. PICK l \in 1..(j - 1) : <<"p", id>> \in Session!Range(more[l].slots)  BY <3>6
      <4>2. l \in DOMAIN more /\ Len(toClient) + l <= k  BY <1>12, <3>2, <4>1
      <4>3. SlotComes(id, k)'  BY <1>11, <3>2, <4>1, <4>2
      <4> QED  BY <2>1, <2>2, <4>3
    <3> QED  BY <3>4, <3>5, <3>6
  <2> QED  BY <2>3, <2>4
<1>16. thrown' => torn' # {}  BY <1>1, <1>2 DEF PromisesWell
<1>17. PromisesWell'  BY <1>13, <1>14, <1>15, <1>16 DEF PromisesWell
<1> QED  BY <1>2, <1>3, <1>5, <1>6, <1>9, <1>17

\* The vat returns more: each return is of a question of its own.
MoreReturns(taken, x, more) ==
    /\ taken \in Nat
    /\ \A i \in Returns(x.toClient) : x.toClient[i].id \in 1..taken
    /\ \A j \in Returns(more) :
         /\ more[j].id \in 1..taken /\ ~Returned(x, more[j].id)
         /\ \A k \in Returns(more) : more[j].id = more[k].id => j = k

\* What has been returned then.
LEMMA ReturnsJoin ==
    ASSUME NEW w, NEW x, ReturnsWell(w, x.toClient), NEW v, NEW more, MoreReturns(v.taken, x, more),
           NEW y, Joined(x.toClient, more, y.toClient)
    PROVE  /\ ReturnsWell(v, y.toClient)
           /\ \A id \in Nat : Returned(y, id) <=>
                Returned(x, id) \/ \E j \in Returns(more) : more[j].id = id
<1> DEFINE s == x.toClient
           t == y.toClient
<1>1. /\ Len(s) \in Nat
      /\ \A i \in DOMAIN s : i \in Nat /\ i \in DOMAIN t /\ t[i] = s[i]
      /\ \A j \in DOMAIN more : j \in Nat /\ Len(s) + j \in DOMAIN t /\ t[Len(s) + j] = more[j]
      /\ \A i \in DOMAIN t : i \in DOMAIN s \/ \E j \in DOMAIN more : i = Len(s) + j
  BY DEF Joined
<1>2. \A i \in Returns(t) : \/ i \in Returns(s) /\ t[i] = s[i]
                            \/ \E j \in Returns(more) : i = Len(s) + j /\ t[i] = more[j]
  BY <1>1 DEF Returns
<1>3. /\ \A i \in Returns(s) : i \in Returns(t) /\ t[i] = s[i]
      /\ \A j \in Returns(more) : Len(s) + j \in Returns(t) /\ t[Len(s) + j] = more[j]
  BY <1>1 DEF Returns
<1>4. \A id \in Nat : Returned(y, id) <=>
         Returned(x, id) \/ \E j \in Returns(more) : more[j].id = id
  BY <1>2, <1>3 DEF Returned
<1>5. ReturnsWell(v, t)
  <2>1. ASSUME NEW i \in Returns(t)  PROVE t[i].id \in 1..v.taken
    BY <1>2 DEF MoreReturns
  <2>2. ASSUME NEW i \in Returns(t), NEW j \in Returns(t), t[i].id = t[j].id  PROVE i = j
    <3>1. CASE (\E k \in Returns(more) : i = Len(s) + k /\ t[i] = more[k])
               /\ (\E k \in Returns(more) : j = Len(s) + k /\ t[j] = more[k])
      BY <2>2, <3>1 DEF MoreReturns
    <3>2. CASE i \in Returns(s) /\ t[i] = s[i] /\ j \in Returns(s) /\ t[j] = s[j]
      BY <2>2, <3>2 DEF ReturnsWell
    <3>3. CASE (\E k \in Returns(more) : i = Len(s) + k /\ t[i] = more[k])
               /\ j \in Returns(s) /\ t[j] = s[j]
      BY <2>2, <3>3 DEF MoreReturns, Returned
    <3>4. CASE (\E k \in Returns(more) : j = Len(s) + k /\ t[j] = more[k])
               /\ i \in Returns(s) /\ t[i] = s[i]
      BY <2>2, <3>4 DEF MoreReturns, Returned
    <3> QED  BY <1>2, <3>1, <3>2, <3>3, <3>4
  <2> QED  BY <2>1, <2>2 DEF ReturnsWell
<1> QED  BY <1>4, <1>5

\* A question that the vat takes is open.
Served(w, st, v, new, open) ==
    /\ ClientInv(v, new, {}, open \cup {v.taken})
    /\ v.taken \in DOMAIN st.questions /\ st.questions[v.taken] \in DOMAIN w.made
    /\ Head(st.toVat) \in ToVatSet /\ Head(st.toVat).questionID = v.taken
    /\ Head(st.toVat).n = st.questions[v.taken]
    /\ Head(st.toVat).type = "CTP_CALL" => CallWell(w, st, Head(st.toVat))
    /\ w.taken \in Nat /\ v.taken \in Nat

\* So it is when it is taken from the questions on their way.
LEMMA ClientServed ==
    ASSUME NEW w, NEW st, NEW open, open \in SUBSET Nat, ClientInv(w, st, {}, open), st.toVat # <<>>,
           NEW v, v.made = w.made, v.known = w.known, v.settled = w.settled, v.taken = w.taken + 1,
           NEW new, new.questions = st.questions, new.toVat = Tail(st.toVat),
           new.answer = st.answer, new.postponed = st.postponed
    PROVE  Served(w, st, v, new, open)
<1>1. /\ st.questions \in Seq(DOMAIN w.made) /\ st.toVat \in Seq(ToVatSet)
      /\ w.taken \in Nat /\ Len(st.questions) = w.taken + Len(st.toVat)
      /\ \A i \in DOMAIN st.toVat :
           /\ st.toVat[i].questionID = w.taken + i
           /\ st.toVat[i].n = st.questions[w.taken + i]
           /\ st.toVat[i].type = "CTP_CALL" => CallWell(w, st, st.toVat[i])
  BY DEF ClientInv, QuestionsWell, ToVatWell
<1>2. TailOf(st.toVat, new.toVat) /\ new.toVat \in Seq(ToVatSet) /\ Head(st.toVat) = st.toVat[1]
      /\ Head(st.toVat) \in ToVatSet
  <2>1. PICK S : S = ToVatSet  OBVIOUS
  <2>2. st.toVat \in Seq(S)  BY <1>1, <2>1
  <2>3. TailOf(st.toVat, new.toVat) /\ new.toVat \in Seq(S) /\ Head(st.toVat) = st.toVat[1]
        /\ Head(st.toVat) \in S
    BY <2>2, TailIs
  <2> QED  BY <2>1, <2>3
<1>3. /\ Len(st.toVat) \in Nat /\ Len(new.toVat) \in Nat /\ Len(st.toVat) = Len(new.toVat) + 1
      /\ 1 \in DOMAIN st.toVat
      /\ \A i \in DOMAIN new.toVat : /\ i \in Nat /\ i + 1 \in DOMAIN st.toVat
                                     /\ new.toVat[i] = st.toVat[i + 1]
  BY <1>2 DEF TailOf
<1>4. v.taken \in Nat /\ v.taken \in DOMAIN st.questions /\ st.questions[v.taken] \in DOMAIN w.made
  <2>1. PICK S : S = DOMAIN w.made  OBVIOUS
  <2>2. PICK s : s = st.questions  OBVIOUS
  <2>3. s \in Seq(S) /\ Len(s) = w.taken + (Len(new.toVat) + 1)  BY <1>1, <1>3, <2>1, <2>2
  <2>4. w.taken + 1 \in DOMAIN s /\ s[w.taken + 1] \in S  BY <1>1, <1>3, <2>3
  <2> QED  BY <1>1, <2>1, <2>2, <2>4
<1>5. QuestionsWell(v, new)
  <2>1. QuestionsWell(w, st) /\ \A n : Ref(v, n) = Ref(w, n)  BY DEF ClientInv, Ref
  <2> QED  BY <2>1 DEF QuestionsWell
<1>6. LaterWell(v, new, {})
  <2>1. LaterWell(w, st, {}) /\ \A n : Ref(v, n) = Ref(w, n)  BY DEF ClientInv, Ref
  <2> QED  BY <2>1 DEF LaterWell
<1>7. ToVatWell(v, new)
  <2>1. ASSUME NEW i \in DOMAIN new.toVat
        PROVE  /\ new.toVat[i].questionID = v.taken + i
               /\ new.toVat[i].n = new.questions[v.taken + i]
               /\ new.toVat[i].type = "CTP_CALL" => CallWell(v, new, new.toVat[i])
    <3>1. i \in Nat /\ i + 1 \in DOMAIN st.toVat /\ new.toVat[i] = st.toVat[i + 1]
          /\ v.taken + i = w.taken + (i + 1)
      <4>1. i \in Nat /\ i + 1 \in DOMAIN st.toVat /\ new.toVat[i] = st.toVat[i + 1]  BY <1>3
      <4>2. \A a, b \in Nat : (a + 1) + b = a + (b + 1)  OBVIOUS
      <4>3. v.taken + i = w.taken + (i + 1)  BY <1>1, <4>1, <4>2
      <4> QED  BY <4>1, <4>3
    <3>2. PICK m : m = new.toVat[i]  OBVIOUS
    <3>3. /\ m.questionID = w.taken + (i + 1) /\ m.n = st.questions[w.taken + (i + 1)]
          /\ m.type = "CTP_CALL" => CallWell(w, st, m)
      BY <1>1, <3>1, <3>2
    <3>4. CallWell(w, st, m) => CallWell(v, new, m)
      BY DEF CallWell, RefKnown, RefSlot, Ref
    <3> QED  BY <3>1, <3>2, <3>3, <3>4
  <2>2. Len(new.questions) = v.taken + Len(new.toVat)
    <3>1. PICK a, b, c : a = Len(new.toVat) /\ b = w.taken /\ c = Len(st.toVat)  OBVIOUS
    <3>2. a \in Nat /\ b \in Nat /\ c = a + 1  BY <1>1, <1>3, <3>1
    <3>3. v.taken = b + 1 /\ Len(st.questions) = b + c  BY <1>1, <3>1
    <3>4. Len(st.questions) = v.taken + a  BY ONLY <3>2, <3>3
    <3> QED  BY <3>1, <3>4
  <2> QED  BY <1>2, <1>4, <2>1, <2>2 DEF ToVatWell
<1>8. AnswersWell(v, new, {}, open \cup {v.taken})
  <2>1. \A i \in DOMAIN st.questions : i \in Nat  BY <1>1
  <2>2. \A i \in Nat : (i > v.taken \/ i \in open \cup {v.taken}) <=> (i > w.taken \/ i \in open)
    <3>1. \A a, i \in Nat : i > a <=> i > a + 1 \/ i = a + 1  OBVIOUS
    <3> QED  BY <1>1, <3>1
  <2>3. \A i \in DOMAIN st.questions :
          (i > v.taken \/ i \in open \cup {v.taken}) <=> (i > w.taken \/ i \in open)
    BY <2>1, <2>2
  <2>4. AnswersWell(w, st, {}, open)  BY DEF ClientInv
  <2>5. ASSUME NEW n \in Session!Numbers
        PROVE  (\E i \in DOMAIN new.questions :
                  new.questions[i] = n /\ (i > v.taken \/ i \in open \cup {v.taken}))
               <=> \E i \in DOMAIN st.questions : st.questions[i] = n /\ (i > w.taken \/ i \in open)
    BY <2>3
  <2> QED  BY <2>4, <2>5 DEF AnswersWell
<1>9. ClientInv(v, new, {}, open \cup {v.taken})  BY <1>5, <1>6, <1>7, <1>8 DEF ClientInv
<1>10. /\ Head(st.toVat).questionID = v.taken /\ Head(st.toVat).n = st.questions[v.taken]
       /\ Head(st.toVat).type = "CTP_CALL" => CallWell(w, st, Head(st.toVat))
  BY <1>1, <1>2, <1>3
<1> QED  BY <1>1, <1>2, <1>4, <1>9, <1>10 DEF Served

\* An exception is an answer of its own.
LEMMA ExceptionIs ==
    ASSUME GoodExports(exports), NEW c, c.questionID \in Nat, NEW e, e = Session!Exception(c)
    PROVE  /\ e \in ToClientSet /\ e.type = "CTP_RETURN" /\ e.id = c.questionID
           /\ GoodMessage(exports, e)
<1> DEFINE vals == <<Session!Broken>>
<1>1. vals \in Seq(Passed \cup Plain) /\ vals # <<>> /\ \A i \in DOMAIN vals : HasSlot(exports, vals[i])
  BY DEF Plain, HasSlot
<1>2. e = Session!Message("CTP_RETURN", c.questionID, exports, vals)
  BY DEF Session!Exception, Session!Return
<1> HIDE DEF vals
<1> QED  BY <1>1, <1>2, MessageIs

\* Answers alone, of values that have slots, can always be added.
LEMMA AddsAnswers ==
    ASSUME SessionInv, NEW more \in Seq(ToClientSet),
           \A j \in DOMAIN more : more[j].type = "CTP_RETURN" /\ GoodMessage(exports, more[j])
    PROVE  Adds(exports, settled, torn, more)
<1>1. GoodExports(exports) /\ torn \subseteq Session!Range(exports["p"])
  BY DEF SessionInv, SessionTypes
<1>2. Grown(exports, exports)  BY <1>1, GrowsNot
<1> QED  BY <1>1, <1>2 DEF Adds

\* The promises that get a slot with an answer, and what tells of them.
GivesSlots(vals, s) ==
    /\ GoodExports(s.ex) /\ Grown(exports, s.ex) /\ s.told \in Seq(ToClientSet)
    /\ \A j \in DOMAIN s.told :
         /\ s.told[j].type = "CTP_RESOLVE" /\ GoodMessage(s.ex, s.told[j])
         /\ GoodResolve(s.ex, settled, s.told[j])
         /\ s.told[j].id \in DOMAIN s.ex["p"] /\ s.told[j].id \notin DOMAIN exports["p"]
    /\ \A id \in DOMAIN s.ex["p"] : id \notin DOMAIN exports["p"] =>
         /\ s.ex["p"][id] \in Session!Range(vals)
         /\ s.ex["p"][id] \notin Session!Range(exports["p"])
         /\ settled[s.ex["p"][id]] \in Objects \cup Plain =>
              \E j \in DOMAIN s.told : s.told[j].id = id
    /\ \A id \in DOMAIN exports["p"] : s.ex["p"][id] = exports["p"][id] /\ id \in DOMAIN s.ex["p"]

\* Serializing does that.
LEMMA NewSlots ==
    ASSUME SessionInv, NEW vals \in Seq(Passed \cup Plain \cup {Session!Bad}),
           NEW s, s = Session!Serialize(vals)
    PROVE  GivesSlots(vals, s)
<1>1. GoodExports(exports) /\ SessionTypes  BY DEF SessionInv
<1>2. /\ GoodExports(s.ex) /\ Grown(exports, s.ex)
      /\ \A i \in DOMAIN s.ex["p"] :
           i \in DOMAIN exports["p"] \/ s.ex["p"][i] \in Session!Range(vals)
      /\ Told(s.ex, s.told, Len(s.ex["p"]))
  BY <1>1, SerializeIs
<1>3. /\ exports["p"] \in Seq(Passed) /\ s.ex["p"] \in Seq(Passed)
      /\ Len(exports["p"]) \in Nat /\ Len(s.ex["p"]) \in Nat
      /\ DOMAIN exports["p"] = 1..Len(exports["p"]) /\ DOMAIN s.ex["p"] = 1..Len(s.ex["p"])
  BY <1>1, <1>2 DEF GoodExports
<1>4. \A id \in DOMAIN exports["p"] : s.ex["p"][id] = exports["p"][id] /\ id \in DOMAIN s.ex["p"]
  <2>1. Len(exports["p"]) <= Len(s.ex["p"]) /\ \A id \in DOMAIN exports["p"] : s.ex["p"][id] = exports["p"][id]
    BY <1>2 DEF Grown
  <2> QED  BY <1>3, <2>1
<1>5. ASSUME NEW id \in DOMAIN s.ex["p"], id \notin DOMAIN exports["p"]
      PROVE  /\ s.ex["p"][id] \in Session!Range(vals)
             /\ s.ex["p"][id] \notin Session!Range(exports["p"])
             /\ settled[s.ex["p"][id]] \in Objects \cup Plain =>
                  \E j \in DOMAIN s.told : s.told[j].id = id
  <2>1. s.ex["p"][id] \in Session!Range(vals)  BY <1>2, <1>5
  <2>2. ASSUME NEW i \in DOMAIN exports["p"], exports["p"][i] = s.ex["p"][id]  PROVE FALSE
    <3>1. i \in DOMAIN s.ex["p"] /\ s.ex["p"][i] = s.ex["p"][id]  BY <1>4, <2>2
    <3>2. i = id  BY <1>2, <3>1 DEF GoodExports
    <3> QED  BY <1>5, <2>2, <3>2
  <2>3. s.ex["p"][id] \notin Session!Range(exports["p"])  BY <2>2 DEF Session!Range
  <2>4. id \in (Len(exports["p"]) + 1)..Len(s.ex["p"])  BY <1>3, <1>5
  <2> QED  BY <1>2, <2>1, <2>3, <2>4 DEF Told
<1>6. ASSUME NEW j \in DOMAIN s.told
      PROVE  /\ s.told[j].type = "CTP_RESOLVE" /\ GoodMessage(s.ex, s.told[j])
             /\ GoodResolve(s.ex, settled, s.told[j])
             /\ s.told[j].id \in DOMAIN s.ex["p"] /\ s.told[j].id \notin DOMAIN exports["p"]
  <2>1. /\ s.told[j].type = "CTP_RESOLVE" /\ GoodMessage(s.ex, s.told[j])
        /\ GoodResolve(s.ex, settled, s.told[j]) /\ s.told[j].id > Len(exports["p"])
    BY <1>2 DEF Told
  <2>2. s.told[j].id \in DOMAIN s.ex["p"]  BY <2>1 DEF GoodResolve
  <2>3. s.told[j].id \notin 1..Len(exports["p"])  BY <1>3, <2>1, <2>2
  <2> QED  BY <1>3, <2>1, <2>2, <2>3
<1>7. s.told \in Seq(ToClientSet)  BY <1>2 DEF Told
<1> QED  BY <1>2, <1>4, <1>5, <1>6, <1>7 DEF GivesSlots

\* What is sent with the answer to a question.
SentWith(s, lost, more, r, id) ==
    /\ Adds(s.ex, settled, lost, more) /\ \E n : Returns(more) = {n} /\ more[n].id = id
    /\ <<r>> \in Seq(ToClientSet) /\ s.told \in Seq(ToClientSet)

\* An answer goes before what tells of its promises.
LEMMA SendsReturn ==
    ASSUME SessionInv, NEW vals \in Seq(Passed \cup Plain), vals # <<>>,
           NEW s, s = Session!Serialize(vals), NEW c, c.questionID \in Nat,
           NEW r, r = Session!Return(c, s.ex, vals), NEW more, more = <<r>> \o s.told
    PROVE  SentWith(s, torn, more, r, c.questionID)
<1>0. Session!Bad \notin Session!Range(vals)  BY KindsApart DEF Session!Range
<1>1. vals \in Seq(Passed \cup Plain \cup {Session!Bad})  OBVIOUS
<1>2. /\ GoodExports(s.ex) /\ Grown(exports, s.ex) /\ s.told \in Seq(ToClientSet)
      /\ \A j \in DOMAIN s.told :
           /\ s.told[j].type = "CTP_RESOLVE" /\ GoodMessage(s.ex, s.told[j])
           /\ GoodResolve(s.ex, settled, s.told[j])
           /\ s.told[j].id \in DOMAIN s.ex["p"] /\ s.told[j].id \notin DOMAIN exports["p"]
      /\ \A id \in DOMAIN s.ex["p"] : id \notin DOMAIN exports["p"] =>
           /\ s.ex["p"][id] \in Session!Range(vals)
           /\ settled[s.ex["p"][id]] \in Objects \cup Plain =>
                \E j \in DOMAIN s.told : s.told[j].id = id
      /\ \A id \in DOMAIN exports["p"] : s.ex["p"][id] = exports["p"][id] /\ id \in DOMAIN s.ex["p"]
  <2>1. GivesSlots(vals, s)  BY <1>1, NewSlots
  <2> QED  BY <2>1 DEF GivesSlots
<1>3. \A i \in DOMAIN vals : HasSlot(s.ex, vals[i])
  <2>1. GoodExports(exports) /\ SessionTypes  BY DEF SessionInv
  <2> QED  BY <1>0, <1>1, <2>1, SerializeIs
<1>4. /\ r \in ToClientSet /\ r.type = "CTP_RETURN" /\ r.id = c.questionID /\ r.vals = vals
      /\ GoodMessage(s.ex, r)
  <2>1. r = Session!Message("CTP_RETURN", c.questionID, s.ex, vals)  BY DEF Session!Return
  <2> QED  BY <1>2, <1>3, <2>1, MessageIs
<1>5. /\ Joined(<<r>>, s.told, more) /\ more \in Seq(ToClientSet) /\ <<r>> \in Seq(ToClientSet)
  <2>1. PICK S : S = ToClientSet  OBVIOUS
  <2>2. <<r>> \in Seq(S) /\ s.told \in Seq(S)  BY <1>2, <1>4, <2>1
  <2>3. Joined(<<r>>, s.told, more) /\ more \in Seq(S)  BY <2>2, JoinIs
  <2> QED  BY <2>1, <2>2, <2>3
<1>6. /\ 1 \in DOMAIN more /\ more[1] = r
      /\ \A j \in DOMAIN s.told : j \in Nat /\ 1 + j \in DOMAIN more /\ more[1 + j] = s.told[j]
      /\ \A i \in DOMAIN more : i \in Nat /\ (i = 1 \/ \E j \in DOMAIN s.told : i = 1 + j)
      /\ \A j \in DOMAIN s.told : j # 0
  <2>1. PICK one : one = <<r>>  OBVIOUS
  <2>2. PICK told : told = s.told  OBVIOUS
  <2>3. Joined(one, told, more)  BY <1>5, <2>1, <2>2
  <2>4. Len(one) = 1 /\ DOMAIN one = {1} /\ one[1] = r  BY <2>1
  <2>5. 1 \in DOMAIN more /\ more[1] = r  BY <2>3, <2>4 DEF Joined
  <2>6. \A j \in DOMAIN told : j \in Nat /\ 1 + j \in DOMAIN more /\ more[1 + j] = told[j]
    BY <2>3, <2>4 DEF Joined
  <2>7. \A i \in DOMAIN more : i \in Nat /\ (i = 1 \/ \E j \in DOMAIN told : i = 1 + j)
    BY <2>3, <2>4 DEF Joined
  <2>8. \A j \in DOMAIN told : j # 0  BY <2>3 DEF Joined
  <2> QED  BY <2>2, <2>5, <2>6, <2>7, <2>8
<1>7. ASSUME NEW id \in DOMAIN s.ex["p"], id \notin DOMAIN exports["p"]
      PROVE  <<"p", id>> \in Session!Range(more[1].slots)
  <2>1. PICK i \in DOMAIN vals : vals[i] = s.ex["p"][id]  BY <1>2, <1>7 DEF Session!Range
  <2>2. /\ SlotIs(s.ex, r.slots[i], vals[i]) /\ i \in DOMAIN r.slots
    BY <1>4 DEF GoodMessage
  <2>3. Session!Kind(vals[i]) = "p" /\ vals[i] \in Passed
    <3>1. s.ex["p"] \in Seq(Passed)  BY <1>2 DEF GoodExports
    <3>2. s.ex["p"][id] \in Passed  BY <3>1
    <3>3. Session!Kind(s.ex["p"][id]) = "p"  BY <1>2 DEF GoodExports
    <3> QED  BY <2>1, <3>2, <3>3
  <2>4. PICK t : t = r.slots[i]  OBVIOUS
  <2>5. t \in SlotSet /\ t[1] = "p" /\ t[2] \in DOMAIN s.ex["p"] /\ s.ex["p"][t[2]] = s.ex["p"][id]
    BY <2>1, <2>2, <2>3, <2>4, KindsApart DEF SlotIs
  <2>6. t[2] = id  BY <1>2, <2>5 DEF GoodExports
  <2>7. t = <<"p", id>>  BY <2>5, <2>6 DEF SlotSet
  <2> QED  BY <1>6, <2>2, <2>4, <2>7 DEF Session!Range
<1>8. ASSUME NEW i \in DOMAIN more
      PROVE  /\ GoodMessage(s.ex, more[i])
             /\ more[i].type = "CTP_RESOLVE" =>
                  /\ GoodResolve(s.ex, settled, more[i])
                  /\ \E l \in 1..(i - 1) : <<"p", more[i].id>> \in Session!Range(more[l].slots)
             /\ more[i].type = "CTP_RETURN" => i = 1
  <2>1. CASE i = 1  BY <1>4, <1>6, <2>1
  <2>2. CASE i # 1
    <3>1. PICK j \in DOMAIN s.told : i = 1 + j /\ more[i] = s.told[j] /\ j \in Nat /\ j # 0
      BY <1>6, <2>2
    <3>2. 1 \in 1..(i - 1)  BY <3>1
    <3>3. /\ s.told[j].type = "CTP_RESOLVE" /\ GoodMessage(s.ex, s.told[j])
          /\ GoodResolve(s.ex, settled, s.told[j])
          /\ s.told[j].id \in DOMAIN s.ex["p"] /\ s.told[j].id \notin DOMAIN exports["p"]
      BY <1>2
    <3>4. <<"p", s.told[j].id>> \in Session!Range(more[1].slots)  BY <1>7, <3>3
    <3> QED  BY <3>1, <3>2, <3>3, <3>4
  <2> QED  BY <2>1, <2>2
<1>9. Returns(more) = {1}
  <2>1. \A i : i \in Returns(more) <=> i = 1  BY <1>4, <1>6, <1>8 DEF Returns
  <2> QED  BY <2>1
<1>10. ASSUME NEW id \in DOMAIN s.ex["p"]
       PROVE  /\ \/ id \in DOMAIN exports["p"]
                 \/ \E l \in DOMAIN more : <<"p", id>> \in Session!Range(more[l].slots)
              /\ settled[s.ex["p"][id]] \in Objects \cup Plain =>
                   \/ id \in DOMAIN exports["p"] /\ settled[s.ex["p"][id]] \in Objects \cup Plain
                   \/ \E j \in DOMAIN more : more[j].type = "CTP_RESOLVE" /\ more[j].id = id
  <2>1. CASE id \in DOMAIN exports["p"]  BY <2>1
  <2>2. CASE id \notin DOMAIN exports["p"]
    <3>1. <<"p", id>> \in Session!Range(more[1].slots) /\ 1 \in DOMAIN more  BY <1>6, <1>7, <2>2
    <3>2. ASSUME settled[s.ex["p"][id]] \in Objects \cup Plain
          PROVE  \E j \in DOMAIN more : more[j].type = "CTP_RESOLVE" /\ more[j].id = id
      <4>1. PICK j \in DOMAIN s.told : s.told[j].id = id  BY <1>2, <2>2, <3>2
      <4>2. 1 + j \in DOMAIN more /\ more[1 + j] = s.told[j]  BY <1>6
      <4>3. s.told[j].type = "CTP_RESOLVE"  BY <1>2
      <4> QED  BY <4>1, <4>2, <4>3
    <3> QED  BY <3>1, <3>2
  <2> QED  BY <2>1, <2>2
<1>11. torn \subseteq torn \cup Session!Range(s.ex["p"])  OBVIOUS
<1>12. Adds(s.ex, settled, torn, more)
  <2>1. \A j \in DOMAIN more :
          /\ GoodMessage(s.ex, more[j])
          /\ more[j].type = "CTP_RESOLVE" =>
               /\ GoodResolve(s.ex, settled, more[j])
               /\ \/ s.ex["p"][more[j].id] \in torn \/ more[j].id \in DOMAIN exports["p"]
                  \/ \E l \in 1..(j - 1) : <<"p", more[j].id>> \in Session!Range(more[l].slots)
    BY <1>8
  <2>2. \A q \in Promises : settled[q] # Session!Unsettled => settled[q] = settled[q]  OBVIOUS
  <2>3. GoodExports(s.ex) /\ Grown(exports, s.ex)  BY <1>2
  <2> QED  BY <1>5, <1>10, <1>11, <2>1, <2>2, <2>3 DEF Adds
<1>13. \E n : Returns(more) = {n} /\ more[n].id = c.questionID
  <2>1. Returns(more) = {1} /\ more[1].id = c.questionID  BY <1>4, <1>6, <1>9
  <2> QED  BY <2>1
<1> QED  BY <1>2, <1>5, <1>12, <1>13 DEF SentWith

\* An answer that cannot be sent leaves slots behind, and tells of them in vain.
LEMMA SendsException ==
    ASSUME SessionInv, NEW vals \in Seq(Passed \cup Plain \cup {Session!Bad}),
           NEW s, s = Session!Serialize(vals), NEW c, c.questionID \in Nat,
           NEW r, r = Session!Exception(c), NEW more, more = s.told \o <<r>>,
           NEW lost, lost = torn \cup (Session!Range(s.ex["p"]) \ Session!Range(exports["p"]))
    PROVE  SentWith(s, lost, more, r, c.questionID)
<1>1. GoodExports(exports)  BY DEF SessionInv
<1>2. /\ GoodExports(s.ex) /\ Grown(exports, s.ex) /\ s.told \in Seq(ToClientSet)
      /\ \A j \in DOMAIN s.told :
           /\ s.told[j].type = "CTP_RESOLVE" /\ GoodMessage(s.ex, s.told[j])
           /\ GoodResolve(s.ex, settled, s.told[j])
           /\ s.told[j].id \in DOMAIN s.ex["p"] /\ s.told[j].id \notin DOMAIN exports["p"]
      /\ \A id \in DOMAIN s.ex["p"] : id \notin DOMAIN exports["p"] =>
           s.ex["p"][id] \notin Session!Range(exports["p"])
      /\ \A id \in DOMAIN exports["p"] : s.ex["p"][id] = exports["p"][id] /\ id \in DOMAIN s.ex["p"]
  <2>1. GivesSlots(vals, s)  BY NewSlots
  <2> QED  BY <2>1 DEF GivesSlots
<1>3. \A id \in DOMAIN s.ex["p"] : id \notin DOMAIN exports["p"] => s.ex["p"][id] \in lost
  BY <1>2 DEF Session!Range
<1>4. /\ r \in ToClientSet /\ r.type = "CTP_RETURN" /\ r.id = c.questionID /\ GoodMessage(exports, r)
  BY <1>1, ExceptionIs
<1>5. GoodMessage(s.ex, r)  BY <1>1, <1>2, <1>4, MessageStays
<1>6. /\ Joined(s.told, <<r>>, more) /\ more \in Seq(ToClientSet) /\ <<r>> \in Seq(ToClientSet)
  <2>1. PICK S : S = ToClientSet  OBVIOUS
  <2>2. <<r>> \in Seq(S) /\ s.told \in Seq(S)  BY <1>2, <1>4, <2>1
  <2>3. Joined(s.told, <<r>>, more) /\ more \in Seq(S)  BY <2>2, JoinIs
  <2> QED  BY <2>1, <2>2, <2>3
<1> DEFINE n == Len(s.told) + 1
<1>7. /\ n \in DOMAIN more /\ more[n] = r
      /\ \A i \in DOMAIN more : i = n \/ (i \in DOMAIN s.told /\ more[i] = s.told[i])
  <2>1. Len(<<r>>) = 1 /\ DOMAIN <<r>> = {1} /\ <<r>>[1] = r  OBVIOUS
  <2> QED  BY <1>6, <2>1 DEF Joined
<1> HIDE DEF n
<1>8. ASSUME NEW i \in DOMAIN more
      PROVE  /\ GoodMessage(s.ex, more[i])
             /\ more[i].type = "CTP_RESOLVE" =>
                  GoodResolve(s.ex, settled, more[i]) /\ s.ex["p"][more[i].id] \in lost
             /\ more[i].type = "CTP_RETURN" => i = n
  <2>1. CASE i = n  BY <1>4, <1>5, <1>7, <2>1
  <2>2. CASE i # n
    <3>1. i \in DOMAIN s.told /\ more[i] = s.told[i]  BY <1>7, <2>2
    <3> QED  BY <1>2, <1>3, <3>1
  <2> QED  BY <2>1, <2>2
<1>9. Returns(more) = {n} /\ more[n].id = c.questionID
  <2>1. \A i : i \in Returns(more) <=> i = n  BY <1>4, <1>7, <1>8 DEF Returns
  <2> QED  BY <1>4, <1>7, <2>1
<1>10. \A id \in DOMAIN s.ex["p"] : s.ex["p"][id] \notin lost => id \in DOMAIN exports["p"]
  BY <1>3
<1>11. Adds(s.ex, settled, lost, more)
  BY <1>2, <1>6, <1>8, <1>10 DEF Adds
<1> QED  BY <1>2, <1>6, <1>9, <1>11 DEF SentWith

\* A step of the vat keeps the invariant if each part of it stays right.
LEMMA AfterVat ==
    ASSUME SessionInv, NEW more, Adds(exports', settled', torn', more),
           toClient' = toClient \o more,
           UNCHANGED <<made, answer, postponed, questions, known, resolved, thrown>>,
           settled' \in [Promises -> Objects \cup Plain \cup {Session!Bad, Session!Unsettled}],
           waiting' \in [Promises -> Seq(CallSet)], running' \subseteq [n : Nat, questionID : Nat],
           executed' \in Seq([n : Nat, object : Objects, args : Seq(Passed)]),
           ClientInv(World', Session!Client', {}, Open(Vat')), ResolvedWell(World', resolved),
           PlacesWell(World', Session!Client', Vat'), WaitingWell(World', Session!Client', Vat'),
           ExecutedWell(World', Session!Client', Vat')
    PROVE  SessionInv'
<1>1. /\ toClient' \in Seq(ToClientSet)
      /\ GoodExports(exports') /\ torn' \subseteq Session!Range(exports["p"])'
      /\ HoldsSlots' /\ MessagesWell' /\ PromisesWell'
  BY AddsWell
<1>2. SessionTypes'  BY <1>1 DEF SessionTypes
<1>3. PICK w : w = World  OBVIOUS
<1>4. PICK v : v = World'  OBVIOUS
<1>5. v.made = w.made /\ v.known = w.known  BY <1>3, <1>4 DEF World
<1>6. KnownWell(w) /\ MadeWell(w) /\ NoneLeft(Session!Client)  BY <1>3 DEF SessionInv
<1>7. KnownWell(v) /\ MadeWell(v)  BY <1>5, <1>6 DEF KnownWell, MadeWell
<1>8. NoneLeft(Session!Client')  BY <1>6 DEF NoneLeft, Session!Client
<1>9. ResolvedWell(World', resolved')  OBVIOUS
<1>10. KnownWell(World') /\ MadeWell(World')  BY <1>4, <1>7
<1> QED  BY <1>1, <1>2, <1>8, <1>9, <1>10 DEF SessionInv

\* A question that the vat takes, before it is seen to.
Serves(w, v, new, x, m) ==
    /\ v.made = w.made /\ v.known = w.known /\ v.settled = w.settled /\ v.taken = w.taken + 1
    /\ w.taken \in Nat /\ v.taken \in Nat
    /\ KnownWell(v) /\ MadeWell(v) /\ QuestionsWell(v, new)
    /\ ClientInv(v, new, {}, Open(x) \cup {v.taken})
    /\ VatTypes(x) /\ PlacesWell(v, new, x) /\ WaitingWell(v, new, x) /\ ExecutedWell(v, new, x)
    /\ Open(x) \subseteq 1..w.taken /\ v.taken \notin Open(x) /\ v.taken \in 1..v.taken
    /\ \A i \in DOMAIN x.executed : \E k \in 1..w.taken : x.executed[i].n = new.questions[k]
    /\ m \in ToVatSet /\ m.questionID = v.taken /\ m.n = new.questions[v.taken]
    /\ v.taken \in DOMAIN new.questions /\ m.n \in DOMAIN v.made
    /\ m.type = "CTP_CALL" => CallWell(v, new, m)

\* What is open is a question that the vat has taken.
LEMMA OpenTaken ==
    ASSUME NEW w, NEW st, NEW x, PlacesWell(w, st, x)
    PROVE  Open(x) \subseteq 1..w.taken
BY DEF PlacesWell, ReturnsWell, Open, Waited, Ran, Returned

\* The vat takes the oldest question.
LEMMA ServesIs ==
    ASSUME SessionInv, toVat # <<>>, toVat' = Tail(toVat),
           UNCHANGED <<settled, made, answer, postponed, questions, known, resolved>>
    PROVE  /\ Serves(World, World', Session!Client', Vat, Head(toVat))
           /\ ResolvedWell(World', resolved)
<1>1. PICK w : w = World  OBVIOUS
<1>2. PICK v : v = World'  OBVIOUS
<1>3. PICK st : st = Session!Client  OBVIOUS
<1>4. PICK new : new = Session!Client'  OBVIOUS
<1>5. PICK x : x = Vat  OBVIOUS
<1>6. PICK m : m = Head(toVat)  OBVIOUS
<1>7. /\ VatTypes(x) /\ KnownWell(w) /\ MadeWell(w) /\ ClientInv(w, st, {}, Open(x))
      /\ PlacesWell(w, st, x) /\ WaitingWell(w, st, x) /\ ExecutedWell(w, st, x)
      /\ ReturnsWell(w, x.toClient) /\ w.taken \in Nat
      /\ st.answer \in [Session!Numbers -> Seq(SlotSet)] /\ ResolvedWell(w, st.resolved)
  BY <1>1, <1>3, <1>5, EndsAre
<1>8. \A k \in 1..w.taken : st.questions[k] \in DOMAIN w.made
  BY <1>1, <1>3, EndsAre DEF Session!Client
<1>9. /\ st.questions = questions /\ st.toVat = toVat
      /\ new.questions = st.questions /\ new.toVat = Tail(st.toVat)
      /\ new.answer = st.answer /\ new.postponed = st.postponed /\ st.resolved = resolved
  BY <1>3, <1>4 DEF Session!Client
<1>10. /\ v.made = w.made /\ v.known = w.known /\ v.settled = w.settled
       /\ w.taken = Len(questions) - Len(toVat) /\ v.taken = Len(questions) - Len(toVat')
  BY <1>1, <1>2 DEF World
<1>11. v.taken = w.taken + 1
  <2>1. toVat \in Seq(ToVatSet) /\ questions \in Seq(DOMAIN w.made)
    BY <1>7, <1>9 DEF ClientInv, QuestionsWell, ToVatWell
  <2>2. TailOf(toVat, toVat')
    <3>1. PICK S : S = ToVatSet  OBVIOUS
    <3>2. toVat \in Seq(S)  BY <2>1, <3>1
    <3> QED  BY <3>2, TailIs
  <2>3. Len(toVat) = Len(toVat') + 1 /\ Len(toVat') \in Nat  BY <2>2 DEF TailOf
  <2>4. Len(questions) \in Nat
    <3>1. PICK S : S = DOMAIN w.made  OBVIOUS
    <3>2. questions \in Seq(S)  BY <2>1, <3>1
    <3> QED  BY <3>2
  <2> QED  BY <1>10, <2>3, <2>4
<1>12. Open(x) \in SUBSET Nat  BY DEF Open
<1>13. /\ ClientInv(v, new, {}, Open(x) \cup {v.taken})
       /\ v.taken \in DOMAIN st.questions /\ st.questions[v.taken] \in DOMAIN w.made
       /\ m \in ToVatSet /\ m.questionID = v.taken /\ m.n = st.questions[v.taken]
       /\ m.type = "CTP_CALL" => CallWell(w, st, m)
       /\ v.taken \in Nat
  <2>1. PICK open : open = Open(x)  OBVIOUS
  <2>2. st.toVat # <<>> /\ open \in SUBSET Nat /\ ClientInv(w, st, {}, open)
    BY <1>7, <1>9, <1>12, <2>1
  <2>3. Served(w, st, v, new, open)  BY <1>9, <1>10, <1>11, <2>2, ClientServed
  <2> QED  BY <1>6, <1>9, <2>1, <2>3 DEF Served
<1>14. KnownWell(v) /\ MadeWell(v) /\ ResolvedWell(v, resolved)
  BY <1>7, <1>9, <1>10 DEF KnownWell, MadeWell, ResolvedWell
<1>15. Further(w, st, v, new)
  <2>1. w.made \in Seq(MadeSet)  BY <1>7 DEF MadeWell
  <2>2. Len(w.made) <= Len(w.made)  BY <2>1
  <2> QED  BY <1>9, <1>10, <2>2 DEF Further
<1>16. PlacesWell(v, new, x) /\ WaitingWell(v, new, x) /\ ExecutedWell(v, new, x)
  <2>1. w.taken <= v.taken  BY <1>7, <1>11
  <2>2. \A k \in 1..w.taken : st.questions[k] \in DOMAIN w.made /\ new.questions[k] = st.questions[k]
    BY <1>8, <1>9
  <2>3. \A id \in Nat : Returned(x, id) => Returned(x, id)  OBVIOUS
  <2> QED  BY <1>7, <1>10, <1>13, <1>14, <1>15, <2>1, <2>2, <2>3, VatSideStays
<1>17. Open(x) \subseteq 1..w.taken  BY <1>7, OpenTaken
<1>18. v.taken \notin 1..w.taken /\ v.taken \in 1..v.taken  BY <1>7, <1>11
<1>19. \A i \in DOMAIN x.executed : \E k \in 1..w.taken : x.executed[i].n = new.questions[k]
  <2>1. \A i \in DOMAIN x.executed : \E k \in 1..w.taken : x.executed[i].n = st.questions[k]
    BY <1>7 DEF ExecutedWell, Runs
  <2> QED  BY <1>9, <2>1
<1>20. m.type = "CTP_CALL" => CallWell(v, new, m)
  BY <1>9, <1>10, <1>13 DEF CallWell, RefKnown, RefSlot, Ref
<1>21. QuestionsWell(v, new)  BY <1>13 DEF ClientInv
<1>22. Serves(w, v, new, x, m)
  BY <1>7, <1>9, <1>10, <1>11, <1>13, <1>14, <1>16, <1>17, <1>18, <1>19, <1>20, <1>21
     DEF Serves
<1> QED  BY <1>1, <1>2, <1>4, <1>5, <1>6, <1>14, <1>22

\* A question that is answered has its place on the way to the client.
Placed(v, new, x, id, y) == PlacesWell(v, new, y) /\ Open(y) = Open(x) \cup {id}

\* So it has when its return is added.
LEMMA PlaceReturned ==
    ASSUME NEW v, NEW new, NEW x, PlacesWell(v, new, x), v.taken \in Nat,
           NEW id \in 1..v.taken, id \notin Open(x),
           NEW more, NEW n, Returns(more) = {n}, more[n].id = id,
           NEW y, y.waiting = x.waiting, y.running = x.running,
           Joined(x.toClient, more, y.toClient)
    PROVE  Placed(v, new, x, id, y)
<1>1. ~Waited(x, id) /\ ~Ran(x, id) /\ ~Returned(x, id) /\ id \in Nat  BY DEF Open
<1>2. ReturnsWell(v, x.toClient)  BY DEF PlacesWell
<1>3. MoreReturns(v.taken, x, more)
  BY <1>1, <1>2 DEF MoreReturns, ReturnsWell
<1>4. /\ ReturnsWell(v, y.toClient)
      /\ \A i \in Nat : Returned(y, i) <=> Returned(x, i) \/ i = id
  <2>1. /\ ReturnsWell(v, y.toClient)
        /\ \A i \in Nat : Returned(y, i) <=>
             Returned(x, i) \/ \E j \in Returns(more) : more[j].id = i
    BY <1>2, <1>3, ReturnsJoin
  <2> QED  BY <2>1
<1>5. \A i \in Nat : (Waited(y, i) <=> Waited(x, i)) /\ (Ran(y, i) <=> Ran(x, i))
  BY DEF Waited, Ran
<1>6. PlacesWell(v, new, y)  BY <1>1, <1>4, <1>5 DEF PlacesWell
<1>7. \A i : i \in Open(y) <=> i \in Open(x) \cup {id}  BY <1>1, <1>4, <1>5 DEF Open
<1> QED  BY <1>6, <1>7 DEF Placed

\* Calls that the vat may run.
Runnable(v, new, z, cs, o) ==
    /\ o \in Objects /\ cs \in Seq(CallSet)
    /\ \A i \in DOMAIN cs :
         /\ CallWell(v, new, cs[i]) /\ Stands(v, v.known[cs[i].target]) = o
         /\ cs[i].n \in DOMAIN v.made
         /\ \E k \in 1..v.taken : cs[i].n = new.questions[k]
         /\ \A j \in DOMAIN cs :
              i < j /\ Ref(v, cs[i].n) = Ref(v, cs[j].n) => cs[i].n < cs[j].n
         /\ \A j \in DOMAIN z.executed :
              Ref(v, z.executed[j].n) = Ref(v, cs[i].n) => z.executed[j].n < cs[i].n
         /\ \A q \in Promises : \A j \in DOMAIN z.waiting[q] :
              Ref(v, z.waiting[q][j].n) = Ref(v, cs[i].n) => cs[i].n < z.waiting[q][j].n

\* What has run then.
RanWell(v, new, y) ==
    /\ ExecutedWell(v, new, y)
    /\ y.executed \in Seq([n : Nat, object : Objects, args : Seq(Passed)])

\* They run on what they were made on, with what they were made with, in order.
LEMMA RunsCalls ==
    ASSUME HoldsSlots, NEW v, v.known = known, KnownWell(v), MadeWell(v),
           v.settled \in [Promises -> Objects \cup Plain \cup {Session!Bad, Session!Unsettled}],
           NEW new, NEW z, ExecutedWell(v, new, z),
           z.executed \in Seq([n : Nat, object : Objects, args : Seq(Passed)]),
           NEW cs, NEW o, Runnable(v, new, z, cs, o),
           NEW y, y.waiting = z.waiting,
           y.executed = z.executed \o [i \in DOMAIN cs |-> [n |-> cs[i].n, object |-> o,
                                                            args |-> Session!Vals(cs[i].args)]]
    PROVE  RanWell(v, new, y)
<1> DEFINE E == [n : Nat, object : Objects, args : Seq(Passed)]
           more == [i \in DOMAIN cs |-> [n |-> cs[i].n, object |-> o, args |-> Session!Vals(cs[i].args)]]
<1>1. o \in Objects /\ cs \in Seq(CallSet)  BY DEF Runnable
<1>2. ASSUME NEW i \in DOMAIN cs
      PROVE  /\ CallWell(v, new, cs[i]) /\ Stands(v, v.known[cs[i].target]) = o
             /\ cs[i].n \in DOMAIN v.made /\ cs[i].n \in Nat
             /\ \E k \in 1..v.taken : cs[i].n = new.questions[k]
  <2>1. cs[i] \in CallSet  BY <1>1
  <2>2. cs[i].n \in Nat  BY <2>1 DEF CallSet
  <2> QED  BY <2>2 DEF Runnable
<1>3. ASSUME NEW i \in DOMAIN cs
      PROVE  /\ Session!Vals(cs[i].args)
                 = [k \in DOMAIN v.made[cs[i].n].args |-> v.known[v.made[cs[i].n].args[k]]]
             /\ Session!Vals(cs[i].args) \in Seq(Passed)
  <2>1. PICK with : with = v.made[cs[i].n].args  OBVIOUS
  <2>2. cs[i].args = with  BY <1>2, <2>1 DEF CallWell
  <2>3. with \in Seq(DOMAIN v.known)  BY <1>2, <2>1 DEF MadeWell
  <2>4. ASSUME NEW k \in DOMAIN with  PROVE Session!SlotToVal(with[k]) = v.known[with[k]] /\ v.known[with[k]] \in Passed
    <3>1. with[k] \in DOMAIN v.known  BY <2>3
    <3> QED  BY <3>1 DEF HoldsSlots, KnownWell, Session!SlotToVal
  <2>5. Session!Vals(with) = [k \in DOMAIN with |-> Session!SlotToVal(with[k])]
    BY DEF Session!Vals
  <2>6. Session!Vals(with) = [k \in DOMAIN with |-> v.known[with[k]]]  BY <2>4, <2>5
  <2>7. [k \in DOMAIN with |-> v.known[with[k]]] \in Seq(Passed)
    <3>1. PICK D : D = DOMAIN v.known  OBVIOUS
    <3>2. PICK f : f = [k \in DOMAIN with |-> v.known[with[k]]]  OBVIOUS
    <3>3. with \in Seq(D)  BY <2>3, <3>1
    <3>4. Len(with) \in Nat /\ DOMAIN with = 1..Len(with)  BY <3>3
    <3>5. DOMAIN f = DOMAIN with /\ \A k \in DOMAIN with : f[k] \in Passed  BY <2>4, <3>2
    <3>6. f = [k \in 1..Len(with) |-> f[k]]  BY <3>2, <3>4
    <3>7. f \in Seq(Passed)  BY <3>4, <3>5, <3>6
    <3> QED  BY <3>2, <3>7
  <2> QED  BY <2>1, <2>2, <2>6, <2>7
<1>4. ASSUME NEW i \in DOMAIN more
      PROVE  /\ i \in DOMAIN cs /\ more[i] \in E /\ more[i].n = cs[i].n /\ Runs(v, new, more[i])
  <2>1. i \in DOMAIN cs /\ more[i] = [n |-> cs[i].n, object |-> o, args |-> Session!Vals(cs[i].args)]
    OBVIOUS
  <2> HIDE DEF more
  <2>2. more[i] \in E
    <3>1. cs[i].n \in Nat  BY <1>2, <2>1
    <3>2. PICK with : with = Session!Vals(cs[i].args)  OBVIOUS
    <3>3. with \in Seq(Passed)  BY <1>3, <2>1, <3>2
    <3>4. more[i] = [n |-> cs[i].n, object |-> o, args |-> with]  BY <2>1, <3>2
    <3> QED  BY <1>1, <3>1, <3>3, <3>4
  <2>3. more[i].n = cs[i].n /\ more[i].object = o /\ more[i].args = Session!Vals(cs[i].args)
    BY <2>1
  <2>4. PICK ref : ref = Ref(v, cs[i].n)  OBVIOUS
  <2>5. PICK val : val = v.known[RefSlot(new, ref)]  OBVIOUS
  <2>6. /\ RefKnown(v, new, ref)
        /\ v.known[cs[i].target] = val \/ (val \in Promises /\ v.known[cs[i].target] = v.settled[val])
        /\ cs[i].target \in DOMAIN v.known
    BY <1>2, <2>1, <2>4, <2>5 DEF CallWell
  <2>7. o = Stands(v, val)
    <3>1. CASE v.known[cs[i].target] = val  BY <1>2, <2>1, <3>1
    <3>2. CASE val \in Promises /\ v.known[cs[i].target] = v.settled[val]
      <4>1. v.known[cs[i].target] \in Passed  BY <2>6 DEF KnownWell
      <4>2. v.settled[val] \in Objects  BY <3>2, <4>1, KindsApart
      <4>3. v.known[cs[i].target] \notin Promises  BY <3>2, <4>2, KindsApart
      <4> QED  BY <1>2, <2>1, <3>2, <4>3 DEF Stands
    <3> QED  BY <2>6, <3>1, <3>2
  <2>8. PICK e : e = more[i]  OBVIOUS
  <2>9. Ref(v, e.n) = ref  BY <2>3, <2>4, <2>8
  <2>10. \E k \in 1..v.taken : e.n = new.questions[k]
    <3>1. e.n = cs[i].n  BY <2>3, <2>8
    <3> QED  BY <1>2, <2>1, <3>1
  <2>11. RefKnown(v, new, Ref(v, e.n))  BY <2>6, <2>9
  <2>12. e.object = Stands(v, v.known[RefSlot(new, Ref(v, e.n))])
    BY <2>3, <2>5, <2>7, <2>8, <2>9
  <2>13. e.args = [k \in DOMAIN v.made[e.n].args |-> v.known[v.made[e.n].args[k]]]
    <3>1. e.n = cs[i].n /\ e.args = Session!Vals(cs[i].args)  BY <2>3, <2>8
    <3> QED  BY <1>3, <2>1, <3>1
  <2>14. Runs(v, new, e)  BY ONLY <2>10, <2>11, <2>12, <2>13 DEF Runs
  <2> QED  BY <2>1, <2>2, <2>3, <2>8, <2>14
<1>5. more \in Seq(E)
  <2>1. DOMAIN more = DOMAIN cs  OBVIOUS
  <2>2. \A i \in DOMAIN more : more[i] \in E  BY <1>4
  <2>3. Len(cs) \in Nat /\ DOMAIN cs = 1..Len(cs) /\ more = [i \in DOMAIN more |-> more[i]]
    BY <1>1
  <2> HIDE DEF more, E
  <2> QED  BY <2>1, <2>2, <2>3
<1>6. y.executed = z.executed \o more  OBVIOUS
<1>7. \A i \in DOMAIN more : i \in DOMAIN cs /\ more[i].n = cs[i].n /\ Runs(v, new, more[i])  BY <1>4
<1> HIDE DEF more, E
<1>8. z.executed \in Seq(E)  BY DEF E
<1>9. Joined(z.executed, more, y.executed) /\ y.executed \in Seq(E)
  BY <1>5, <1>6, <1>8, JoinIs
<1> DEFINE l == Len(z.executed)
<1>10. /\ l \in Nat /\ \A i \in DOMAIN z.executed : i \in Nat /\ i <= l
       /\ \A i \in DOMAIN z.executed : y.executed[i] = z.executed[i]
       /\ \A i \in DOMAIN y.executed :
            \/ i \in DOMAIN z.executed
            \/ \E j \in DOMAIN more : j \in Nat /\ j # 0 /\ i = l + j /\ y.executed[i] = more[j]
  <2>1. /\ l \in Nat /\ \A i \in DOMAIN z.executed : i \in Nat /\ i <= l
        /\ \A j \in DOMAIN more : j # 0
    BY <1>9 DEF Joined
  <2>2. /\ \A i \in DOMAIN z.executed : y.executed[i] = z.executed[i]
        /\ \A j \in DOMAIN more : j \in Nat /\ y.executed[l + j] = more[j]
        /\ \A i \in DOMAIN y.executed : i \in DOMAIN z.executed \/ \E j \in DOMAIN more : i = l + j
    BY <1>9 DEF Joined
  <2> QED  BY <2>1, <2>2
<1> HIDE DEF l
<1>11. ASSUME NEW i \in DOMAIN y.executed  PROVE Runs(v, new, y.executed[i])
  BY <1>7, <1>10 DEF ExecutedWell
<1>12. ASSUME NEW i \in DOMAIN y.executed, NEW j \in DOMAIN y.executed,
              j < i, Ref(v, y.executed[j].n) = Ref(v, y.executed[i].n)
       PROVE  y.executed[j].n < y.executed[i].n
  <2>1. CASE i \in DOMAIN z.executed /\ j \in DOMAIN z.executed
    BY <1>10, <1>12, <2>1 DEF ExecutedWell
  <2>2. CASE i \notin DOMAIN z.executed /\ j \in DOMAIN z.executed
    <3>1. PICK k \in DOMAIN more : y.executed[i] = more[k]  BY <1>10, <2>2
    <3>2. k \in DOMAIN cs /\ y.executed[i].n = cs[k].n  BY <1>7, <3>1
    <3>3. \A h \in DOMAIN z.executed :
            Ref(v, z.executed[h].n) = Ref(v, cs[k].n) => z.executed[h].n < cs[k].n
      BY <3>2 DEF Runnable
    <3>4. y.executed[j] = z.executed[j]  BY <1>10, <2>2
    <3> QED  BY <1>12, <2>2, <3>2, <3>3, <3>4
  <2>3. CASE i \notin DOMAIN z.executed /\ j \notin DOMAIN z.executed
    <3>1. PICK k \in DOMAIN more : k \in Nat /\ i = l + k /\ y.executed[i] = more[k]  BY <1>10, <2>3
    <3>2. PICK h \in DOMAIN more : h \in Nat /\ j = l + h /\ y.executed[j] = more[h]  BY <1>10, <2>3
    <3>3. h < k  BY <1>10, <1>12, <3>1, <3>2
    <3>4. k \in DOMAIN cs /\ y.executed[i].n = cs[k].n /\ h \in DOMAIN cs /\ y.executed[j].n = cs[h].n
      BY <1>7, <3>1, <3>2
    <3> QED  BY <1>12, <3>3, <3>4 DEF Runnable
  <2>4. CASE i \in DOMAIN z.executed /\ j \notin DOMAIN z.executed
    <3>1. i \in Nat /\ i <= l  BY <1>10, <2>4
    <3>2. PICK h \in Nat : h # 0 /\ j = l + h  BY <1>10, <2>4
    <3>3. FALSE  BY <1>10, <1>12, <3>1, <3>2
    <3> QED  BY <3>3
  <2> QED  BY <2>1, <2>2, <2>3, <2>4
<1>13. ASSUME NEW i \in DOMAIN y.executed, NEW p \in Promises, NEW j \in DOMAIN y.waiting[p],
              Ref(v, y.waiting[p][j].n) = Ref(v, y.executed[i].n)
       PROVE  y.executed[i].n < y.waiting[p][j].n
  <2>1. CASE i \in DOMAIN z.executed  BY <1>10, <1>13, <2>1 DEF ExecutedWell
  <2>2. CASE i \notin DOMAIN z.executed
    <3>1. PICK k \in DOMAIN more : y.executed[i] = more[k]  BY <1>10, <2>2
    <3>2. k \in DOMAIN cs /\ y.executed[i].n = cs[k].n  BY <1>7, <3>1
    <3> QED  BY <1>13, <3>2 DEF Runnable
  <2> QED  BY <2>1, <2>2
<1>14. ExecutedWell(v, new, y)  BY <1>11, <1>12, <1>13 DEF ExecutedWell
<1> QED  BY <1>9, <1>14 DEF E, RanWell

\* The vat answers a question when it takes it.
LEMMA ServedReturn ==
    ASSUME SessionInv, toVat # <<>>, toVat' = Tail(toVat),
           UNCHANGED <<settled, made, answer, postponed, questions, known, resolved, torn, thrown,
                       waiting, running, executed>>,
           NEW more, Adds(exports', settled, torn, more), toClient' = toClient \o more,
           NEW n, Returns(more) = {n}, more[n].id = Head(toVat).questionID
    PROVE  SessionInv'
<1>1. PICK w : w = World  OBVIOUS
<1>2. PICK v : v = World'  OBVIOUS
<1>3. PICK new : new = Session!Client'  OBVIOUS
<1>4. PICK x : x = Vat  OBVIOUS
<1>5. PICK y : y = Vat'  OBVIOUS
<1>6. PICK m : m = Head(toVat)  OBVIOUS
<1>7. Serves(w, v, new, x, m) /\ ResolvedWell(v, resolved)
  BY <1>1, <1>2, <1>3, <1>4, <1>6, ServesIs
<1>8. /\ v.taken \in Nat /\ v.taken \in 1..v.taken /\ v.taken \notin Open(x)
      /\ ClientInv(v, new, {}, Open(x) \cup {v.taken})
      /\ PlacesWell(v, new, x) /\ WaitingWell(v, new, x) /\ ExecutedWell(v, new, x)
      /\ m.questionID = v.taken
  BY <1>7 DEF Serves
<1>9. /\ y.waiting = x.waiting /\ y.running = x.running /\ y.executed = x.executed
      /\ x.toClient = toClient /\ y.toClient = toClient'
  BY <1>4, <1>5 DEF Vat
<1>10. Joined(x.toClient, more, y.toClient)
  <2>1. PICK S : S = ToClientSet  OBVIOUS
  <2>2. toClient \in Seq(S) /\ more \in Seq(S)
    BY <2>1 DEF SessionInv, SessionTypes, Adds
  <2> QED  BY <1>9, <2>2, JoinIs
<1>11. PlacesWell(v, new, y) /\ Open(y) = Open(x) \cup {v.taken}
  <2>1. PICK id : id = v.taken  OBVIOUS
  <2>2. id \in 1..v.taken /\ id \notin Open(x) /\ more[n].id = id  BY <1>6, <1>8, <2>1
  <2>3. Placed(v, new, x, id, y)  BY <1>8, <1>9, <1>10, <2>2, PlaceReturned
  <2> QED  BY <2>1, <2>3 DEF Placed
<1>12. WaitingWell(v, new, y) /\ ExecutedWell(v, new, y)
  BY <1>8, <1>9 DEF WaitingWell, ExecutedWell
<1>13. /\ ClientInv(World', Session!Client', {}, Open(Vat')) /\ ResolvedWell(World', resolved)
       /\ PlacesWell(World', Session!Client', Vat') /\ WaitingWell(World', Session!Client', Vat')
       /\ ExecutedWell(World', Session!Client', Vat')
  BY <1>2, <1>3, <1>5, <1>7, <1>8, <1>11, <1>12
<1>14. /\ settled' \in [Promises -> Objects \cup Plain \cup {Session!Bad, Session!Unsettled}]
       /\ waiting' \in [Promises -> Seq(CallSet)] /\ running' \subseteq [n : Nat, questionID : Nat]
       /\ executed' \in Seq([n : Nat, object : Objects, args : Seq(Passed)])
  <2>1. SessionTypes  BY DEF SessionInv
  <2> QED  BY <2>1 DEF SessionTypes
<1>15. Adds(exports', settled', torn', more)  OBVIOUS
<1> QED  BY <1>13, <1>14, <1>15, AfterVat

\* A bootstrap is answered at once.
LEMMA BootstrapServed ==
    ASSUME SessionInv, Session!VatDispatch, Session!CTP_BOOTSTRAP(Head(toVat))
    PROVE  SessionInv'
<1>1. /\ toVat # <<>> /\ toVat' = Tail(toVat)
      /\ UNCHANGED <<settled, made, answer, postponed, questions, known, resolved, torn, thrown,
                     waiting, running, executed>>
  BY DEF Session!VatDispatch, Session!CTP_BOOTSTRAP
<1>2. PICK m : m = Head(toVat)  OBVIOUS
<1>3. PICK b \in Boots :
        /\ exports' = Session!Serialize(b).ex
        /\ toClient' = toClient \o <<Session!Return(m, Session!Serialize(b).ex, b)>>
                                \o Session!Serialize(b).told
  BY <1>2 DEF Session!CTP_BOOTSTRAP
<1>4. PICK s : s = Session!Serialize(b)  OBVIOUS
<1>5. PICK r : r = Session!Return(m, s.ex, b)  OBVIOUS
<1>6. PICK more : more = <<r>> \o s.told  OBVIOUS
<1>7. b \in Seq(Passed \cup Plain) /\ b # <<>>
  <2>1. b \in Seq(Objects \cup Promises \cup {"data"}) /\ b # <<>>  BY SessionAssumption
  <2>2. \A i \in DOMAIN b : b[i] \in Passed \cup Plain
    BY <2>1 DEF Passed, Plain, Session!Data
  <2> QED  BY <2>1, <2>2, SequenceOf
<1>8. m.questionID \in Nat
  <2>1. Serves(World, World', Session!Client', Vat, m)  BY <1>1, <1>2, ServesIs
  <2> QED  BY <2>1 DEF Serves
<1>9. /\ Adds(s.ex, settled, torn, more)
      /\ <<r>> \in Seq(ToClientSet) /\ s.told \in Seq(ToClientSet)
      /\ \E n : Returns(more) = {n} /\ more[n].id = m.questionID
  <2>1. SentWith(s, torn, more, r, m.questionID)  BY <1>4, <1>5, <1>6, <1>7, <1>8, SendsReturn
  <2> QED  BY <2>1 DEF SentWith
<1>10. toClient' = toClient \o more
  <2>1. toClient \in Seq(ToClientSet)  BY DEF SessionInv, SessionTypes
  <2>2. toClient' = (toClient \o <<r>>) \o s.told  BY <1>3, <1>4, <1>5
  <2>3. PICK S : S = ToClientSet  OBVIOUS
  <2>4. toClient \in Seq(S) /\ <<r>> \in Seq(S) /\ s.told \in Seq(S)  BY <1>9, <2>1, <2>3
  <2>5. (toClient \o <<r>>) \o s.told = toClient \o (<<r>> \o s.told)
    <3>1. PICK t : t = <<r>>  OBVIOUS
    <3>2. PICK u : u = s.told  OBVIOUS
    <3>3. PICK a : a = toClient  OBVIOUS
    <3>4. a \in Seq(S) /\ t \in Seq(S) /\ u \in Seq(S)  BY <2>4, <3>1, <3>2, <3>3
    <3>5. (a \o t) \o u = a \o (t \o u)  BY ONLY <3>4, ConcatAssociative
    <3> QED  BY <3>1, <3>2, <3>3, <3>5
  <2> QED  BY <1>6, <2>2, <2>5
<1>11. exports' = s.ex  BY <1>3, <1>4
<1>12. PICK n : Returns(more) = {n} /\ more[n].id = m.questionID  BY <1>9
<1> QED  BY <1>1, <1>2, <1>9, <1>10, <1>11, <1>12, ServedReturn

\* A call on what has no methods is answered at once.
LEMMA CallRefused ==
    ASSUME SessionInv, toVat # <<>>, toVat' = Tail(toVat),
           UNCHANGED <<settled, made, answer, postponed, questions, known, resolved, torn, thrown,
                       waiting, running, executed, exports>>,
           toClient' = Append(toClient, Session!Exception(Head(toVat)))
    PROVE  SessionInv'
<1>1. PICK m : m = Head(toVat)  OBVIOUS
<1>2. PICK e : e = Session!Exception(m)  OBVIOUS
<1>3. GoodExports(exports) /\ toClient \in Seq(ToClientSet)  BY DEF SessionInv, SessionTypes
<1>4. m.questionID \in Nat
  <2>1. Serves(World, World', Session!Client', Vat, m)  BY <1>1, ServesIs
  <2> QED  BY <2>1 DEF Serves
<1>5. e \in ToClientSet /\ e.type = "CTP_RETURN" /\ e.id = m.questionID /\ GoodMessage(exports, e)
  BY <1>2, <1>3, <1>4, ExceptionIs
<1> DEFINE more == <<e>>
<1>6. /\ more \in Seq(ToClientSet) /\ DOMAIN more = {1} /\ more[1] = e  BY <1>5
<1>7. toClient' = toClient \o more
  <2>1. PICK S : S = ToClientSet  OBVIOUS
  <2>2. toClient \in Seq(S) /\ e \in S  BY <1>3, <1>5, <2>1
  <2>3. Append(toClient, e) = toClient \o <<e>>  BY <2>2
  <2> QED  BY <1>1, <1>2, <2>3
<1> HIDE DEF more
<1>8. Adds(exports', settled, torn, more)
  <2>1. \A j \in DOMAIN more : more[j].type = "CTP_RETURN" /\ GoodMessage(exports, more[j])
    BY <1>5, <1>6
  <2>2. Adds(exports, settled, torn, more)  BY <1>6, <2>1, AddsAnswers
  <2> QED  BY <2>2
<1>9. Returns(more) = {1}
  <2>1. \A i : i \in Returns(more) <=> i = 1  BY <1>5, <1>6 DEF Returns
  <2> QED  BY <2>1
<1>10. more[1].id = Head(toVat).questionID  BY <1>1, <1>5, <1>6
<1> QED  BY <1>7, <1>8, <1>9, <1>10, ServedReturn

\* The vat sees to a question without an answer yet.
LEMMA ServedLater ==
    ASSUME SessionInv,
           UNCHANGED <<settled, made, answer, postponed, questions, known, resolved, torn, thrown,
                       exports, toClient>>,
           waiting' \in [Promises -> Seq(CallSet)], running' \subseteq [n : Nat, questionID : Nat],
           executed' \in Seq([n : Nat, object : Objects, args : Seq(Passed)]),
           Serves(World, World', Session!Client', Vat, Head(toVat)), ResolvedWell(World', resolved),
           Open(Vat') = Open(Vat) \cup {World'.taken},
           PlacesWell(World', Session!Client', Vat'), WaitingWell(World', Session!Client', Vat'),
           ExecutedWell(World', Session!Client', Vat')
    PROVE  SessionInv'
<1>1. ClientInv(World', Session!Client', {}, Open(Vat'))  BY DEF Serves
<1>2. toClient \in Seq(ToClientSet)
      /\ settled \in [Promises -> Objects \cup Plain \cup {Session!Bad, Session!Unsettled}]
  BY DEF SessionInv, SessionTypes
<1>3. Adds(exports', settled', torn', <<>>)
  <2>1. <<>> \in Seq(ToClientSet) /\ DOMAIN <<>> = {}  OBVIOUS
  <2>2. Adds(exports, settled, torn, <<>>)  BY <2>1, AddsAnswers
  <2> QED  BY <2>2
<1>4. toClient' = toClient \o <<>>
  <2>1. PICK S : S = ToClientSet  OBVIOUS
  <2>2. toClient \in Seq(S)  BY <1>2, <2>1
  <2>3. toClient \o <<>> = toClient  BY <2>2, ConcatEmptySeq
  <2> QED  BY <2>3
<1>5. settled' \in [Promises -> Objects \cup Plain \cup {Session!Bad, Session!Unsettled}]  BY <1>2
<1>6. PICK none : none = <<>>  OBVIOUS
<1>7. Adds(exports', settled', torn', none) /\ toClient' = toClient \o none  BY <1>3, <1>4, <1>6
<1> QED  BY <1>1, <1>5, <1>7, AfterVat

\* A call that is taken comes after those that have been through its reference.
LEMMA CallLast ==
    ASSUME NEW w, NEW v, NEW new, NEW x, NEW m, Serves(w, v, new, x, m)
    PROVE  /\ \A k \in 1..w.taken :
                Ref(v, new.questions[k]) = Ref(v, m.n) => new.questions[k] < m.n
           /\ \A i \in DOMAIN x.executed :
                Ref(v, x.executed[i].n) = Ref(v, m.n) => x.executed[i].n < m.n
<1>1. /\ w.taken \in Nat /\ v.taken = w.taken + 1 /\ QuestionsWell(v, new)
      /\ v.taken \in DOMAIN new.questions /\ m.n = new.questions[v.taken]
      /\ \A i \in DOMAIN x.executed : \E k \in 1..w.taken : x.executed[i].n = new.questions[k]
  BY DEF Serves
<1>2. new.questions \in Seq(DOMAIN v.made)  BY <1>1 DEF QuestionsWell
<1>3. \A k \in 1..w.taken : k \in DOMAIN new.questions /\ k < v.taken
  <2>1. PICK S : S = DOMAIN v.made  OBVIOUS
  <2>2. PICK s : s = new.questions  OBVIOUS
  <2>3. s \in Seq(S) /\ w.taken + 1 \in DOMAIN s  BY <1>1, <1>2, <2>1, <2>2
  <2>4. \A k \in 1..w.taken : k \in DOMAIN s /\ k < w.taken + 1  BY <1>1, <2>3
  <2> QED  BY <1>1, <2>2, <2>4
<1>4. ASSUME NEW k \in 1..w.taken, Ref(v, new.questions[k]) = Ref(v, m.n)
      PROVE  new.questions[k] < m.n
  <2>1. k \in DOMAIN new.questions /\ k < v.taken  BY <1>3
  <2> QED  BY <1>1, <1>4, <2>1 DEF QuestionsWell
<1> QED  BY <1>1, <1>4

\* What a call goes to: an object, or what it waits for.
LEMMA CallsTo ==
    ASSUME NEW v, KnownWell(v),
           v.settled \in [Promises -> Objects \cup Plain \cup {Session!Bad, Session!Unsettled}],
           NEW new, NEW c, CallWell(v, new, c), v.known[c.target] \in Promises
    PROVE  v.known[RefSlot(new, Ref(v, c.n))] = v.known[c.target]
<1>1. PICK val : val = v.known[RefSlot(new, Ref(v, c.n))]  OBVIOUS
<1>2. v.known[c.target] = val \/ (val \in Promises /\ v.known[c.target] = v.settled[val])
  BY <1>1 DEF CallWell
<1>3. v.known[c.target] \in Passed  BY DEF Passed
<1>4. val \in Promises => v.settled[val] \notin Promises
  BY KindsApart DEF Passed
<1> QED  BY <1>1, <1>2, <1>4

\* A call on a promise that is not settled waits.
LEMMA CallWaits ==
    ASSUME SessionInv, toVat # <<>>, toVat' = Tail(toVat),
           UNCHANGED <<settled, made, answer, postponed, questions, known, resolved, torn, thrown,
                       running, executed, exports, toClient>>,
           Head(toVat).type = "CTP_CALL",
           NEW p, p = Session!SlotToVal(Head(toVat).target), p \in Promises,
           settled[p] = Session!Unsettled,
           waiting' = [waiting EXCEPT ![p] = Append(@, Head(toVat))]
    PROVE  SessionInv'
<1>1. PICK w : w = World  OBVIOUS
<1>2. PICK v : v = World'  OBVIOUS
<1>3. PICK new : new = Session!Client'  OBVIOUS
<1>4. PICK x : x = Vat  OBVIOUS
<1>5. PICK y : y = Vat'  OBVIOUS
<1>6. PICK m : m = Head(toVat)  OBVIOUS
<1>7. Serves(w, v, new, x, m) /\ ResolvedWell(v, resolved)
  BY <1>1, <1>2, <1>3, <1>4, <1>6, ServesIs
<1>8. /\ w.taken \in Nat /\ v.taken \in Nat /\ v.taken = w.taken + 1 /\ v.taken \in 1..v.taken
      /\ v.taken \notin Open(x) /\ Open(x) \subseteq 1..w.taken
      /\ KnownWell(v) /\ QuestionsWell(v, new)
      /\ PlacesWell(v, new, x) /\ WaitingWell(v, new, x) /\ ExecutedWell(v, new, x)
      /\ m \in ToVatSet /\ m.questionID = v.taken /\ m.n = new.questions[v.taken]
      /\ CallWell(v, new, m)
  BY <1>6, <1>7 DEF Serves
<1>9. /\ y.waiting = waiting' /\ y.running = x.running /\ y.executed = x.executed
      /\ y.toClient = x.toClient /\ x.waiting = waiting
  BY <1>4, <1>5 DEF Vat
<1>10. v.known = known /\ v.settled = settled  BY <1>2 DEF World
<1>11. v.known[m.target] = p /\ v.settled[p] = Session!Unsettled
  <2>1. m.target \in DOMAIN known  BY <1>8, <1>10 DEF CallWell
  <2>2. HoldsSlots  BY DEF SessionInv
  <2> QED  BY <1>6, <1>10, <2>1, <2>2 DEF HoldsSlots, Session!SlotToVal
<1>12. m \in CallSet  BY <1>6, <1>8 DEF ToVatSet, CallSet
<1>13. waiting \in [Promises -> Seq(CallSet)]  BY DEF SessionInv, SessionTypes
<1> DEFINE l == Len(waiting[p])
<1>14. /\ waiting' \in [Promises -> Seq(CallSet)] /\ l \in Nat
       /\ \A q \in Promises : q # p => y.waiting[q] = x.waiting[q]
       /\ l + 1 \in DOMAIN y.waiting[p] /\ y.waiting[p][l + 1] = m
       /\ \A i \in DOMAIN x.waiting[p] :
            i \in Nat /\ i < l + 1 /\ i \in DOMAIN y.waiting[p] /\ y.waiting[p][i] = x.waiting[p][i]
       /\ \A i \in DOMAIN y.waiting[p] : i = l + 1 \/ i \in DOMAIN x.waiting[p]
  <2>1. waiting[p] \in Seq(CallSet)  BY <1>13
  <2>2. PICK s : s = waiting[p]  OBVIOUS
  <2>3. PICK t : t = Append(s, m)  OBVIOUS
  <2>4. PICK S : S = CallSet  OBVIOUS
  <2>5. s \in Seq(S) /\ m \in S  BY <1>12, <2>1, <2>2, <2>4
  <2>6. /\ t \in Seq(S) /\ Len(s) \in Nat /\ Len(s) + 1 \in DOMAIN t /\ t[Len(s) + 1] = m
        /\ \A i \in DOMAIN s : i \in Nat /\ i < Len(s) + 1 /\ i \in DOMAIN t /\ t[i] = s[i]
        /\ \A i \in DOMAIN t : i = Len(s) + 1 \/ i \in DOMAIN s
    BY <2>3, <2>5
  <2>7. waiting' = [waiting EXCEPT ![p] = t]  BY <1>6, <2>2, <2>3
  <2>8. waiting' \in [Promises -> Seq(CallSet)] /\ waiting'[p] = t
        /\ \A q \in Promises : q # p => waiting'[q] = waiting[q]
    BY <1>13, <2>4, <2>6, <2>7
  <2> QED  BY <1>9, <2>2, <2>6, <2>8
<1> HIDE DEF l
<1>15. ASSUME NEW q \in Promises, NEW i \in DOMAIN y.waiting[q]
       PROVE  \/ q = p /\ i = l + 1 /\ y.waiting[q][i] = m
              \/ i \in DOMAIN x.waiting[q] /\ y.waiting[q][i] = x.waiting[q][i]
  BY <1>14
<1>16. \A q \in Promises : \A i \in DOMAIN x.waiting[q] :
         /\ i \in DOMAIN y.waiting[q] /\ y.waiting[q][i] = x.waiting[q][i]
         /\ x.waiting[q][i].questionID \in 1..w.taken
         /\ x.waiting[q][i].n = new.questions[x.waiting[q][i].questionID]
         /\ q = p => i < l + 1
  <2>1. ASSUME NEW q \in Promises, NEW i \in DOMAIN x.waiting[q]
        PROVE  /\ x.waiting[q][i].questionID \in 1..w.taken
               /\ x.waiting[q][i].n = new.questions[x.waiting[q][i].questionID]
    <3>1. /\ x.waiting[q][i].questionID \in 1..v.taken
          /\ x.waiting[q][i].n = new.questions[x.waiting[q][i].questionID]
      BY <1>8 DEF PlacesWell
    <3>2. x.waiting[q][i].questionID \in Open(x)  BY <3>1 DEF Open, Waited
    <3> QED  BY <1>8, <3>1, <3>2
  <2> QED  BY <1>14, <2>1
<1>17. \A k \in 1..w.taken : k # v.taken /\ k < v.taken /\ k \in 1..v.taken  BY <1>8
<1>18. \A id \in Nat : /\ Waited(y, id) <=> Waited(x, id) \/ id = v.taken
                       /\ Ran(y, id) <=> Ran(x, id)
                       /\ Returned(y, id) <=> Returned(x, id)
  <2>1. \A id \in Nat : Waited(y, id) => Waited(x, id) \/ id = v.taken
    BY <1>8, <1>15 DEF Waited
  <2>2. \A id \in Nat : Waited(x, id) => Waited(y, id)  BY <1>16 DEF Waited
  <2>3. Waited(y, v.taken)  BY <1>8, <1>14 DEF Waited
  <2>4. \A id \in Nat : (Ran(y, id) <=> Ran(x, id)) /\ (Returned(y, id) <=> Returned(x, id))
    BY <1>9 DEF Ran, Returned
  <2> QED  BY <2>1, <2>2, <2>3, <2>4
<1>19. Open(y) = Open(x) \cup {v.taken}
  <2>1. \A id : id \in Open(y) <=> id \in Open(x) \cup {v.taken}  BY <1>8, <1>18 DEF Open
  <2> QED  BY <2>1
<1>20. ~Ran(x, v.taken) /\ ~Returned(x, v.taken)  BY <1>8 DEF Open
<1>21. PlacesWell(v, new, y)
  <2>1. ASSUME NEW q \in Promises, NEW i \in DOMAIN y.waiting[q]
        PROVE  /\ y.waiting[q][i].questionID \in 1..v.taken
               /\ y.waiting[q][i].n = new.questions[y.waiting[q][i].questionID]
    BY <1>8, <1>15, <1>16, <1>17
  <2>2. ASSUME NEW q \in Promises, NEW i \in DOMAIN y.waiting[q],
               NEW r \in Promises, NEW j \in DOMAIN y.waiting[r],
               y.waiting[q][i].questionID = y.waiting[r][j].questionID
        PROVE  q = r
    <3>1. CASE i \in DOMAIN x.waiting[q] /\ y.waiting[q][i] = x.waiting[q][i]
               /\ j \in DOMAIN x.waiting[r] /\ y.waiting[r][j] = x.waiting[r][j]
      BY <1>8, <2>2, <3>1 DEF PlacesWell
    <3>2. CASE q = p /\ y.waiting[q][i] = m
               /\ j \in DOMAIN x.waiting[r] /\ y.waiting[r][j] = x.waiting[r][j]
      BY <1>8, <1>16, <1>17, <2>2, <3>2
    <3>3. CASE r = p /\ y.waiting[r][j] = m
               /\ i \in DOMAIN x.waiting[q] /\ y.waiting[q][i] = x.waiting[q][i]
      BY <1>8, <1>16, <1>17, <2>2, <3>3
    <3> QED  BY <1>15, <3>1, <3>2, <3>3
  <2>3. ASSUME NEW q \in Promises, NEW i \in DOMAIN y.waiting[q], NEW j \in DOMAIN y.waiting[q], i < j
        PROVE  y.waiting[q][i].questionID < y.waiting[q][j].questionID
    <3>1. CASE i \in DOMAIN x.waiting[q] /\ y.waiting[q][i] = x.waiting[q][i]
               /\ j \in DOMAIN x.waiting[q] /\ y.waiting[q][j] = x.waiting[q][j]
      BY <1>8, <2>3, <3>1 DEF PlacesWell
    <3>2. CASE y.waiting[q][j] = m /\ i \in DOMAIN x.waiting[q] /\ y.waiting[q][i] = x.waiting[q][i]
      BY <1>8, <1>16, <1>17, <3>2
    <3>3. CASE q = p /\ i = l + 1
      <4>1. j = l + 1 \/ (j \in Nat /\ j < l + 1)  BY <1>14, <3>3
      <4> QED  BY <1>14, <2>3, <3>3, <4>1
    <3> QED  BY <1>15, <3>1, <3>2, <3>3
  <2>4. \A id \in Nat : /\ Waited(y, id) => ~Ran(y, id) /\ ~Returned(y, id)
                        /\ Ran(y, id) => ~Returned(y, id)
    BY <1>8, <1>18, <1>20 DEF PlacesWell
  <2>5. /\ \A c \in y.running : c.questionID \in 1..v.taken /\ c.n = new.questions[c.questionID]
        /\ ReturnsWell(v, y.toClient)
    BY <1>8, <1>9 DEF PlacesWell
  <2> QED  BY <2>1, <2>2, <2>3, <2>4, <2>5 DEF PlacesWell
<1>22. WaitingWell(v, new, y)
  BY <1>8, <1>11, <1>15 DEF WaitingWell
<1>23. ExecutedWell(v, new, y)
  <2>1. \A i \in DOMAIN x.executed : Ref(v, x.executed[i].n) = Ref(v, m.n) => x.executed[i].n < m.n
    BY <1>7, CallLast
  <2>2. ASSUME NEW i \in DOMAIN y.executed, NEW q \in Promises, NEW j \in DOMAIN y.waiting[q],
               Ref(v, y.waiting[q][j].n) = Ref(v, y.executed[i].n)
        PROVE  y.executed[i].n < y.waiting[q][j].n
    <3>1. CASE y.waiting[q][j] = m  BY <1>9, <2>1, <2>2, <3>1
    <3>2. CASE j \in DOMAIN x.waiting[q] /\ y.waiting[q][j] = x.waiting[q][j]
      BY <1>8, <1>9, <2>2, <3>2 DEF ExecutedWell
    <3> QED  BY <1>15, <3>1, <3>2
  <2>3. /\ \A i \in DOMAIN y.executed : Runs(v, new, y.executed[i])
        /\ \A i, j \in DOMAIN y.executed :
             j < i /\ Ref(v, y.executed[j].n) = Ref(v, y.executed[i].n)
               => y.executed[j].n < y.executed[i].n
    BY <1>8, <1>9 DEF ExecutedWell
  <2> QED  BY <2>2, <2>3 DEF ExecutedWell
<1>24. /\ Serves(World, World', Session!Client', Vat, Head(toVat)) /\ ResolvedWell(World', resolved)
       /\ Open(Vat') = Open(Vat) \cup {World'.taken}
       /\ PlacesWell(World', Session!Client', Vat') /\ WaitingWell(World', Session!Client', Vat')
       /\ ExecutedWell(World', Session!Client', Vat')
  BY <1>1, <1>2, <1>3, <1>4, <1>5, <1>6, <1>7, <1>19, <1>21, <1>22, <1>23
<1>25. /\ running' \subseteq [n : Nat, questionID : Nat]
       /\ executed' \in Seq([n : Nat, object : Objects, args : Seq(Passed)])
  <2>1. SessionTypes  BY DEF SessionInv
  <2> QED  BY <2>1 DEF SessionTypes
<1> QED  BY <1>14, <1>24, <1>25, ServedLater

\* A call on an object, or on a promise settled with one, runs.
LEMMA CallRuns ==
    ASSUME SessionInv, toVat # <<>>, toVat' = Tail(toVat),
           UNCHANGED <<settled, made, answer, postponed, questions, known, resolved, torn, thrown,
                       waiting, exports, toClient>>,
           Head(toVat).type = "CTP_CALL",
           NEW p, p = Session!SlotToVal(Head(toVat).target),
           NEW o, o = Stands(World, p), o \in Objects,
           Session!Execute(<<Head(toVat)>>, o)
    PROVE  SessionInv'
<1>1. PICK w : w = World  OBVIOUS
<1>2. PICK v : v = World'  OBVIOUS
<1>3. PICK new : new = Session!Client'  OBVIOUS
<1>4. PICK x : x = Vat  OBVIOUS
<1>5. PICK y : y = Vat'  OBVIOUS
<1>6. PICK m : m = Head(toVat)  OBVIOUS
<1>7. Serves(w, v, new, x, m) /\ ResolvedWell(v, resolved)
  BY <1>1, <1>2, <1>3, <1>4, <1>6, ServesIs
<1>8. /\ w.taken \in Nat /\ v.taken \in Nat /\ v.taken = w.taken + 1 /\ v.taken \in 1..v.taken
      /\ v.taken \notin Open(x) /\ Open(x) \subseteq 1..w.taken
      /\ KnownWell(v) /\ MadeWell(v) /\ QuestionsWell(v, new) /\ VatTypes(x)
      /\ PlacesWell(v, new, x) /\ WaitingWell(v, new, x) /\ ExecutedWell(v, new, x)
      /\ m \in ToVatSet /\ m.questionID = v.taken /\ m.n = new.questions[v.taken]
      /\ m.n \in DOMAIN v.made /\ CallWell(v, new, m)
  BY <1>6, <1>7 DEF Serves
<1>9. /\ y.waiting = x.waiting /\ y.toClient = x.toClient
      /\ x.running = running /\ y.running = running' /\ x.executed = executed /\ y.executed = executed'
  BY <1>4, <1>5 DEF Vat
<1>10. v.known = known /\ v.settled = settled /\ w.settled = settled  BY <1>1, <1>2 DEF World
<1>11. HoldsSlots
       /\ settled \in [Promises -> Objects \cup Plain \cup {Session!Bad, Session!Unsettled}]
  BY DEF SessionInv, SessionTypes
<1>12. v.known[m.target] = p /\ Stands(v, p) = o
  <2>1. m.target \in DOMAIN known  BY <1>8, <1>10 DEF CallWell
  <2>2. v.known[m.target] = p
    BY <1>6, <1>10, <1>11, <2>1 DEF HoldsSlots, Session!SlotToVal
  <2>3. Stands(v, p) = o  BY <1>1, <1>10 DEF Stands
  <2> QED  BY <2>2, <2>3
<1>13. m \in CallSet  BY <1>6, <1>8 DEF ToVatSet, CallSet
<1>14. \A q \in Promises : \A j \in DOMAIN x.waiting[q] :
         Ref(v, x.waiting[q][j].n) # Ref(v, m.n)
  <2>1. ASSUME NEW q \in Promises, NEW j \in DOMAIN x.waiting[q],
               Ref(v, x.waiting[q][j].n) = Ref(v, m.n)
        PROVE  FALSE
    <3>1. PICK c : c = x.waiting[q][j]  OBVIOUS
    <3>2. CallWell(v, new, c) /\ v.known[c.target] = q /\ v.settled[q] = Session!Unsettled
      BY <1>8, <3>1 DEF WaitingWell
    <3>3. v.known[RefSlot(new, Ref(v, c.n))] = q  BY <1>8, <1>10, <1>11, <3>2, CallsTo
    <3>4. v.known[RefSlot(new, Ref(v, m.n))] = q  BY <2>1, <3>1, <3>3
    <3>5. v.known[m.target] = q \/ v.known[m.target] = Session!Unsettled
      BY <1>8, <3>2, <3>4 DEF CallWell
    <3>6. v.known[m.target] \in Passed  BY <1>8 DEF CallWell, KnownWell
    <3>7. v.known[m.target] = q  BY <3>5, <3>6, KindsApart
    <3>8. o = Session!Unsettled  BY <1>12, <3>2, <3>7 DEF Stands
    <3> QED  BY <3>8, KindsApart DEF Passed
  <2> QED  BY <2>1
<1> DEFINE cs == <<m>>
<1>15. Runnable(v, new, x, cs, o)
  <2>1. cs \in Seq(CallSet) /\ DOMAIN cs = {1} /\ cs[1] = m  BY <1>13
  <2>2. \A i \in DOMAIN x.executed : Ref(v, x.executed[i].n) = Ref(v, m.n) => x.executed[i].n < m.n
    BY <1>7, CallLast
  <2>3. \E k \in 1..v.taken : m.n = new.questions[k]  BY <1>8
  <2>4. \A i, j \in DOMAIN cs : ~(i < j)  BY <2>1
  <2> HIDE DEF cs
  <2>5. ASSUME NEW i \in DOMAIN cs
        PROVE  /\ CallWell(v, new, cs[i]) /\ Stands(v, v.known[cs[i].target]) = o
               /\ cs[i].n \in DOMAIN v.made
               /\ \E k \in 1..v.taken : cs[i].n = new.questions[k]
               /\ \A j \in DOMAIN cs :
                    i < j /\ Ref(v, cs[i].n) = Ref(v, cs[j].n) => cs[i].n < cs[j].n
               /\ \A j \in DOMAIN x.executed :
                    Ref(v, x.executed[j].n) = Ref(v, cs[i].n) => x.executed[j].n < cs[i].n
               /\ \A q \in Promises : \A j \in DOMAIN x.waiting[q] :
                    Ref(v, x.waiting[q][j].n) = Ref(v, cs[i].n) => cs[i].n < x.waiting[q][j].n
    <3>1. cs[i] = m  BY <2>1
    <3> QED  BY <1>8, <1>12, <1>14, <2>2, <2>3, <2>4, <3>1
  <2> QED  BY <2>1, <2>5 DEF Runnable
<1>16. /\ executed' = executed \o [i \in DOMAIN cs |-> [n |-> cs[i].n, object |-> o,
                                                        args |-> Session!Vals(cs[i].args)]]
       /\ running' = running \cup {[n |-> cs[i].n, questionID |-> cs[i].questionID] : i \in DOMAIN cs}
       /\ {[n |-> cs[i].n, questionID |-> cs[i].questionID] : i \in DOMAIN cs}
            = {[n |-> m.n, questionID |-> m.questionID]}
  BY <1>6 DEF Session!Execute
<1> HIDE DEF cs
<1> DEFINE c == [n |-> m.n, questionID |-> m.questionID]
<1>17. ExecutedWell(v, new, y) /\ y.executed \in Seq([n : Nat, object : Objects, args : Seq(Passed)])
  <2>1. x.executed \in Seq([n : Nat, object : Objects, args : Seq(Passed)])  BY <1>8 DEF VatTypes
  <2>2. v.settled \in [Promises -> Objects \cup Plain \cup {Session!Bad, Session!Unsettled}]
    BY <1>10, <1>11
  <2>3. /\ y.waiting = x.waiting
        /\ y.executed = x.executed \o [i \in DOMAIN cs |-> [n |-> cs[i].n, object |-> o,
                                                           args |-> Session!Vals(cs[i].args)]]
    BY <1>9, <1>16
  <2>4. HoldsSlots /\ v.known = known /\ KnownWell(v) /\ MadeWell(v) /\ ExecutedWell(v, new, x)
    BY <1>8, <1>10, <1>11
  <2>5. RanWell(v, new, y)  BY ONLY <1>15, <2>1, <2>2, <2>3, <2>4, RunsCalls
  <2> QED  BY <2>5 DEF RanWell
<1>18. y.running = x.running \cup {c} /\ c.questionID = v.taken /\ c.n = m.n
       /\ c \in [n : Nat, questionID : Nat]
  <2>1. m.n \in Nat  BY <1>13 DEF CallSet
  <2> QED  BY <1>8, <1>9, <1>16, <2>1
<1> HIDE DEF c
<1>19. \A id \in Nat : /\ Waited(y, id) <=> Waited(x, id)
                       /\ Ran(y, id) <=> Ran(x, id) \/ id = v.taken
                       /\ Returned(y, id) <=> Returned(x, id)
  <2>1. \A id \in Nat : Ran(y, id) <=> Ran(x, id) \/ id = v.taken  BY <1>18 DEF Ran
  <2>2. \A id \in Nat : (Waited(y, id) <=> Waited(x, id)) /\ (Returned(y, id) <=> Returned(x, id))
    BY <1>9 DEF Waited, Returned
  <2> QED  BY <2>1, <2>2
<1>20. Open(y) = Open(x) \cup {v.taken}
  <2>1. \A id : id \in Open(y) <=> id \in Open(x) \cup {v.taken}  BY <1>8, <1>19 DEF Open
  <2> QED  BY <2>1
<1>21. ~Waited(x, v.taken) /\ ~Returned(x, v.taken)  BY <1>8 DEF Open
<1>22. PlacesWell(v, new, y)
  <2>1. \A d \in y.running : d.questionID \in 1..v.taken /\ d.n = new.questions[d.questionID]
    BY <1>8, <1>18 DEF PlacesWell
  <2>2. \A id \in Nat : /\ Waited(y, id) => ~Ran(y, id) /\ ~Returned(y, id)
                        /\ Ran(y, id) => ~Returned(y, id)
    BY <1>8, <1>19, <1>21 DEF PlacesWell
  <2> QED  BY <1>8, <1>9, <2>1, <2>2 DEF PlacesWell
<1>23. WaitingWell(v, new, y)  BY <1>8, <1>9 DEF WaitingWell
<1>24. /\ Serves(World, World', Session!Client', Vat, Head(toVat)) /\ ResolvedWell(World', resolved)
       /\ Open(Vat') = Open(Vat) \cup {World'.taken}
       /\ PlacesWell(World', Session!Client', Vat') /\ WaitingWell(World', Session!Client', Vat')
       /\ ExecutedWell(World', Session!Client', Vat')
  BY <1>1, <1>2, <1>3, <1>4, <1>5, <1>6, <1>7, <1>17, <1>20, <1>22, <1>23
<1>25. /\ running' \subseteq [n : Nat, questionID : Nat] /\ waiting' \in [Promises -> Seq(CallSet)]
       /\ executed' \in Seq([n : Nat, object : Objects, args : Seq(Passed)])
  <2>1. SessionTypes  BY DEF SessionInv
  <2> QED  BY <1>9, <1>17, <1>18, <2>1 DEF SessionTypes
<1> QED  BY <1>24, <1>25, ServedLater

\* Every message that the vat takes keeps the invariant.
LEMMA VatDispatchKeeps ==
    ASSUME SessionInv, Session!VatDispatch
    PROVE  SessionInv'
<1>1. /\ toVat # <<>> /\ toVat' = Tail(toVat)
      /\ Session!CTP_BOOTSTRAP(Head(toVat)) \/ Session!CTP_CALL(Head(toVat))
      /\ UNCHANGED <<settled, made, answer, postponed, questions, known, resolved, torn, thrown>>
  BY DEF Session!VatDispatch
<1>2. CASE Session!CTP_BOOTSTRAP(Head(toVat))  BY <1>2, BootstrapServed
<1>3. CASE Session!CTP_CALL(Head(toVat))
  <2>1. PICK m : m = Head(toVat)  OBVIOUS
  <2>2. PICK p : p = Session!SlotToVal(m.target)  OBVIOUS
  <2>3. PICK o : o = IF p \in Promises THEN settled[p] ELSE p  OBVIOUS
  <2>4. /\ m.type = "CTP_CALL"
        /\ \/ /\ o = Session!Unsettled
              /\ waiting' = [waiting EXCEPT ![p] = Append(@, m)]
              /\ UNCHANGED <<running, executed, exports, toClient>>
           \/ /\ o \in Objects
              /\ Session!Execute(<<m>>, o)
              /\ UNCHANGED <<waiting, exports, toClient>>
           \/ /\ o \notin Objects \cup {Session!Unsettled}
              /\ toClient' = Append(toClient, Session!Exception(m))
              /\ UNCHANGED <<waiting, running, executed, exports>>
    BY <1>3, <2>1, <2>2, <2>3 DEF Session!CTP_CALL
  <2>5. CASE /\ o = Session!Unsettled
             /\ waiting' = [waiting EXCEPT ![p] = Append(@, m)]
             /\ UNCHANGED <<running, executed, exports, toClient>>
    <3>1. p \in Passed
      <4>1. Serves(World, World', Session!Client', Vat, m)  BY <1>1, <2>1, ServesIs
      <4>2. CallWell(World', Session!Client', m) /\ World'.known = World.known
        BY <2>4, <4>1 DEF Serves
      <4>3. m.target \in DOMAIN known  BY <4>2 DEF CallWell, World
      <4>4. HoldsSlots /\ KnownWell(World)  BY DEF SessionInv
      <4>5. known[m.target] = p  BY <2>2, <4>3, <4>4 DEF HoldsSlots, Session!SlotToVal
      <4> QED  BY <4>3, <4>4, <4>5 DEF KnownWell, World
    <3>2. p \in Promises /\ settled[p] = Session!Unsettled
      BY <2>3, <2>5, <3>1, KindsApart
    <3>3. p = Session!SlotToVal(Head(toVat).target) /\ Head(toVat).type = "CTP_CALL"
          /\ waiting' = [waiting EXCEPT ![p] = Append(@, Head(toVat))]
      BY <2>1, <2>2, <2>4, <2>5
    <3> QED  BY <1>1, <2>5, <3>2, <3>3, CallWaits
  <2>6. CASE o \in Objects /\ Session!Execute(<<m>>, o) /\ UNCHANGED <<waiting, exports, toClient>>
    <3>1. o = Stands(World, p)  BY <2>3 DEF Stands, World
    <3>2. p = Session!SlotToVal(Head(toVat).target) /\ Head(toVat).type = "CTP_CALL"
          /\ Session!Execute(<<Head(toVat)>>, o)
      BY <2>1, <2>2, <2>4, <2>6
    <3> QED  BY <1>1, <2>6, <3>1, <3>2, CallRuns
  <2>7. CASE /\ toClient' = Append(toClient, Session!Exception(m))
             /\ UNCHANGED <<waiting, running, executed, exports>>
    <3>1. toClient' = Append(toClient, Session!Exception(Head(toVat)))  BY <2>1, <2>7
    <3> QED  BY <1>1, <2>7, <3>1, CallRefused
  <2> QED  BY <2>4, <2>5, <2>6, <2>7
<1> QED  BY <1>1, <1>2, <1>3

\* A method that has answered, or thrown, leaves its question to the answer.
LEMMA CallFinished ==
    ASSUME SessionInv, NEW c, c \in running, running' = running \ {c},
           UNCHANGED <<settled, waiting, executed, toVat, made, answer, postponed, questions, known,
                       resolved, thrown>>,
           NEW more, Adds(exports', settled, torn', more), toClient' = toClient \o more,
           NEW n, Returns(more) = {n}, more[n].id = c.questionID
    PROVE  SessionInv'
<1>1. PICK w : w = World  OBVIOUS
<1>2. PICK st : st = Session!Client  OBVIOUS
<1>3. PICK x : x = Vat  OBVIOUS
<1>4. PICK y : y = Vat'  OBVIOUS
<1>5. w = World' /\ st = Session!Client'  BY <1>1, <1>2 DEF World, Session!Client
<1>6. /\ VatTypes(x) /\ ClientInv(w, st, {}, Open(x)) /\ PlacesWell(w, st, x)
      /\ WaitingWell(w, st, x) /\ ExecutedWell(w, st, x) /\ ResolvedWell(w, resolved)
      /\ w.taken \in Nat
  <2>1. st.resolved = resolved  BY <1>2 DEF Session!Client
  <2> QED  BY <1>1, <1>2, <1>3, <2>1, EndsAre
<1>7. /\ x.running = running /\ x.waiting = waiting /\ x.executed = executed /\ x.toClient = toClient
      /\ y.running = running \ {c} /\ y.waiting = waiting /\ y.executed = executed
      /\ y.toClient = toClient'
  BY <1>3, <1>4 DEF Vat
<1>8. PICK id : id = c.questionID  OBVIOUS
<1>9. \A d \in x.running : /\ d \in [n : Nat, questionID : Nat] /\ d.questionID \in 1..w.taken
                           /\ d.n = st.questions[d.questionID]
  BY <1>6 DEF VatTypes, PlacesWell
<1>10. id \in 1..w.taken /\ id \in Nat
  <2>1. id \in 1..w.taken  BY <1>7, <1>8, <1>9
  <2> QED  BY <1>6, <2>1
<1>11. \A d \in x.running : d.questionID = id => d = c
  BY <1>7, <1>8, <1>9
<1>12. PICK z : z = [waiting |-> waiting, running |-> running \ {c}, executed |-> executed,
                     toClient |-> toClient]
  OBVIOUS
<1>13. \A i \in Nat : /\ Waited(z, i) <=> Waited(x, i)
                      /\ Ran(z, i) <=> Ran(x, i) /\ i # id
                      /\ Returned(z, i) <=> Returned(x, i)
  <2>1. z.waiting = x.waiting /\ z.toClient = x.toClient /\ z.running = x.running \ {c}
    BY <1>7, <1>12
  <2>2. \A i \in Nat : Ran(z, i) <=> Ran(x, i) /\ i # id  BY <1>7, <1>8, <1>11, <2>1 DEF Ran
  <2> QED  BY <2>1, <2>2 DEF Waited, Returned
<1>14. Ran(x, id) /\ ~Waited(x, id) /\ ~Returned(x, id)
  <2>1. Ran(x, id)  BY <1>7, <1>8 DEF Ran
  <2> QED  BY <1>6, <1>10, <2>1 DEF PlacesWell
<1>15. PlacesWell(w, st, z)
  <2>1. z.waiting = x.waiting /\ z.toClient = x.toClient /\ z.running \subseteq x.running
    BY <1>7, <1>12
  <2>2. \A i \in Nat : /\ Waited(z, i) => ~Ran(z, i) /\ ~Returned(z, i)
                       /\ Ran(z, i) => ~Returned(z, i)
    BY <1>6, <1>13 DEF PlacesWell
  <2> QED  BY <1>6, <2>1, <2>2 DEF PlacesWell
<1>16. id \notin Open(z) /\ Open(z) \cup {id} = Open(x)
  <2>1. id \notin Open(z)  BY <1>13, <1>14 DEF Open
  <2>2. \A i : i \in Open(z) \cup {id} <=> i \in Open(x)  BY <1>10, <1>13, <1>14 DEF Open
  <2> QED  BY <2>1, <2>2
<1>17. Placed(w, st, z, id, y)
  <2>1. Joined(z.toClient, more, y.toClient)
    <3>1. PICK S : S = ToClientSet  OBVIOUS
    <3>2. toClient \in Seq(S) /\ more \in Seq(S)
      BY <3>1 DEF SessionInv, SessionTypes, Adds
    <3>3. Joined(toClient, more, toClient')  BY <3>2, JoinIs
    <3> QED  BY <1>7, <1>12, <3>3
  <2>2. y.waiting = z.waiting /\ y.running = z.running /\ more[n].id = id  BY <1>7, <1>8, <1>12
  <2> QED  BY <1>6, <1>10, <1>15, <1>16, <2>1, <2>2, PlaceReturned
<1>18. PlacesWell(w, st, y) /\ Open(y) = Open(x)  BY <1>16, <1>17 DEF Placed
<1>19. WaitingWell(w, st, y) /\ ExecutedWell(w, st, y)
  BY <1>6, <1>7 DEF WaitingWell, ExecutedWell
<1>20. /\ ClientInv(World', Session!Client', {}, Open(Vat')) /\ ResolvedWell(World', resolved)
       /\ PlacesWell(World', Session!Client', Vat') /\ WaitingWell(World', Session!Client', Vat')
       /\ ExecutedWell(World', Session!Client', Vat')
  BY <1>4, <1>5, <1>6, <1>18, <1>19
<1>21. /\ settled' \in [Promises -> Objects \cup Plain \cup {Session!Bad, Session!Unsettled}]
       /\ waiting' \in [Promises -> Seq(CallSet)] /\ running' \subseteq [n : Nat, questionID : Nat]
       /\ executed' \in Seq([n : Nat, object : Objects, args : Seq(Passed)])
  <2>1. SessionTypes  BY DEF SessionInv
  <2> QED  BY <2>1 DEF SessionTypes
<1>22. Adds(exports', settled', torn', more)  OBVIOUS
<1> QED  BY <1>20, <1>21, <1>22, AfterVat

\* Three sequences of messages joined.
LEMMA JoinThree ==
    ASSUME NEW S, NEW a \in Seq(S), NEW t \in Seq(S), NEW u \in Seq(S)
    PROVE  (a \o t) \o u = a \o (t \o u)
BY ConcatAssociative

\* A method that answers, or throws, keeps the invariant.
LEMMA FinishKeeps ==
    ASSUME SessionInv, NEW c, c \in running, Session!Finish(c)
    PROVE  SessionInv'
<1>1. /\ running' = running \ {c}
      /\ UNCHANGED <<settled, waiting, executed, toVat, made, answer, postponed, questions, known,
                     resolved, thrown>>
  BY DEF Session!Finish
<1>2. PICK r \in Results \cup {<<Session!Broken>>} :
        LET s == Session!Serialize(r)
        IN /\ exports' = s.ex
           /\ IF Session!Bad \in Session!Range(r)
              THEN /\ toClient' = toClient \o s.told \o <<Session!Exception(c)>>
                   /\ torn' = torn \cup (Session!Range(s.ex["p"]) \ Session!Range(exports["p"]))
              ELSE /\ toClient' = toClient \o <<Session!Return(c, s.ex, r)>> \o s.told
                   /\ UNCHANGED torn
  BY DEF Session!Finish
<1>3. r \in Seq(Passed \cup Plain \cup {Session!Bad}) /\ r # <<>>
  <2>1. CASE r \in Results
    <3>1. r \in Seq(Objects \cup Promises \cup {"data", "function"}) /\ r # <<>>
      BY <2>1, SessionAssumption
    <3>2. \A i \in DOMAIN r : r[i] \in Passed \cup Plain \cup {Session!Bad}
      BY <3>1 DEF Passed, Plain, Session!Data, Session!Bad
    <3> QED  BY <3>1, <3>2, SequenceOf
  <2>2. CASE r = <<Session!Broken>>  BY <2>2 DEF Plain
  <2> QED  BY <2>1, <2>2
<1>4. PICK s : s = Session!Serialize(r)  OBVIOUS
<1>5. exports' = s.ex  BY <1>2, <1>4
<1>6. c.questionID \in Nat /\ toClient \in Seq(ToClientSet)
  <2>1. c \in [n : Nat, questionID : Nat] /\ toClient \in Seq(ToClientSet)
    BY DEF SessionInv, SessionTypes
  <2> QED  BY <2>1
<1>7. PICK S : S = ToClientSet  OBVIOUS
<1>8. CASE Session!Bad \in Session!Range(r)
  <2>1. PICK e : e = Session!Exception(c)  OBVIOUS
  <2>2. PICK more : more = s.told \o <<e>>  OBVIOUS
  <2>3. PICK lost : lost = torn \cup (Session!Range(s.ex["p"]) \ Session!Range(exports["p"]))  OBVIOUS
  <2>4. toClient' = (toClient \o s.told) \o <<e>> /\ torn' = lost
    BY <1>2, <1>4, <1>8, <2>1, <2>3
  <2>5. SentWith(s, lost, more, e, c.questionID)
    BY <1>3, <1>4, <1>6, <2>1, <2>2, <2>3, SendsException
  <2>6. /\ Adds(s.ex, settled, lost, more) /\ \E n : Returns(more) = {n} /\ more[n].id = c.questionID
        /\ <<e>> \in Seq(ToClientSet) /\ s.told \in Seq(ToClientSet)
    BY <2>5 DEF SentWith
  <2>7. toClient' = toClient \o more
    <3>1. PICK a : a = toClient  OBVIOUS
    <3>2. PICK t : t = s.told  OBVIOUS
    <3>3. PICK u : u = <<e>>  OBVIOUS
    <3>4. a \in Seq(S) /\ t \in Seq(S) /\ u \in Seq(S)  BY <1>6, <1>7, <2>6, <3>1, <3>2, <3>3
    <3>5. (a \o t) \o u = a \o (t \o u)  BY ONLY <3>4, JoinThree
    <3> QED  BY <2>2, <2>4, <3>1, <3>2, <3>3, <3>5
  <2>8. PICK n : Returns(more) = {n} /\ more[n].id = c.questionID  BY <2>6
  <2>9. Adds(exports', settled, torn', more)  BY <1>5, <2>4, <2>6
  <2> QED  BY <1>1, <2>7, <2>8, <2>9, CallFinished
<1>9. CASE Session!Bad \notin Session!Range(r)
  <2>1. PICK e : e = Session!Return(c, s.ex, r)  OBVIOUS
  <2>2. PICK more : more = <<e>> \o s.told  OBVIOUS
  <2>3. r \in Seq(Passed \cup Plain)
    <3>1. \A i \in DOMAIN r : r[i] \in Passed \cup Plain
      BY <1>3, <1>9 DEF Session!Range
    <3> QED  BY <1>3, <3>1, SequenceOf
  <2>4. toClient' = (toClient \o <<e>>) \o s.told /\ torn' = torn
    BY <1>2, <1>4, <1>9, <2>1
  <2>5. SentWith(s, torn, more, e, c.questionID)
    BY <1>3, <1>4, <1>6, <2>1, <2>2, <2>3, SendsReturn
  <2>6. /\ Adds(s.ex, settled, torn, more) /\ \E n : Returns(more) = {n} /\ more[n].id = c.questionID
        /\ <<e>> \in Seq(ToClientSet) /\ s.told \in Seq(ToClientSet)
    BY <2>5 DEF SentWith
  <2>7. toClient' = toClient \o more
    <3>1. PICK a : a = toClient  OBVIOUS
    <3>2. PICK t : t = <<e>>  OBVIOUS
    <3>3. PICK u : u = s.told  OBVIOUS
    <3>4. a \in Seq(S) /\ t \in Seq(S) /\ u \in Seq(S)  BY <1>6, <1>7, <2>6, <3>1, <3>2, <3>3
    <3>5. (a \o t) \o u = a \o (t \o u)  BY ONLY <3>4, JoinThree
    <3> QED  BY <2>2, <2>4, <3>1, <3>2, <3>3, <3>5
  <2>8. PICK n : Returns(more) = {n} /\ more[n].id = c.questionID  BY <2>6
  <2>9. Adds(exports', settled, torn', more)  BY <1>5, <2>4, <2>6
  <2> QED  BY <1>1, <2>7, <2>8, <2>9, CallFinished
<1> QED  BY <1>8, <1>9

\* A promise is settled: the calls that waited for it no longer do.
Settling(w, v, st, x, p, r, z) ==
    /\ v.made = w.made /\ v.known = w.known /\ v.taken = w.taken /\ v.taken \in Nat
    /\ KnownWell(v) /\ MadeWell(v) /\ ClientInv(v, st, {}, Open(x)) /\ VatTypes(x)
    /\ PlacesWell(v, st, x) /\ WaitingWell(v, st, z) /\ ExecutedWell(v, st, z)
    /\ z = [waiting |-> [x.waiting EXCEPT ![p] = <<>>], running |-> x.running,
            executed |-> x.executed, toClient |-> x.toClient]
    /\ r \in Objects => Runnable(v, st, z, x.waiting[p], r)

\* What is settled stays so, and what is resolved is still what settled it.
LEMMA SettlingIs ==
    ASSUME NEW w, NEW st, NEW x, NEW p, p \in Promises, w.settled[p] = Session!Unsettled,
           NEW r, r \in Objects \cup Plain \cup {Session!Bad},
           w.settled \in [Promises -> Objects \cup Plain \cup {Session!Bad, Session!Unsettled}],
           KnownWell(w), MadeWell(w), ClientInv(w, st, {}, Open(x)), VatTypes(x),
           PlacesWell(w, st, x), WaitingWell(w, st, x), ExecutedWell(w, st, x), w.taken \in Nat,
           st.answer \in [Session!Numbers -> Seq(SlotSet)],
           NEW v, v.made = w.made, v.known = w.known, v.taken = w.taken,
           v.settled = [w.settled EXCEPT ![p] = r],
           NEW z, z = [waiting |-> [x.waiting EXCEPT ![p] = <<>>], running |-> x.running,
                       executed |-> x.executed, toClient |-> x.toClient]
    PROVE  Settling(w, v, st, x, p, r, z)
<1>1. /\ v.settled[p] = r /\ \A q \in Promises : q # p => v.settled[q] = w.settled[q]
      /\ v.settled \in [Promises -> Objects \cup Plain \cup {Session!Bad, Session!Unsettled}]
  OBVIOUS
<1>2. KnownWell(v) /\ MadeWell(v) /\ PlacesWell(v, st, x)
  BY DEF KnownWell, MadeWell, PlacesWell, ReturnsWell
<1>3. w.made \in Seq(MadeSet) /\ v.made \in Seq(MadeSet)  BY <1>2 DEF MadeWell
<1>4. Further(w, st, v, st)
  <2>1. Len(w.made) <= Len(v.made)  BY <1>3
  <2> QED  BY <1>1, <2>1 DEF Further
<1>5. ClientInv(v, st, {}, Open(x))
  <2>1. ClientInv(v, st, DOMAIN v.made \ DOMAIN w.made, Open(x))
    BY <1>2, <1>4, ClientGoesOn
  <2>2. DOMAIN v.made \ DOMAIN w.made = {}  OBVIOUS
  <2> QED  BY <2>1, <2>2
<1>6. QuestionsWell(w, st) /\ QuestionsWell(v, st) /\ ToVatWell(w, st)
  BY <1>5 DEF ClientInv
<1>7. \A k \in 1..w.taken : k \in DOMAIN st.questions /\ st.questions[k] \in DOMAIN w.made
  <2>1. st.questions \in Seq(DOMAIN w.made) /\ st.toVat \in Seq(ToVatSet)
        /\ Len(st.questions) = w.taken + Len(st.toVat)
    BY <1>6 DEF QuestionsWell, ToVatWell
  <2>2. PICK S : S = DOMAIN w.made  OBVIOUS
  <2>3. st.questions \in Seq(S)  BY <2>1, <2>2
  <2>4. Len(st.toVat) \in Nat  BY <2>1
  <2>5. \A k \in 1..w.taken : k \in 1..Len(st.questions)  BY <2>1, <2>4
  <2> QED  BY <2>2, <2>3, <2>5
<1>8. ASSUME NEW q \in Promises, NEW i \in DOMAIN x.waiting[q]
      PROVE  /\ CallWell(v, st, x.waiting[q][i]) /\ v.known[x.waiting[q][i].target] = q
             /\ CallWell(w, st, x.waiting[q][i]) /\ w.settled[q] = Session!Unsettled
             /\ x.waiting[q][i].questionID \in 1..w.taken
             /\ x.waiting[q][i].n = st.questions[x.waiting[q][i].questionID]
             /\ x.waiting[q][i].n \in DOMAIN w.made
  <2>1. PICK m : m = x.waiting[q][i]  OBVIOUS
  <2>2. CallWell(w, st, m) /\ w.known[m.target] = q /\ w.settled[q] = Session!Unsettled
    BY <2>1 DEF WaitingWell
  <2>3. m.questionID \in 1..w.taken /\ m.n = st.questions[m.questionID]
    BY <2>1 DEF PlacesWell
  <2>4. m.n \in DOMAIN w.made  BY <1>7, <2>3
  <2>5. CallWell(v, st, m)  BY <1>3, <1>4, <2>2, <2>4, CallStays
  <2> QED  BY <2>1, <2>2, <2>3, <2>4, <2>5
<1>9. /\ z.waiting[p] = <<>> /\ \A q \in Promises : q # p => z.waiting[q] = x.waiting[q]
      /\ z.executed = x.executed
  BY DEF VatTypes
<1>10. WaitingWell(v, st, z)
  <2>1. ASSUME NEW q \in Promises, NEW i \in DOMAIN z.waiting[q]
        PROVE  /\ CallWell(v, st, z.waiting[q][i])
               /\ v.known[z.waiting[q][i].target] = q /\ v.settled[q] = Session!Unsettled
    <3>1. q # p
      <4>1. DOMAIN <<>> = {}  OBVIOUS
      <4> QED  BY <1>9, <2>1, <4>1
    <3> QED  BY <1>1, <1>8, <1>9, <2>1, <3>1
  <2> QED  BY <2>1 DEF WaitingWell
<1>11. ASSUME NEW i \in DOMAIN x.executed
       PROVE  Runs(v, st, x.executed[i]) /\ x.executed[i].n \in DOMAIN w.made
  <2>1. x.executed[i] \in [n : Nat, object : Objects, args : Seq(Passed)]
    <3>1. PICK S : S = [n : Nat, object : Objects, args : Seq(Passed)]  OBVIOUS
    <3>2. PICK e : e = x.executed  OBVIOUS
    <3>3. e \in Seq(S) /\ i \in DOMAIN e  BY <3>1, <3>2 DEF VatTypes
    <3>4. e[i] \in S  BY <3>3
    <3> QED  BY <3>1, <3>2, <3>4
  <2>2. PICK e : e = x.executed[i]  OBVIOUS
  <2>3. e.object \in Objects /\ Runs(w, st, e)  BY <2>1, <2>2 DEF ExecutedWell
  <2>4. w.taken <= v.taken  OBVIOUS
  <2> QED  BY <1>4, <1>7, <2>2, <2>3, <2>4, RunsStay
<1>12. ExecutedWell(v, st, z)
  <2>1. \A q \in Promises : \A j \in DOMAIN z.waiting[q] :
          j \in DOMAIN x.waiting[q] /\ z.waiting[q][j] = x.waiting[q][j]
    <3>1. DOMAIN <<>> = {}  OBVIOUS
    <3> QED  BY <1>9, <3>1
  <2>2. \A n : Ref(v, n) = Ref(w, n)  BY DEF Ref
  <2> QED  BY <1>9, <1>11, <2>1, <2>2 DEF ExecutedWell
<1>13. ASSUME r \in Objects  PROVE Runnable(v, st, z, x.waiting[p], r)
  <2>1. PICK cs : cs = x.waiting[p]  OBVIOUS
  <2>2. cs \in Seq(CallSet)  BY <2>1 DEF VatTypes
  <2>3. \A n : Ref(v, n) = Ref(w, n)  BY DEF Ref
  <2>4. ASSUME NEW i \in DOMAIN cs, NEW j \in DOMAIN cs, i < j, Ref(v, cs[i].n) = Ref(v, cs[j].n)
        PROVE  cs[i].n < cs[j].n
    <3>1. cs[i].questionID < cs[j].questionID  BY <2>1, <2>4 DEF PlacesWell
    <3>2. PICK k : k = cs[i].questionID  OBVIOUS
    <3>3. PICK l : l = cs[j].questionID  OBVIOUS
    <3>4. /\ k \in DOMAIN st.questions /\ l \in DOMAIN st.questions /\ k < l
          /\ cs[i].n = st.questions[k] /\ cs[j].n = st.questions[l]
      BY <1>7, <1>8, <2>1, <3>1, <3>2, <3>3
    <3> QED  BY <1>6, <2>4, <3>4 DEF QuestionsWell
  <2>5. ASSUME NEW i \in DOMAIN cs, NEW j \in DOMAIN z.executed,
               Ref(v, z.executed[j].n) = Ref(v, cs[i].n)
        PROVE  z.executed[j].n < cs[i].n
    BY <1>9, <2>1, <2>3, <2>5 DEF ExecutedWell
  <2>6. ASSUME NEW i \in DOMAIN cs, NEW q \in Promises, NEW j \in DOMAIN z.waiting[q],
               Ref(v, z.waiting[q][j].n) = Ref(v, cs[i].n)
        PROVE  FALSE
    <3>1. DOMAIN <<>> = {}  OBVIOUS
    <3>2. q # p /\ j \in DOMAIN x.waiting[q] /\ z.waiting[q][j] = x.waiting[q][j]
      BY <1>9, <2>6, <3>1
    <3>3. PICK c : c = cs[i]  OBVIOUS
    <3>4. PICK d : d = x.waiting[q][j]  OBVIOUS
    <3>5. CallWell(v, st, c) /\ v.known[c.target] = p  BY <1>8, <2>1, <3>3
    <3>6. CallWell(v, st, d) /\ v.known[d.target] = q  BY <1>8, <3>2, <3>4
    <3>7. CallWell(w, st, c) /\ CallWell(w, st, d) /\ w.known[c.target] = p /\ w.known[d.target] = q
      <4>1. CallWell(w, st, c)  BY <1>8, <2>1, <3>3
      <4>2. CallWell(w, st, d)  BY <1>8, <3>2, <3>4
      <4> QED  BY <3>5, <3>6, <4>1, <4>2
    <3>8. w.known[RefSlot(st, Ref(w, c.n))] = p  BY <3>7, CallsTo
    <3>9. w.known[RefSlot(st, Ref(w, d.n))] = q  BY <3>7, CallsTo
    <3>10. Ref(w, c.n) = Ref(w, d.n)  BY <2>3, <2>6, <3>2, <3>3, <3>4
    <3> QED  BY <3>2, <3>8, <3>9, <3>10
  <2>7. ASSUME NEW i \in DOMAIN cs
        PROVE  /\ CallWell(v, st, cs[i]) /\ Stands(v, v.known[cs[i].target]) = r
               /\ cs[i].n \in DOMAIN v.made
               /\ \E k \in 1..v.taken : cs[i].n = st.questions[k]
    BY <1>1, <1>8, <2>1, <2>7 DEF Stands
  <2>8. Runnable(v, st, z, cs, r)  BY <1>13, <2>2, <2>4, <2>5, <2>6, <2>7 DEF Runnable
  <2> QED  BY <2>1, <2>8
<1> QED  BY <1>2, <1>5, <1>10, <1>12, <1>13 DEF Settling

\* The answers that are added to what the vat tells.
LEMMA AddsMore ==
    ASSUME NEW ex, NEW res, NEW lost, NEW told, Adds(ex, res, lost, told),
           NEW es \in Seq(ToClientSet),
           \A j \in DOMAIN es : es[j].type = "CTP_RETURN" /\ GoodMessage(ex, es[j]),
           NEW more, more = told \o es
    PROVE  Adds(ex, res, lost, more)
<1>1. Joined(told, es, more) /\ more \in Seq(ToClientSet)
  <2>1. PICK S : S = ToClientSet  OBVIOUS
  <2>2. told \in Seq(S) /\ es \in Seq(S)  BY <2>1 DEF Adds
  <2>3. Joined(told, es, more) /\ more \in Seq(S)  BY <2>2, JoinIs
  <2> QED  BY <2>1, <2>3
<1>2. /\ \A i \in DOMAIN told : i \in DOMAIN more /\ more[i] = told[i]
      /\ \A i \in DOMAIN more : i \in DOMAIN told \/ \E j \in DOMAIN es : more[i] = es[j]
      /\ \A i \in DOMAIN told : \A l \in 1..(i - 1) : l \in DOMAIN told
  <2>1. \A i \in DOMAIN told : i \in DOMAIN more /\ more[i] = told[i]  BY <1>1 DEF Joined
  <2>2. \A i \in DOMAIN more : i \in DOMAIN told \/ \E j \in DOMAIN es : more[i] = es[j]
    <3>1. \A j \in DOMAIN es : more[Len(told) + j] = es[j]  BY <1>1 DEF Joined
    <3>2. \A i \in DOMAIN more : i \in DOMAIN told \/ \E j \in DOMAIN es : i = Len(told) + j
      BY <1>1 DEF Joined
    <3> QED  BY <3>1, <3>2
  <2>3. DOMAIN told = 1..Len(told) /\ Len(told) \in Nat  BY <1>1 DEF Joined
  <2>4. \A i \in DOMAIN told : \A l \in 1..(i - 1) : l \in DOMAIN told  BY <2>3
  <2> QED  BY <2>1, <2>2, <2>4
<1>3. ASSUME NEW j \in DOMAIN more
      PROVE  /\ GoodMessage(ex, more[j])
             /\ more[j].type = "CTP_RESOLVE" =>
                  /\ GoodResolve(ex, res, more[j])
                  /\ \/ ex["p"][more[j].id] \in lost \/ more[j].id \in DOMAIN exports["p"]
                     \/ \E l \in 1..(j - 1) : <<"p", more[j].id>> \in Session!Range(more[l].slots)
  <2>1. CASE j \in DOMAIN told
    <3>1. PICK m : m = told[j]  OBVIOUS
    <3>2. /\ more[j] = m /\ GoodMessage(ex, m)
          /\ m.type = "CTP_RESOLVE" =>
               /\ GoodResolve(ex, res, m)
               /\ \/ ex["p"][m.id] \in lost \/ m.id \in DOMAIN exports["p"]
                  \/ \E l \in 1..(j - 1) : <<"p", m.id>> \in Session!Range(told[l].slots)
      BY <1>2, <2>1, <3>1 DEF Adds
    <3>3. \A l \in 1..(j - 1) : more[l] = told[l]  BY <1>2, <2>1
    <3> QED  BY <3>2, <3>3
  <2>2. CASE j \notin DOMAIN told  BY <1>2, <2>2
  <2> QED  BY <2>1, <2>2
<1>4. ASSUME NEW id \in DOMAIN ex["p"], ex["p"][id] \notin lost
      PROVE  /\ \/ id \in DOMAIN exports["p"]
                \/ \E l \in DOMAIN more : <<"p", id>> \in Session!Range(more[l].slots)
             /\ res[ex["p"][id]] \in Objects \cup Plain =>
                  \/ id \in DOMAIN exports["p"] /\ settled[ex["p"][id]] \in Objects \cup Plain
                  \/ \E j \in DOMAIN more : more[j].type = "CTP_RESOLVE" /\ more[j].id = id
  <2>1. /\ \/ id \in DOMAIN exports["p"]
           \/ \E l \in DOMAIN told : <<"p", id>> \in Session!Range(told[l].slots)
        /\ res[ex["p"][id]] \in Objects \cup Plain =>
             \/ id \in DOMAIN exports["p"] /\ settled[ex["p"][id]] \in Objects \cup Plain
             \/ \E j \in DOMAIN told : told[j].type = "CTP_RESOLVE" /\ told[j].id = id
    BY <1>4 DEF Adds
  <2> QED  BY <1>2, <2>1
<1> QED  BY <1>1, <1>3, <1>4 DEF Adds

\* What the vat tells when a promise is settled.
Tells(p, r, ex, told) ==
    /\ Adds(ex, [settled EXCEPT ![p] = r], torn, told) /\ told \in Seq(ToClientSet)
    /\ Returns(told) = {} /\ GoodExports(ex) /\ Grown(exports, ex)

\* It tells the client that has got the promise, if what settles it can pass.
LEMMA TellsOf ==
    ASSUME SessionInv, NEW p, p \in Promises, settled[p] = Session!Unsettled,
           NEW r, r \in Objects \cup Plain \cup {Session!Bad},
           NEW out, out = (p \in Session!Range(exports["p"]) /\ r # Session!Bad),
           NEW ex, ex = IF out THEN Session!SerializeSlot(exports, r) ELSE exports,
           NEW told, told = IF out THEN <<Session!Resolve(p, r, ex)>> ELSE <<>>
    PROVE  Tells(p, r, ex, told)
<1>1. GoodExports(exports) /\ SessionTypes /\ Grown(exports, exports)
  <2>1. GoodExports(exports) /\ SessionTypes  BY DEF SessionInv
  <2> QED  BY <2>1, GrowsNot
<1>2. PICK res : res = [settled EXCEPT ![p] = r]  OBVIOUS
<1>3. res[p] = r /\ \A q \in Promises : q # p => res[q] = settled[q]
  BY <1>1, <1>2 DEF SessionTypes
<1>4. \A id \in DOMAIN exports["p"] : exports["p"][id] \in Promises
  <2>1. \A id \in DOMAIN exports["p"] : exports["p"][id] \in Passed /\ Session!Kind(exports["p"][id]) = "p"
    BY <1>1 DEF GoodExports
  <2> QED  BY <2>1, KindsApart DEF Passed
<1>5. CASE ~out
  <2>1. ex = exports /\ told = <<>>  BY <1>5
  <2>2. told \in Seq(ToClientSet) /\ DOMAIN told = {} /\ Returns(told) = {}  BY <2>1 DEF Returns
  <2>3. ASSUME NEW id \in DOMAIN exports["p"], res[exports["p"][id]] \in Objects \cup Plain
        PROVE  settled[exports["p"][id]] \in Objects \cup Plain
    <3>1. CASE exports["p"][id] = p
      <4>1. p \in Session!Range(exports["p"])  BY <3>1 DEF Session!Range
      <4>2. r = Session!Bad  BY <1>5, <4>1
      <4> QED  BY <1>3, <2>3, <3>1, <4>2, KindsApart DEF Passed
    <3>2. CASE exports["p"][id] # p  BY <1>3, <1>4, <2>3, <3>2
    <3> QED  BY <3>1, <3>2
  <2>4. Adds(ex, res, torn, told)  BY <1>1, <1>3, <2>1, <2>2, <2>3 DEF Adds
  <2> QED  BY <1>1, <1>2, <2>1, <2>2, <2>4 DEF Tells
<1>6. CASE out
  <2>1. r \in Passed \cup Plain /\ r \in Objects \cup Plain /\ p \in Session!Range(exports["p"])
    BY <1>6 DEF Passed
  <2>2. ex = Session!SerializeSlot(exports, r)  BY <1>6
  <2>3. /\ GoodExports(ex) /\ Grown(exports, ex) /\ HasSlot(ex, r)
        /\ \A i \in DOMAIN ex["p"] : i \in DOMAIN exports["p"] \/ ex["p"][i] = r
    BY <1>1, <2>1, <2>2, SerializeSlotIs
  <2>4. ASSUME NEW i \in DOMAIN ex["p"]  PROVE i \in DOMAIN exports["p"] /\ ex["p"][i] = exports["p"][i]
    <3>1. ex["p"][i] \in Passed /\ Session!Kind(ex["p"][i]) = "p"  BY <2>3 DEF GoodExports
    <3>2. ex["p"][i] # r  BY <2>1, <3>1, KindsApart DEF Passed
    <3>3. i \in DOMAIN exports["p"]  BY <2>3, <3>2
    <3> QED  BY <2>3, <3>3 DEF Grown
  <2>5. PICK id \in DOMAIN exports["p"] : exports["p"][id] = p  BY <2>1 DEF Session!Range
  <2>6. id \in DOMAIN ex["p"] /\ ex["p"][id] = p
    <3>1. exports["p"] \in Seq(Passed) /\ ex["p"] \in Seq(Passed)  BY <1>1, <2>3 DEF GoodExports
    <3>2. id \in DOMAIN ex["p"]  BY <2>3, <2>5, <3>1 DEF Grown
    <3> QED  BY <2>4, <2>5, <3>2
  <2>7. PICK m : m = Session!Resolve(p, r, ex)  OBVIOUS
  <2>8. /\ m \in ToClientSet /\ m.type = "CTP_RESOLVE" /\ m.id = id /\ m.vals = <<r>>
        /\ GoodMessage(ex, m)
    <3>1. Resolution(ex, id, r, m)  BY <2>1, <2>3, <2>6, <2>7, ResolveIs
    <3> QED  BY <3>1 DEF Resolution
  <2>9. told = <<m>>  BY <1>6, <2>7
  <2>10. told \in Seq(ToClientSet) /\ DOMAIN told = {1} /\ told[1] = m  BY <2>8, <2>9
  <2>11. Returns(told) = {}  BY <2>8, <2>10 DEF Returns
  <2>12. GoodResolve(ex, res, m)  BY <1>3, <2>1, <2>6, <2>8 DEF GoodResolve
  <2>13. ASSUME NEW j \in DOMAIN ex["p"], res[ex["p"][j]] \in Objects \cup Plain
         PROVE  \/ settled[ex["p"][j]] \in Objects \cup Plain
                \/ \E k \in DOMAIN told : told[k].type = "CTP_RESOLVE" /\ told[k].id = j
    <3>1. CASE ex["p"][j] = p
      <4>1. j = id  BY <2>3, <2>6, <3>1 DEF GoodExports
      <4> QED  BY <2>8, <2>10, <4>1
    <3>2. CASE ex["p"][j] # p  BY <1>3, <1>4, <2>4, <2>13, <3>2
    <3> QED  BY <3>1, <3>2
  <2>14. Adds(ex, res, torn, told)
    <3>1. \A j \in DOMAIN told :
            /\ GoodMessage(ex, told[j])
            /\ told[j].type = "CTP_RESOLVE" =>
                 /\ GoodResolve(ex, res, told[j])
                 /\ told[j].id \in DOMAIN exports["p"]
      BY <2>5, <2>8, <2>10, <2>12
    <3>2. \A q \in Promises : settled[q] # Session!Unsettled => res[q] = settled[q]  BY <1>3
    <3> QED  BY <1>1, <2>3, <2>4, <2>10, <2>13, <3>1, <3>2 DEF Adds
  <2> QED  BY <1>2, <2>3, <2>10, <2>11, <2>14 DEF Tells
<1> QED  BY <1>5, <1>6

\* The exceptions of the calls that waited.
Refused(es, cs) ==
    /\ es \in Seq(ToClientSet) /\ DOMAIN es = DOMAIN cs
    /\ \A i \in DOMAIN es : /\ es[i].type = "CTP_RETURN" /\ es[i].id = cs[i].questionID
                            /\ GoodMessage(exports, es[i])

\* Each has one.
LEMMA RefusedIs ==
    ASSUME GoodExports(exports), NEW cs \in Seq(CallSet), NEW es, es = Session!Exceptions(cs)
    PROVE  Refused(es, cs)
<1>1. DOMAIN es = DOMAIN cs /\ \A i \in DOMAIN cs : es[i] = Session!Exception(cs[i])
  BY DEF Session!Exceptions
<1>2. ASSUME NEW i \in DOMAIN es
      PROVE  /\ es[i] \in ToClientSet /\ es[i].type = "CTP_RETURN" /\ es[i].id = cs[i].questionID
             /\ GoodMessage(exports, es[i])
  <2>1. PICK c : c = cs[i]  OBVIOUS
  <2>2. PICK e : e = es[i]  OBVIOUS
  <2>3. c \in CallSet  BY <1>1, <2>1
  <2>4. c.questionID \in Nat  BY <2>3 DEF CallSet
  <2>5. e = Session!Exception(c)  BY <1>1, <2>1, <2>2
  <2>6. /\ e \in ToClientSet /\ e.type = "CTP_RETURN" /\ e.id = c.questionID
        /\ GoodMessage(exports, e)
    BY <2>4, <2>5, ExceptionIs
  <2> QED  BY <2>1, <2>2, <2>6
<1>3. es \in Seq(ToClientSet)
  <2>1. PICK S : S = ToClientSet  OBVIOUS
  <2>2. Len(cs) \in Nat /\ DOMAIN cs = 1..Len(cs)  OBVIOUS
  <2>3. es = [i \in 1..Len(cs) |-> Session!Exception(cs[i])]  BY <2>2 DEF Session!Exceptions
  <2>4. \A i \in 1..Len(cs) : es[i] \in S  BY <1>1, <1>2, <2>1, <2>2
  <2>5. es = [i \in 1..Len(cs) |-> es[i]]  BY <2>3
  <2>6. es \in Seq(S)  BY <2>2, <2>4, <2>5
  <2> QED  BY <2>1, <2>6
<1> QED  BY <1>1, <1>2, <1>3 DEF Refused

\* The calls that waited have their places: their methods run, or they have
\* been answered.
Moves(v, st, x, y) ==
    PlacesWell(v, st, y) /\ Open(y) = Open(x)

\* What runs of calls.
RunOf(cs) == {[n |-> cs[i].n, questionID |-> cs[i].questionID] : i \in DOMAIN cs}

\* The methods of the calls that waited run.
LEMMA MovesToRun ==
    ASSUME NEW w, NEW v, NEW st, NEW x, NEW p, p \in Promises, NEW r, NEW z,
           Settling(w, v, st, x, p, r, z),
           NEW y, y.waiting = z.waiting, y.running = x.running \cup RunOf(x.waiting[p]),
           NEW told, Joined(x.toClient, told, y.toClient), Returns(told) = {}
    PROVE  Moves(v, st, x, y)
<1>1. /\ v.taken \in Nat /\ VatTypes(x) /\ PlacesWell(v, st, x)
      /\ z = [waiting |-> [x.waiting EXCEPT ![p] = <<>>], running |-> x.running,
              executed |-> x.executed, toClient |-> x.toClient]
  BY DEF Settling
<1>2. /\ y.waiting[p] = <<>> /\ \A q \in Promises : q # p => y.waiting[q] = x.waiting[q]
  BY <1>1 DEF VatTypes
<1>3. \A id \in Nat : Waited(x, id) <=>
         Waited(y, id) \/ \E i \in DOMAIN x.waiting[p] : x.waiting[p][i].questionID = id
  <2>1. DOMAIN <<>> = {}  OBVIOUS
  <2> QED  BY <1>2, <2>1 DEF Waited
<1>4. \A id \in Nat : Waited(y, id) =>
         ~\E i \in DOMAIN x.waiting[p] : x.waiting[p][i].questionID = id
  <2>1. ASSUME NEW id \in Nat, NEW q \in Promises, NEW j \in DOMAIN y.waiting[q],
               y.waiting[q][j].questionID = id,
               NEW i \in DOMAIN x.waiting[p], x.waiting[p][i].questionID = id
        PROVE  FALSE
    <3>1. DOMAIN <<>> = {}  OBVIOUS
    <3>2. q # p /\ j \in DOMAIN x.waiting[q] /\ x.waiting[q][j].questionID = id
      BY <1>2, <2>1, <3>1
    <3> QED  BY <1>1, <2>1, <3>2 DEF PlacesWell
  <2> QED  BY <2>1 DEF Waited
<1>5. \A id \in Nat : Ran(y, id) <=>
         Ran(x, id) \/ \E i \in DOMAIN x.waiting[p] : x.waiting[p][i].questionID = id
  <2>1. PICK cs : cs = x.waiting[p]  OBVIOUS
  <2>2. PICK R : R = {[n |-> cs[i].n, questionID |-> cs[i].questionID] : i \in DOMAIN cs}  OBVIOUS
  <2>3. y.running = x.running \cup R  BY <2>1, <2>2 DEF RunOf
  <2>4. \A id : (\E c \in R : c.questionID = id) <=> \E i \in DOMAIN cs : cs[i].questionID = id
    <3>1. \A c \in R : \E i \in DOMAIN cs : c.questionID = cs[i].questionID  BY <2>2
    <3>2. ASSUME NEW i \in DOMAIN cs  PROVE \E c \in R : c.questionID = cs[i].questionID
      <4>1. PICK c : c = [n |-> cs[i].n, questionID |-> cs[i].questionID]  OBVIOUS
      <4>2. c \in R /\ c.questionID = cs[i].questionID  BY <2>2, <4>1
      <4> QED  BY <4>2
    <3> QED  BY <3>1, <3>2
  <2> QED  BY <2>1, <2>3, <2>4 DEF Ran
<1>6. ReturnsWell(v, y.toClient) /\ \A id \in Nat : Returned(y, id) <=> Returned(x, id)
  <2>1. ReturnsWell(v, x.toClient)  BY <1>1 DEF PlacesWell
  <2>2. MoreReturns(v.taken, x, told)  BY <1>1, <2>1 DEF MoreReturns, ReturnsWell
  <2>3. /\ ReturnsWell(v, y.toClient)
        /\ \A id \in Nat : Returned(y, id) <=>
             Returned(x, id) \/ \E j \in Returns(told) : told[j].id = id
    BY <2>1, <2>2, ReturnsJoin
  <2> QED  BY <2>3
<1>7. \A q \in Promises : \A j \in DOMAIN y.waiting[q] :
        j \in DOMAIN x.waiting[q] /\ y.waiting[q][j] = x.waiting[q][j] /\ y.waiting[q] = x.waiting[q]
  <2>1. DOMAIN <<>> = {}  OBVIOUS
  <2> QED  BY <1>2, <2>1
<1>8. \A c \in y.running : c.questionID \in 1..v.taken /\ c.n = st.questions[c.questionID]
  <2>1. ASSUME NEW c \in y.running
        PROVE  c.questionID \in 1..v.taken /\ c.n = st.questions[c.questionID]
    <3>1. CASE c \in x.running  BY <1>1, <3>1 DEF PlacesWell
    <3>2. CASE c \notin x.running
      <4>1. PICK i \in DOMAIN x.waiting[p] :
              c = [n |-> x.waiting[p][i].n, questionID |-> x.waiting[p][i].questionID]
        BY <3>2 DEF RunOf
      <4> QED  BY <1>1, <4>1 DEF PlacesWell
    <3> QED  BY <3>1, <3>2
  <2> QED  BY <2>1
<1>9. \A id \in Nat : /\ Waited(y, id) => ~Ran(y, id) /\ ~Returned(y, id)
                      /\ Ran(y, id) => ~Returned(y, id)
  <2>1. \A id \in Nat : /\ Waited(x, id) => ~Ran(x, id) /\ ~Returned(x, id)
                        /\ Ran(x, id) => ~Returned(x, id)
    BY <1>1 DEF PlacesWell
  <2> QED  BY <1>3, <1>4, <1>5, <1>6, <2>1
<1>10. \A q \in Promises : \A i \in DOMAIN y.waiting[q] :
         /\ y.waiting[q][i].questionID \in 1..v.taken
         /\ y.waiting[q][i].n = st.questions[y.waiting[q][i].questionID]
         /\ \A h \in Promises : \A j \in DOMAIN y.waiting[h] :
              y.waiting[q][i].questionID = y.waiting[h][j].questionID => q = h
         /\ \A j \in DOMAIN y.waiting[q] :
              i < j => y.waiting[q][i].questionID < y.waiting[q][j].questionID
  BY <1>1, <1>7 DEF PlacesWell
<1>11. PlacesWell(v, st, y)  BY <1>6, <1>8, <1>9, <1>10 DEF PlacesWell
<1>12. \A id : id \in Open(y) <=> id \in Open(x)  BY <1>3, <1>5, <1>6 DEF Open
<1>13. Open(y) = Open(x)  BY <1>12
<1> QED  BY <1>11, <1>13 DEF Moves

\* The same for the calls that are answered with an exception.
LEMMA MovesBack ==
    ASSUME NEW w, NEW v, NEW st, NEW x, NEW p, p \in Promises, NEW r, NEW z,
           Settling(w, v, st, x, p, r, z),
           NEW y, y.waiting = z.waiting, y.running = x.running,
           NEW told, NEW es, NEW more, Joined(told, es, more), Returns(told) = {},
           Refused(es, x.waiting[p]), Joined(x.toClient, more, y.toClient)
    PROVE  Moves(v, st, x, y)
<1>1. /\ v.taken \in Nat /\ VatTypes(x) /\ PlacesWell(v, st, x)
      /\ z = [waiting |-> [x.waiting EXCEPT ![p] = <<>>], running |-> x.running,
              executed |-> x.executed, toClient |-> x.toClient]
  BY DEF Settling
<1>2. /\ y.waiting[p] = <<>> /\ \A q \in Promises : q # p => y.waiting[q] = x.waiting[q]
  BY <1>1 DEF VatTypes
<1>3. \A id \in Nat : Waited(x, id) <=>
         Waited(y, id) \/ \E i \in DOMAIN x.waiting[p] : x.waiting[p][i].questionID = id
  <2>1. DOMAIN <<>> = {}  OBVIOUS
  <2> QED  BY <1>2, <2>1 DEF Waited
<1>4. \A id \in Nat : Waited(y, id) =>
         ~\E i \in DOMAIN x.waiting[p] : x.waiting[p][i].questionID = id
  <2>1. ASSUME NEW id \in Nat, NEW q \in Promises, NEW j \in DOMAIN y.waiting[q],
               y.waiting[q][j].questionID = id,
               NEW i \in DOMAIN x.waiting[p], x.waiting[p][i].questionID = id
        PROVE  FALSE
    <3>1. DOMAIN <<>> = {}  OBVIOUS
    <3>2. q # p /\ j \in DOMAIN x.waiting[q] /\ x.waiting[q][j].questionID = id
      BY <1>2, <2>1, <3>1
    <3> QED  BY <1>1, <2>1, <3>2 DEF PlacesWell
  <2> QED  BY <2>1 DEF Waited
<1>5. \A id \in Nat : Ran(y, id) <=> Ran(x, id)  BY DEF Ran
<1> DEFINE cs == x.waiting[p]
           ids == {cs[i].questionID : i \in DOMAIN cs}
<1>6. /\ \A k \in Returns(more) : \E i \in DOMAIN cs : k = Len(told) + i /\ more[k].id = cs[i].questionID
      /\ \A i \in DOMAIN cs : Len(told) + i \in Returns(more)
                              /\ more[Len(told) + i].id = cs[i].questionID
  <2>1. /\ \A i \in DOMAIN told : i \in DOMAIN more /\ more[i] = told[i]
        /\ \A j \in DOMAIN es : Len(told) + j \in DOMAIN more /\ more[Len(told) + j] = es[j]
        /\ \A i \in DOMAIN more : i \in DOMAIN told \/ \E j \in DOMAIN es : i = Len(told) + j
    BY DEF Joined
  <2>2. /\ DOMAIN es = DOMAIN cs
        /\ \A i \in DOMAIN es : es[i].type = "CTP_RETURN" /\ es[i].id = cs[i].questionID
    BY DEF Refused
  <2>3. \A i \in DOMAIN told : told[i].type # "CTP_RETURN"  BY DEF Returns
  <2> HIDE DEF cs
  <2> QED  BY <2>1, <2>2, <2>3 DEF Returns
<1>7. \A i \in DOMAIN cs : /\ cs[i].questionID \in 1..v.taken /\ Waited(x, cs[i].questionID)
                           /\ \A j \in DOMAIN cs :
                                i < j => cs[i].questionID < cs[j].questionID
  BY <1>1 DEF PlacesWell, Waited
<1>8. \A i \in DOMAIN cs : i \in Nat
  <2>1. cs \in Seq(CallSet)  BY <1>1 DEF VatTypes
  <2> HIDE DEF cs
  <2> QED  BY <2>1
<1> HIDE DEF cs
<1>9. \A i, j \in DOMAIN cs : cs[i].questionID = cs[j].questionID => i = j
  <2>1. ASSUME NEW i \in DOMAIN cs, NEW j \in DOMAIN cs, cs[i].questionID = cs[j].questionID, i # j
        PROVE  FALSE
    <3>1. i < j \/ j < i  BY <1>8, <2>1
    <3>2. cs[i].questionID \in Nat /\ cs[j].questionID \in Nat  BY <1>1, <1>7
    <3>3. cs[i].questionID < cs[j].questionID \/ cs[j].questionID < cs[i].questionID
      BY <1>7, <3>1
    <3> QED  BY <2>1, <3>2, <3>3
  <2> QED  BY <2>1
<1>10. ReturnsWell(v, y.toClient)
       /\ \A id \in Nat : Returned(y, id) <=> Returned(x, id) \/ \E i \in DOMAIN cs : cs[i].questionID = id
  <2>1. ReturnsWell(v, x.toClient)  BY <1>1 DEF PlacesWell
  <2>2. MoreReturns(v.taken, x, more)
    <3>1. \A i \in Returns(x.toClient) : x.toClient[i].id \in 1..v.taken  BY <2>1 DEF ReturnsWell
    <3>2. ASSUME NEW j \in Returns(more)
          PROVE  /\ more[j].id \in 1..v.taken /\ ~Returned(x, more[j].id)
                 /\ \A k \in Returns(more) : more[j].id = more[k].id => j = k
      <4>1. PICK i \in DOMAIN cs : j = Len(told) + i /\ more[j].id = cs[i].questionID  BY <1>6
      <4>2. more[j].id \in 1..v.taken /\ Waited(x, more[j].id)  BY <1>7, <4>1
      <4>3. more[j].id \in Nat  BY <1>1, <4>2
      <4>4. ~Returned(x, more[j].id)  BY <1>1, <4>2, <4>3 DEF PlacesWell
      <4>5. ASSUME NEW k \in Returns(more), more[j].id = more[k].id  PROVE j = k
        <5>1. PICK l \in DOMAIN cs : k = Len(told) + l /\ more[k].id = cs[l].questionID  BY <1>6
        <5>2. i = l  BY <1>9, <4>1, <4>5, <5>1
        <5> QED  BY <4>1, <5>1, <5>2
      <4> QED  BY <4>2, <4>4, <4>5
    <3> QED  BY <1>1, <3>1, <3>2 DEF MoreReturns
  <2>3. /\ ReturnsWell(v, y.toClient)
        /\ \A id \in Nat : Returned(y, id) <=>
             Returned(x, id) \/ \E j \in Returns(more) : more[j].id = id
    BY <2>1, <2>2, ReturnsJoin
  <2>4. \A id \in Nat : (\E j \in Returns(more) : more[j].id = id)
                          <=> \E i \in DOMAIN cs : cs[i].questionID = id
    BY <1>6
  <2> QED  BY <2>3, <2>4
<1>11. \A q \in Promises : \A j \in DOMAIN y.waiting[q] :
        j \in DOMAIN x.waiting[q] /\ y.waiting[q][j] = x.waiting[q][j] /\ y.waiting[q] = x.waiting[q]
  <2>1. DOMAIN <<>> = {}  OBVIOUS
  <2> QED  BY <1>2, <2>1
<1>12. \A id \in Nat : Waited(x, id) <=> Waited(y, id) \/ \E i \in DOMAIN cs : cs[i].questionID = id
  BY <1>3 DEF cs
<1>13. \A id \in Nat : Waited(y, id) => ~\E i \in DOMAIN cs : cs[i].questionID = id
  BY <1>4 DEF cs
<1>14. \A id \in Nat : /\ Waited(y, id) => ~Ran(y, id) /\ ~Returned(y, id)
                       /\ Ran(y, id) => ~Returned(y, id)
  <2>1. \A id \in Nat : /\ Waited(x, id) => ~Ran(x, id) /\ ~Returned(x, id)
                        /\ Ran(x, id) => ~Returned(x, id)
    BY <1>1 DEF PlacesWell
  <2> QED  BY <1>5, <1>10, <1>12, <1>13, <2>1
<1>15. \A q \in Promises : \A i \in DOMAIN y.waiting[q] :
         /\ y.waiting[q][i].questionID \in 1..v.taken
         /\ y.waiting[q][i].n = st.questions[y.waiting[q][i].questionID]
         /\ \A h \in Promises : \A j \in DOMAIN y.waiting[h] :
              y.waiting[q][i].questionID = y.waiting[h][j].questionID => q = h
         /\ \A j \in DOMAIN y.waiting[q] :
              i < j => y.waiting[q][i].questionID < y.waiting[q][j].questionID
  BY <1>1, <1>11 DEF PlacesWell
<1>16. PlacesWell(v, st, y)
  BY <1>1, <1>10, <1>14, <1>15 DEF PlacesWell
<1>17. \A id : id \in Open(y) <=> id \in Open(x)  BY <1>5, <1>10, <1>12 DEF Open
<1>18. Open(y) = Open(x)  BY <1>17
<1> QED  BY <1>16, <1>18 DEF Moves


\* What a promise that is settled means for what was resolved before.
LEMMA ResolvedStays ==
    ASSUME NEW w, NEW res, ResolvedWell(w, res), NEW v, v.known = w.known, KnownWell(w),
           \A q \in Promises : w.settled[q] # Session!Unsettled => v.settled[q] = w.settled[q]
    PROVE  ResolvedWell(v, res)
<1>1. ASSUME NEW s \in DOMAIN res
      PROVE  v.settled[v.known[s]] = w.settled[w.known[s]]
  <2>1. s \in DOMAIN w.known /\ s[1] = "p" /\ w.settled[w.known[s]] \in Objects \cup Plain
    BY DEF ResolvedWell
  <2>2. w.known[s] \in Passed /\ Session!Kind(w.known[s]) = "p"  BY <2>1 DEF KnownWell
  <2>3. w.known[s] \in Promises  BY <2>2, KindsApart DEF Passed
  <2>4. w.settled[w.known[s]] # Session!Unsettled  BY <2>1, KindsApart DEF Passed
  <2> QED  BY <2>3, <2>4
<1> QED  BY <1>1 DEF ResolvedWell

\* A promise that the vat settles: with an object the calls that waited run,
\* with anything else they are refused.
LEMMA SettleKeeps ==
    ASSUME SessionInv, NEW p, p \in Promises, Session!Settle(p)
    PROVE  SessionInv'
<1>1. /\ settled[p] = Session!Unsettled /\ waiting' = [waiting EXCEPT ![p] = <<>>]
      /\ UNCHANGED <<toVat, made, answer, postponed, questions, known, resolved, torn, thrown>>
  BY DEF Session!Settle
<1>2. PICK r \in Objects \cup {Session!Data, Session!Bad, Session!Broken} :
       LET out == p \in Session!Range(exports["p"]) /\ r # Session!Bad
           ex == IF out THEN Session!SerializeSlot(exports, r) ELSE exports
           told == IF out THEN <<Session!Resolve(p, r, ex)>> ELSE <<>>
       IN /\ settled' = [settled EXCEPT ![p] = r]
          /\ exports' = ex
          /\ IF r \in Objects
             THEN Session!Execute(waiting[p], r) /\ toClient' = toClient \o told
             ELSE /\ toClient' = toClient \o told \o Session!Exceptions(waiting[p])
                  /\ UNCHANGED <<running, executed>>
  BY DEF Session!Settle
<1>3. r \in Objects \cup Plain \cup {Session!Bad}  BY DEF Plain
<1>4. PICK out : out = (p \in Session!Range(exports["p"]) /\ r # Session!Bad)  OBVIOUS
<1>5. PICK ex : ex = IF out THEN Session!SerializeSlot(exports, r) ELSE exports  OBVIOUS
<1>6. PICK told : told = IF out THEN <<Session!Resolve(p, r, ex)>> ELSE <<>>  OBVIOUS
<1>7. /\ settled' = [settled EXCEPT ![p] = r] /\ exports' = ex
      /\ r \in Objects => Session!Execute(waiting[p], r) /\ toClient' = toClient \o told
      /\ r \notin Objects => /\ toClient' = (toClient \o told) \o Session!Exceptions(waiting[p])
                             /\ UNCHANGED <<running, executed>>
  BY <1>2, <1>4, <1>5, <1>6
<1>8. Tells(p, r, ex, told)  BY <1>1, <1>3, <1>4, <1>5, <1>6, TellsOf
<1>9. /\ Adds(exports', settled', torn', told) /\ told \in Seq(ToClientSet) /\ Returns(told) = {}
      /\ GoodExports(exports') /\ Grown(exports, exports')
  BY <1>1, <1>7, <1>8 DEF Tells
<1>10. PICK w : w = World  OBVIOUS
<1>11. PICK v : v = World'  OBVIOUS
<1>12. PICK st : st = Session!Client  OBVIOUS
<1>13. PICK x : x = Vat  OBVIOUS
<1>14. PICK y : y = Vat'  OBVIOUS
<1>15. PICK z : z = [waiting |-> [x.waiting EXCEPT ![p] = <<>>], running |-> x.running,
                     executed |-> x.executed, toClient |-> x.toClient]
  OBVIOUS
<1>16. st = Session!Client'  BY <1>1, <1>12 DEF Session!Client
<1>17. /\ v.made = w.made /\ v.known = w.known /\ v.taken = w.taken
       /\ v.settled = settled' /\ w.settled = settled /\ v.known = known
  BY <1>1, <1>10, <1>11 DEF World
<1>18. SessionTypes /\ HoldsSlots /\ GoodExports(exports)  BY DEF SessionInv
<1>19. settled \in [Promises -> Objects \cup Plain \cup {Session!Bad, Session!Unsettled}]
       /\ settled' \in [Promises -> Objects \cup Plain \cup {Session!Bad, Session!Unsettled}]
  <2>1. settled \in [Promises -> Objects \cup Plain \cup {Session!Bad, Session!Unsettled}]
    BY <1>18 DEF SessionTypes
  <2> QED  BY <1>3, <1>7, <2>1
<1>20. /\ VatTypes(x) /\ KnownWell(w) /\ MadeWell(w) /\ ClientInv(w, st, {}, Open(x))
       /\ PlacesWell(w, st, x) /\ WaitingWell(w, st, x) /\ ExecutedWell(w, st, x) /\ w.taken \in Nat
       /\ st.answer \in [Session!Numbers -> Seq(SlotSet)] /\ ResolvedWell(w, resolved)
  <2>1. st.resolved = resolved  BY <1>12 DEF Session!Client
  <2> QED  BY <1>10, <1>12, <1>13, <2>1, EndsAre
<1>21. Settling(w, v, st, x, p, r, z)
  BY <1>1, <1>3, <1>7, <1>15, <1>17, <1>19, <1>20, SettlingIs
<1>22. /\ v.taken \in Nat /\ KnownWell(v) /\ MadeWell(v) /\ ClientInv(v, st, {}, Open(x))
       /\ WaitingWell(v, st, z) /\ ExecutedWell(v, st, z)
       /\ r \in Objects => Runnable(v, st, z, x.waiting[p], r)
  BY <1>21 DEF Settling
<1>23. ResolvedWell(v, resolved)
  <2>1. \A q \in Promises : w.settled[q] # Session!Unsettled => v.settled[q] = w.settled[q]
    BY <1>1, <1>7, <1>17, <1>19
  <2> QED  BY <1>17, <1>20, <2>1, ResolvedStays
<1>24. /\ x.waiting = waiting /\ x.running = running /\ x.executed = executed /\ x.toClient = toClient
       /\ y.waiting = waiting' /\ y.running = running' /\ y.executed = executed'
       /\ y.toClient = toClient'
  BY <1>13, <1>14 DEF Vat
<1>25. y.waiting = z.waiting /\ z.executed = x.executed  BY <1>1, <1>15, <1>24
<1>26. waiting[p] \in Seq(CallSet) /\ waiting' \in [Promises -> Seq(CallSet)]
  <2>1. waiting \in [Promises -> Seq(CallSet)]  BY <1>18 DEF SessionTypes
  <2>2. <<>> \in Seq(CallSet)  OBVIOUS
  <2> QED  BY <1>1, <2>1, <2>2
<1>27. x.executed \in Seq([n : Nat, object : Objects, args : Seq(Passed)])  BY <1>20 DEF VatTypes
<1>28. toClient \in Seq(ToClientSet)  BY <1>18 DEF SessionTypes
<1>29. CASE r \in Objects
  <2>1. /\ executed' = executed \o [i \in DOMAIN waiting[p] |->
                                      [n |-> waiting[p][i].n, object |-> r,
                                       args |-> Session!Vals(waiting[p][i].args)]]
        /\ running' = running \cup {[n |-> waiting[p][i].n, questionID |-> waiting[p][i].questionID]
                                    : i \in DOMAIN waiting[p]}
        /\ toClient' = toClient \o told
    BY <1>7, <1>29 DEF Session!Execute
  <2>2. Joined(x.toClient, told, y.toClient)
    <3>1. PICK S : S = ToClientSet  OBVIOUS
    <3>2. toClient \in Seq(S) /\ told \in Seq(S)  BY <1>9, <1>28, <3>1
    <3>3. Joined(toClient, told, toClient')  BY <2>1, <3>2, JoinIs
    <3> QED  BY <1>24, <3>3
  <2>3. y.running = x.running \cup RunOf(x.waiting[p])  BY <1>24, <2>1 DEF RunOf
  <2>4. Moves(v, st, x, y)  BY <1>9, <1>21, <1>25, <2>2, <2>3, MovesToRun
  <2>5. PlacesWell(v, st, y) /\ Open(y) = Open(x)  BY <2>4 DEF Moves
  <2>6. RanWell(v, st, y)
    <3>1. PICK cs : cs = x.waiting[p]  OBVIOUS
    <3>2. Runnable(v, st, z, cs, r)  BY <1>22, <1>29, <3>1
    <3>3. /\ y.waiting = z.waiting
          /\ y.executed = z.executed \o [i \in DOMAIN cs |-> [n |-> cs[i].n, object |-> r,
                                                             args |-> Session!Vals(cs[i].args)]]
      BY <1>24, <1>25, <2>1, <3>1
    <3>4. v.settled \in [Promises -> Objects \cup Plain \cup {Session!Bad, Session!Unsettled}]
      BY <1>17, <1>19
    <3>5. z.executed \in Seq([n : Nat, object : Objects, args : Seq(Passed)])
      BY <1>25, <1>27
    <3> QED  BY <1>17, <1>18, <1>22, <3>2, <3>3, <3>4, <3>5, RunsCalls
  <2>7. ExecutedWell(v, st, y) /\ executed' \in Seq([n : Nat, object : Objects, args : Seq(Passed)])
    BY <1>24, <2>6 DEF RanWell
  <2>8. WaitingWell(v, st, y)  BY <1>22, <1>25 DEF WaitingWell
  <2>9. running' \subseteq [n : Nat, questionID : Nat]
    <3>1. running \subseteq [n : Nat, questionID : Nat]  BY <1>18 DEF SessionTypes
    <3>2. \A i \in DOMAIN waiting[p] : waiting[p][i].n \in Nat /\ waiting[p][i].questionID \in Nat
      <4>1. PICK cs : cs = waiting[p]  OBVIOUS
      <4>2. \A i \in DOMAIN cs : cs[i] \in CallSet  BY <1>26, <4>1
      <4>3. \A m \in CallSet : m.n \in Nat /\ m.questionID \in Nat  BY DEF CallSet
      <4> QED  BY <4>1, <4>2, <4>3
    <3> QED  BY <2>1, <3>1, <3>2
  <2>10. /\ ClientInv(World', Session!Client', {}, Open(Vat')) /\ ResolvedWell(World', resolved)
         /\ PlacesWell(World', Session!Client', Vat') /\ WaitingWell(World', Session!Client', Vat')
         /\ ExecutedWell(World', Session!Client', Vat')
    BY <1>11, <1>14, <1>16, <1>22, <1>23, <2>5, <2>7, <2>8
  <2> QED  BY <1>1, <1>9, <1>19, <1>26, <2>1, <2>7, <2>9, <2>10, AfterVat
<1>30. CASE r \notin Objects
  <2>1. PICK es : es = Session!Exceptions(waiting[p])  OBVIOUS
  <2>2. Refused(es, waiting[p])  BY <1>18, <1>26, <2>1, RefusedIs
  <2>3. /\ es \in Seq(ToClientSet)
        /\ \A j \in DOMAIN es : es[j].type = "CTP_RETURN" /\ GoodMessage(exports, es[j])
    BY <2>2 DEF Refused
  <2>4. \A j \in DOMAIN es : es[j].type = "CTP_RETURN" /\ GoodMessage(exports', es[j])
    BY <1>9, <1>18, <2>3, MessageStays
  <2>5. PICK more : more = told \o es  OBVIOUS
  <2>6. Adds(exports', settled', torn', more)
    BY <1>9, <2>3, <2>4, <2>5, AddsMore
  <2>7. toClient' = toClient \o more /\ Joined(told, es, more) /\ Joined(x.toClient, more, y.toClient)
    <3>1. PICK S : S = ToClientSet  OBVIOUS
    <3>2. PICK a : a = toClient  OBVIOUS
    <3>3. a \in Seq(S) /\ told \in Seq(S) /\ es \in Seq(S)  BY <1>9, <1>28, <2>3, <3>1, <3>2
    <3>4. (a \o told) \o es = a \o (told \o es)  BY ONLY <3>3, JoinThree
    <3>5. toClient' = toClient \o more  BY <1>7, <1>30, <2>1, <2>5, <3>2, <3>4
    <3>6. Joined(told, es, more) /\ more \in Seq(S)  BY <2>5, <3>3, JoinIs
    <3>7. Joined(a, more, toClient')  BY <3>2, <3>3, <3>5, <3>6, JoinIs
    <3> QED  BY <1>24, <3>2, <3>5, <3>6, <3>7
  <2>8. y.running = x.running /\ y.executed = x.executed /\ Refused(es, x.waiting[p])
    BY <1>7, <1>24, <1>30, <2>2
  <2>9. Moves(v, st, x, y)  BY <1>9, <1>21, <1>25, <2>7, <2>8, MovesBack
  <2>10. PlacesWell(v, st, y) /\ Open(y) = Open(x)  BY <2>9 DEF Moves
  <2>11. WaitingWell(v, st, y) /\ ExecutedWell(v, st, y)
    BY <1>22, <1>25, <2>8 DEF WaitingWell, ExecutedWell
  <2>12. running' \subseteq [n : Nat, questionID : Nat]
         /\ executed' \in Seq([n : Nat, object : Objects, args : Seq(Passed)])
    BY <1>7, <1>18, <1>30 DEF SessionTypes
  <2>13. /\ ClientInv(World', Session!Client', {}, Open(Vat')) /\ ResolvedWell(World', resolved)
         /\ PlacesWell(World', Session!Client', Vat') /\ WaitingWell(World', Session!Client', Vat')
         /\ ExecutedWell(World', Session!Client', Vat')
    BY <1>11, <1>14, <1>16, <1>22, <1>23, <2>10, <2>11
  <2> QED  BY <1>1, <1>19, <1>26, <2>6, <2>7, <2>12, <2>13, AfterVat
<1> QED  BY <1>29, <1>30

\* A session starts with nothing.
LEMMA SessionStart ==
    ASSUME Session!Init
    PROVE  SessionInv
<1>1. /\ exports = [k \in {"o", "p"} |-> <<>>]
      /\ settled = [p \in Promises |-> Session!Unsettled]
      /\ waiting = [p \in Promises |-> <<>>]
      /\ running = {} /\ executed = <<>> /\ toVat = <<>> /\ toClient = <<>>
      /\ made = <<>> /\ answer = [n \in Session!Numbers |-> Session!NoAnswer]
      /\ postponed = [n \in Session!Numbers |-> <<>>] /\ questions = <<>>
      /\ known = <<>> /\ resolved = <<>> /\ torn = {} /\ thrown = FALSE
  BY DEF Session!Init
<1>2. DOMAIN <<>> = {} /\ Len(<<>>) = 0 /\ \A S : <<>> \in Seq(S)  OBVIOUS
<1>3. SessionTypes
  BY <1>1, <1>2 DEF SessionTypes
<1>4. GoodExports(exports)  BY <1>1, <1>2 DEF GoodExports
<1>5. HoldsSlots  BY <1>1, <1>2 DEF HoldsSlots
<1>6. PICK w : w = World  OBVIOUS
<1>7. PICK st : st = Session!Client  OBVIOUS
<1>8. PICK x : x = Vat  OBVIOUS
<1>9. /\ w.made = <<>> /\ w.known = <<>> /\ w.taken = 0
      /\ st.questions = <<>> /\ st.toVat = <<>> /\ st.resolved = <<>>
      /\ st.answer = [n \in Session!Numbers |-> Session!NoAnswer]
      /\ st.postponed = [n \in Session!Numbers |-> <<>>]
      /\ x.waiting = [p \in Promises |-> <<>>] /\ x.running = {} /\ x.executed = <<>>
      /\ x.toClient = <<>>
  <2>1. w.made = <<>> /\ w.known = <<>>  BY <1>1, <1>6 DEF World
  <2>2. w.taken = 0
    <3>1. w.taken = Len(questions) - Len(toVat)  BY <1>6 DEF World
    <3>2. Len(questions) = 0 /\ Len(toVat) = 0  BY <1>1, <1>2
    <3> QED  BY <3>1, <3>2
  <2>3. /\ st.questions = questions /\ st.toVat = toVat /\ st.resolved = resolved
        /\ st.answer = answer /\ st.postponed = postponed
    BY <1>7 DEF Session!Client
  <2>4. /\ x.waiting = waiting /\ x.running = running /\ x.executed = executed
        /\ x.toClient = toClient
    BY <1>8 DEF Vat
  <2> QED  BY <1>1, <2>1, <2>2, <2>3, <2>4
<1>10. ResolvedWell(w, resolved) /\ KnownWell(w)
  BY <1>1, <1>2, <1>9 DEF ResolvedWell, KnownWell
<1>11. MadeWell(w)
  <2>1. Len(w.made) <= MaxCalls  BY <1>2, <1>9, SessionAssumption
  <2> QED  BY <1>2, <1>9, <2>1 DEF MadeWell
<1>12. QuestionsWell(w, st)  BY <1>2, <1>9 DEF QuestionsWell
<1>13. ToVatWell(w, st)
  <2>1. Len(st.questions) = w.taken + Len(st.toVat) /\ w.taken \in Nat  BY <1>2, <1>9
  <2> QED  BY <1>2, <1>9, <2>1 DEF ToVatWell
<1>14. LaterWell(w, st, {})
  <2>1. st.postponed \in [Session!Numbers -> Seq(LaterSet)]  BY <1>2, <1>9
  <2>2. \A k \in Session!Numbers : DOMAIN st.postponed[k] = {}  BY <1>2, <1>9
  <2> QED  BY <2>1, <2>2 DEF LaterWell
<1>15. AnswersWell(w, st, {}, Open(x))
  <2>1. st.answer \in [Session!Numbers -> Seq(SlotSet)]  BY <1>2, <1>9 DEF Session!NoAnswer
  <2>2. \A n \in Session!Numbers : DOMAIN st.answer[n] = {} /\ st.answer[n] = Session!NoAnswer
    BY <1>2, <1>9 DEF Session!NoAnswer
  <2>3. \A n \in Session!Numbers : n \notin DOMAIN w.made  BY <1>2, <1>9
  <2> QED  BY <2>1, <2>2, <2>3 DEF AnswersWell
<1>16. ClientInv(w, st, {}, Open(x))  BY <1>12, <1>13, <1>14, <1>15 DEF ClientInv
<1>17. NoneLeft(st)  BY <1>9 DEF NoneLeft
<1>18. \A p \in Promises : DOMAIN x.waiting[p] = {}  BY <1>2, <1>9
<1>19. PlacesWell(w, st, x)
  <2>1. Returns(x.toClient) = {}  BY <1>2, <1>9 DEF Returns
  <2>2. \A id \in Nat : ~Waited(x, id) /\ ~Ran(x, id)  BY <1>9, <1>18 DEF Waited, Ran
  <2> QED  BY <1>9, <1>18, <2>1, <2>2 DEF PlacesWell, ReturnsWell
<1>20. WaitingWell(w, st, x)  BY <1>18 DEF WaitingWell
<1>21. ExecutedWell(w, st, x)  BY <1>2, <1>9 DEF ExecutedWell
<1>22. MessagesWell  BY <1>1, <1>2 DEF MessagesWell
<1>23. PromisesWell  BY <1>1, <1>2 DEF PromisesWell
<1> QED
  BY <1>3, <1>4, <1>5, <1>6, <1>7, <1>8, <1>10, <1>11, <1>16, <1>17, <1>19, <1>20, <1>21, <1>22,
     <1>23 DEF SessionInv

\* Where nothing changes the invariant stays.
LEMMA SessionStutters ==
    ASSUME SessionInv, UNCHANGED sessionVars
    PROVE  SessionInv'
<1>1. /\ exports' = exports /\ settled' = settled /\ waiting' = waiting /\ running' = running
      /\ executed' = executed /\ toVat' = toVat /\ toClient' = toClient /\ made' = made
      /\ answer' = answer /\ postponed' = postponed /\ questions' = questions
      /\ known' = known /\ resolved' = resolved /\ torn' = torn /\ thrown' = thrown
  BY DEF sessionVars
<1>2. /\ World' = World /\ Session!Client' = Session!Client /\ Vat' = Vat
  BY <1>1 DEF World, Session!Client, Vat
<1>3. SessionTypes' /\ HoldsSlots' /\ MessagesWell' /\ PromisesWell'
  <2>1. SessionTypes /\ HoldsSlots /\ MessagesWell /\ PromisesWell  BY DEF SessionInv
  <2>2. SessionTypes'
    <3>1. Session!Range(exports["p"])' = Session!Range(exports["p"])  BY <1>1 DEF Session!Range
    <3> QED  BY <1>1, <2>1, <3>1 DEF SessionTypes
  <2>3. HoldsSlots'  BY <1>1, <2>1 DEF HoldsSlots
  <2>4. MessagesWell'  BY <1>1, <2>1 DEF MessagesWell
  <2>5. \A id, n : SlotComes(id, n)' <=> SlotComes(id, n)
    BY <1>1 DEF SlotComes, Session!Range
  <2>6. PromisesWell'
    <3>1. ASSUME NEW id \in DOMAIN exports["p"], exports["p"][id] \notin torn
          PROVE  SlotComes(id, Len(toClient))'
      <4>1. PICK n : n = Len(toClient)  OBVIOUS
      <4>2. SlotComes(id, n)  BY <2>1, <3>1, <4>1 DEF PromisesWell
      <4>3. SlotComes(id, n)'  BY <2>5, <4>2
      <4> QED  BY <1>1, <4>1, <4>3
    <3>2. ASSUME NEW i \in DOMAIN toClient, toClient[i].type = "CTP_RESOLVE",
                 exports["p"][toClient[i].id] \notin torn
          PROVE  SlotComes(toClient[i].id, i - 1)'
      <4>1. PICK id : id = toClient[i].id  OBVIOUS
      <4>2. SlotComes(id, i - 1)  BY <2>1, <3>2, <4>1 DEF PromisesWell
      <4>3. SlotComes(id, i - 1)'  BY <2>5, <4>2
      <4> QED  BY <1>1, <4>1, <4>3
    <3> QED  BY <1>1, <2>1, <3>1, <3>2 DEF PromisesWell
  <2> QED  BY <2>2, <2>3, <2>4, <2>6
<1> QED  BY <1>1, <1>2, <1>3 DEF SessionInv

\* Every step of either end keeps it.
LEMMA SessionStep ==
    ASSUME SessionInv, UNCHANGED sessionVars \/ Session!Next
    PROVE  SessionInv'
<1>1. CASE UNCHANGED sessionVars  BY <1>1, SessionStutters
<1>2. CASE Session!GetBootstrap  BY <1>2, GetBootstrapKeeps
<1>3. ASSUME NEW ref \in Session!Refs, NEW with \in {<<>>} \cup {<<s>> : s \in DOMAIN known},
             Session!Call(ref, with)
      PROVE  SessionInv'
  BY <1>3, CallKeepsInv
<1>4. CASE Session!VatDispatch  BY <1>4, VatDispatchKeeps
<1>5. CASE Session!ClientDispatch  BY <1>5, ClientDispatchKeeps
<1>6. ASSUME NEW c \in running, Session!Finish(c)  PROVE SessionInv'  BY <1>6, FinishKeeps
<1>7. ASSUME NEW p \in Promises, Session!Settle(p)  PROVE SessionInv'  BY <1>7, SettleKeeps
<1> QED  BY <1>1, <1>2, <1>3, <1>4, <1>5, <1>6, <1>7 DEF Session!Next

\* What has run is what was called.
LEMMA SessionRuns ==
    ASSUME SessionInv
    PROVE  Session!RunsAsCalled
<1>1. PICK w : w = World  OBVIOUS
<1>2. PICK st : st = Session!Client  OBVIOUS
<1>3. PICK x : x = Vat  OBVIOUS
<1>4. ExecutedWell(w, st, x) /\ KnownWell(w) /\ HoldsSlots /\ GoodExports(exports)
      /\ executed \in Seq([n : Nat, object : Objects, args : Seq(Passed)])
  BY <1>1, <1>2, <1>3 DEF SessionInv, SessionTypes
<1>5. /\ w.made = made /\ w.known = known /\ w.settled = settled
      /\ st.answer = answer /\ x.executed = executed
  BY <1>1, <1>2, <1>3 DEF World, Session!Client, Vat
<1>6. ASSUME NEW i \in DOMAIN executed
      PROVE  LET c == made[executed[i].n]
             IN /\ executed[i].object = Session!Deref(Session!Means(c.ref))
                /\ executed[i].args = [k \in DOMAIN c.args |-> known[c.args[k]]]
                /\ \A j \in 1 .. i - 1 :
                     made[executed[j].n].ref = c.ref => executed[j].n < executed[i].n
  <2>1. PICK e : e = executed[i]  OBVIOUS
  <2>2. PICK c : c = made[e.n]  OBVIOUS
  <2>3. Runs(w, st, e)  BY <1>4, <1>5, <2>1 DEF ExecutedWell
  <2>4. Ref(w, e.n) = c.ref  BY <1>5, <2>2 DEF Ref
  <2>5. RefKnown(w, st, c.ref) /\ e.object = Stands(w, known[RefSlot(st, c.ref)])
        /\ e.args = [k \in DOMAIN c.args |-> known[c.args[k]]]
    BY <1>5, <2>2, <2>3, <2>4 DEF Runs
  <2>6. Session!Means(c.ref) = known[RefSlot(st, c.ref)]
    BY <1>5, <2>5 DEF Session!Means, RefSlot, RefKnown
  <2>7. e.object = Session!Deref(Session!Means(c.ref))
    BY <1>5, <2>5, <2>6 DEF Session!Deref, Stands
  <2>8. ASSUME NEW j \in 1 .. i - 1, made[executed[j].n].ref = c.ref
        PROVE  executed[j].n < executed[i].n
    <3>1. j \in DOMAIN executed /\ j < i
      <4>1. PICK f : f = executed  OBVIOUS
      <4>2. f \in Seq([n : Nat, object : Objects, args : Seq(Passed)]) /\ i \in DOMAIN f
        BY <1>4, <4>1
      <4>3. Len(f) \in Nat /\ DOMAIN f = 1..Len(f)  BY <4>2
      <4>4. j \in 1..Len(f) /\ j < i  BY <4>2, <4>3
      <4> QED  BY <4>1, <4>3, <4>4
    <3>2. Ref(w, executed[j].n) = Ref(w, executed[i].n)
      BY <1>5, <2>1, <2>4, <2>8 DEF Ref
    <3> QED  BY <1>4, <1>5, <3>1, <3>2 DEF ExecutedWell
  <2> QED  BY <2>1, <2>2, <2>5, <2>7, <2>8
<1>7. ASSUME NEW s \in DOMAIN known, NEW t \in DOMAIN known, known[s] = known[t]  PROVE s = t
  <2>1. /\ s \in SlotSet /\ s[1] \in {"o", "p"} /\ s[2] \in DOMAIN exports[s[1]]
        /\ known[s] = exports[s[1]][s[2]]
        /\ t \in SlotSet /\ t[1] \in {"o", "p"} /\ t[2] \in DOMAIN exports[t[1]]
        /\ known[t] = exports[t[1]][t[2]]
    BY <1>4 DEF HoldsSlots
  <2>2. PICK k, i : k = s[1] /\ i = s[2]  OBVIOUS
  <2>3. PICK l, j : l = t[1] /\ j = t[2]  OBVIOUS
  <2>4. /\ k \in {"o", "p"} /\ i \in DOMAIN exports[k] /\ l \in {"o", "p"} /\ j \in DOMAIN exports[l]
        /\ exports[k][i] = exports[l][j]
    BY <1>7, <2>1, <2>2, <2>3
  <2>5. Session!Kind(exports[k][i]) = k /\ Session!Kind(exports[l][j]) = l
    BY <1>4, <2>4 DEF GoodExports
  <2>6. k = l  BY <2>4, <2>5
  <2>7. i = j  BY <1>4, <2>4, <2>6 DEF GoodExports
  <2>8. s = <<s[1], s[2]>> /\ t = <<t[1], t[2]>>  BY <2>1 DEF SlotSet
  <2> QED  BY <2>2, <2>3, <2>6, <2>7, <2>8
<1> QED  BY <1>6, <1>7 DEF Session!RunsAsCalled

\* When nothing is on its way, everything is settled that can be.
LEMMA SessionSettles ==
    ASSUME SessionInv
    PROVE  Session!SettlesAll
<1>1. PICK w : w = World  OBVIOUS
<1>2. PICK st : st = Session!Client  OBVIOUS
<1>3. PICK x : x = Vat  OBVIOUS
<1>4. /\ MadeWell(w) /\ KnownWell(w) /\ ClientInv(w, st, {}, Open(x)) /\ NoneLeft(st)
      /\ PlacesWell(w, st, x) /\ ResolvedWell(w, resolved) /\ HoldsSlots /\ PromisesWell
      /\ w.taken \in Nat /\ GoodExports(exports)
      /\ settled \in [Promises -> Objects \cup Plain \cup {Session!Bad, Session!Unsettled}]
  <2>1. World.taken \in Nat  BY EndsAre
  <2> QED  BY <1>1, <1>2, <1>3, <2>1 DEF SessionInv, SessionTypes
<1>5. /\ w.made = made /\ w.known = known /\ w.settled = settled
      /\ w.taken = Len(questions) - Len(toVat)
      /\ st.answer = answer /\ st.postponed = postponed /\ st.questions = questions
      /\ x.waiting = waiting /\ x.running = running /\ x.toClient = toClient
  BY <1>1, <1>2, <1>3 DEF World, Session!Client, Vat
<1>6. DOMAIN <<>> = {} /\ Len(<<>>) = 0  OBVIOUS
<1>7. LaterWell(w, st, {}) /\ AnswersWell(w, st, {}, Open(x)) /\ QuestionsWell(w, st) /\ ToVatWell(w, st)
  BY <1>4 DEF ClientInv
<1>8. \A n \in DOMAIN made : n \in Session!Numbers /\ n \in Nat
  BY <1>4, <1>5, RefIs
<1>9. ASSUME toVat = <<>>, toClient = <<>>, running = {}, NEW n \in DOMAIN made,
             answer[n] = Session!NoAnswer
      PROVE  n \in Session!Waits
  <2>1. PICK ns : ns = {c.n : c \in UNION {Session!Range(waiting[p]) : p \in Promises}}  OBVIOUS
  <2>2. PICK B : B = Session!Behind(postponed, ns)  OBVIOUS
  <2>3. Session!Waits = B  BY <2>1, <2>2 DEF Session!Waits
  <2>4. w.taken = Len(questions) /\ Len(questions) \in Nat /\ DOMAIN questions = 1..Len(questions)
    <3>1. PICK S : S = DOMAIN w.made  OBVIOUS
    <3>2. questions \in Seq(S)  BY <1>5, <1>7, <3>1 DEF QuestionsWell
    <3>3. Len(questions) \in Nat /\ DOMAIN questions = 1..Len(questions)  BY <3>2
    <3>4. Len(toVat) = 0  BY <1>6, <1>9
    <3> QED  BY <1>5, <3>3, <3>4
  <2>5. \A i \in DOMAIN questions : questions[i] \in DOMAIN made
    <3>1. PICK S : S = DOMAIN w.made  OBVIOUS
    <3>2. questions \in Seq(S)  BY <1>5, <1>7, <3>1 DEF QuestionsWell
    <3>3. \A i \in DOMAIN questions : questions[i] \in S  BY <3>2
    <3> QED  BY <1>5, <3>1, <3>3
  <2>6. \A p \in Promises : \A i \in DOMAIN waiting[p] :
          /\ waiting[p][i].n \in ns /\ waiting[p][i].n = questions[waiting[p][i].questionID]
          /\ waiting[p][i].questionID \in DOMAIN questions
    BY <1>4, <1>5, <2>1, <2>4 DEF PlacesWell, Session!Range
  <2>7. \A m \in ns : \E p \in Promises : \E i \in DOMAIN waiting[p] : m = waiting[p][i].n
    BY <2>1 DEF Session!Range
  <2>8. ns \in SUBSET Session!Numbers  BY <1>8, <2>5, <2>6, <2>7
  <2>9. \A k \in Session!Numbers : \A i \in DOMAIN postponed[k] :
          /\ postponed[k][i].n \in DOMAIN made /\ k < postponed[k][i].n
          /\ Ref(w, postponed[k][i].n).of = "answer" /\ Ref(w, postponed[k][i].n).n = k
    BY <1>5, <1>7 DEF LaterWell
  <2>10. /\ ns \subseteq B
         /\ \A k \in B : \A i \in DOMAIN postponed[k] : postponed[k][i].n \in B
    BY <1>8, <2>2, <2>8, <2>9, BehindIs
  <2> DEFINE U == {k \in DOMAIN made : answer[k] = Session!NoAnswer /\ k \notin B}
  <2>11. U \in SUBSET Nat  BY <1>8
  <2>12. ASSUME U # {}  PROVE FALSE
    <3>1. PICK m \in U : \A k \in U : m <= k  BY <2>11, <2>12, LeastOf
    <3>2. m \in DOMAIN made /\ answer[m] = Session!NoAnswer /\ m \notin B /\ m \in Session!Numbers
          /\ m \in Nat
      BY <1>8, <3>1
    <3>3. \/ \E i \in DOMAIN st.questions : st.questions[i] = m /\ (i > w.taken \/ i \in Open(x))
          \/ \E k \in Session!Numbers : \E i \in DOMAIN st.postponed[k] : st.postponed[k][i].n = m
      BY <1>5, <1>7, <3>2 DEF AnswersWell
    <3>4. CASE \E i \in DOMAIN st.questions : st.questions[i] = m /\ (i > w.taken \/ i \in Open(x))
      <4>1. PICK i \in DOMAIN questions : questions[i] = m /\ (i > w.taken \/ i \in Open(x))
        BY <1>5, <3>4
      <4>2. i \in Open(x)  BY <2>4, <4>1
      <4>3. ~Ran(x, i) /\ ~Returned(x, i)
        BY <1>5, <1>6, <1>9 DEF Ran, Returned, Returns
      <4>4. Waited(x, i)  BY <4>2, <4>3 DEF Open
      <4>5. PICK p \in Promises : \E j \in DOMAIN waiting[p] : waiting[p][j].questionID = i
        BY <1>5, <4>4 DEF Waited
      <4>6. m \in ns  BY <2>6, <4>1, <4>5
      <4> QED  BY <2>10, <3>2, <4>6
    <3>5. CASE \E k \in Session!Numbers : \E i \in DOMAIN st.postponed[k] : st.postponed[k][i].n = m
      <4>1. PICK k \in Session!Numbers : \E i \in DOMAIN postponed[k] : postponed[k][i].n = m
        BY <1>5, <3>5
      <4>2. postponed[k] # <<>>  BY <1>6, <4>1
      <4>3. answer[k] = Session!NoAnswer  BY <1>4, <1>5, <4>1, <4>2 DEF NoneLeft
      <4>4. k < m /\ Ref(w, m).of = "answer" /\ Ref(w, m).n = k  BY <2>9, <4>1
      <4>5. k \in DOMAIN made  BY <1>4, <1>5, <3>2, <4>4, RefIs
      <4>6. k \notin B  BY <2>10, <3>2, <4>1
      <4>7. k \in U  BY <4>3, <4>5, <4>6
      <4>8. m <= k /\ k \in Nat  BY <1>8, <3>1, <4>5, <4>7
      <4> QED  BY <3>2, <4>4, <4>8
    <3> QED  BY <3>3, <3>4, <3>5
  <2> QED  BY <1>9, <2>3, <2>12
<1>10. ASSUME toClient = <<>>, NEW s \in DOMAIN known, s[1] = "p", known[s] \notin torn,
              settled[known[s]] \notin {Session!Unsettled, Session!Bad}
       PROVE  /\ s \in DOMAIN resolved
              /\ settled[known[s]] \in Objects => known[resolved[s]] = settled[known[s]]
  <2>1. s \in SlotSet /\ s[2] \in DOMAIN exports["p"] /\ known[s] = exports["p"][s[2]]
    BY <1>4, <1>10 DEF HoldsSlots
  <2>2. s = <<"p", s[2]>>  BY <1>10, <2>1 DEF SlotSet
  <2>3. known[s] \in Promises
    <3>1. known[s] \in Passed /\ Session!Kind(known[s]) = "p"  BY <1>4, <2>1 DEF GoodExports
    <3> QED  BY <3>1, KindsApart DEF Passed
  <2>4. settled[known[s]] \in Objects \cup Plain  BY <1>4, <1>10, <2>3
  <2>5. PICK id : id = s[2]  OBVIOUS
  <2>6. id \in DOMAIN exports["p"] /\ exports["p"][id] = known[s]  BY <2>1, <2>5
  <2>7. <<"p", id>> \in DOMAIN resolved
    <3>1. \/ <<"p", id>> \in DOMAIN resolved
          \/ \E i \in DOMAIN toClient : toClient[i].type = "CTP_RESOLVE" /\ toClient[i].id = id
      BY <1>4, <1>10, <2>4, <2>6 DEF PromisesWell
    <3> QED  BY <1>6, <1>10, <3>1
  <2>8. s \in DOMAIN resolved  BY <2>2, <2>5, <2>7
  <2>9. settled[known[s]] \in Objects => known[resolved[s]] = settled[known[s]]
    BY <1>4, <1>5, <2>8, KindsApart DEF ResolvedWell, Passed
  <2> QED  BY <2>8, <2>9
<1>11. thrown => torn # {}  BY <1>4 DEF PromisesWell
<1> QED  BY <1>9, <1>10, <1>11 DEF Session!SettlesAll

\* SessionInv holds throughout, whatever the other parts do.
LEMMA SessionAlways == PartsSpec => []SessionInv
<1>1. PartsInit => SessionInv  BY SessionStart DEF PartsInit
<1>2. ASSUME SessionInv, [PartsNext]_partsVars PROVE SessionInv'
  <2>1. UNCHANGED sessionVars \/ Session!Next  BY <1>2 DEF PartsNext, partsVars
  <2> QED  BY <1>2, <2>1, SessionStep
<1> QED  BY <1>1, <1>2, PTL DEF PartsSpec

\* For any objects and promises of the vat, answers of its methods and calls of
\* the client: a method runs on the object its call was made on and with the
\* arguments meant, calls through one reference in the order they were made, and
\* one object is one presence (captp.umd.js makeRemote, serializeSlot,
\* unserializeSlot).
THEOREM MethodsRunAsCalled == PartsSpec => []RunsAsCalled
<1>1. SessionInv => RunsAsCalled  BY SessionRuns DEF RunsAsCalled
<1> QED  BY <1>1, SessionAlways, PTL

\* For the same: when nothing is on its way, every call has its answer or waits
\* for a promise that the vat has not settled, and every promise the client knows
\* is settled for it if it is for the vat, but for those whose slots were lost in
\* an answer that could not be sent; dispatch throws only after such an answer
\* (captp.umd.js serializeSlot, CTP_RETURN, CTP_RESOLVE).
THEOREM EverythingSettles == PartsSpec => []SettlesAll
<1>1. SessionInv => SettlesAll  BY SessionSettles DEF SettlesAll
<1> QED  BY <1>1, SessionAlways, PTL

=============================================================================
