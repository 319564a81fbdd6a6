------------------------------ MODULE Bootstrap ------------------------------
(***************************************************************************)
(* From a machine that starts to the presences a client can use: the       *)
(* bootstrap of every role (lib/ag-solo/vats/bootstrap.js), the            *)
(* provisioning vat (vat-provisioning.js), and what the HTTP vat does with *)
(* requests to provision and with the presences (vat-http.js).  The vats   *)
(* of one machine run until none has anything left to do before a message  *)
(* leaves it, so an action is what one message from outside sets off.      *)
(* Messages between a machine and the chain are the channel that           *)
(* MailboxExchange implements.                                             *)
(***************************************************************************)
EXTENDS Integers, Sequences, FiniteSets, SequencesExt

CONSTANTS
  Chain, Controller, Clients,
  Argvs,      \* machine -> command lines its bootstrap may get
  Informed,   \* machines whose vats/gci.js names the chain
  MaxPosts    \* bound on requests to provision

Solos == Clients \cup {Controller}
Machines == Solos \cup {Chain}

VARIABLES
  argv,       \* machine -> its command line
  up,         \* machine -> "off", "listening", "running" or, if its bootstrap threw, "thrown"
  remotes,    \* chain: peers its vattp or comms know
  egress,     \* chain: peer -> object 1 it may call: [is, bundle]
  bundles,    \* chain: the machine each bundle was made for
  posts,      \* requests to the controller: [key, state]
  toChain,    \* solo -> its messages to the chain
  fromChain,  \* solo -> the messages of the chain to it
  presences,  \* solo -> what it has instead of LOADING
  early       \* clients that were running before the chain had a bundle for them

vars == <<argv, up, remotes, egress, bundles, posts, toChain, fromChain, presences, early>>

LOADING == [of |-> "nobody", bundle |-> 0]
OfChain(n) == [of |-> "chain", bundle |-> n]
OfItsOwn == [of |-> "itself", bundle |-> 0]

With(f, k, v) == [x \in DOMAIN f \cup {k} |-> IF x = k THEN v ELSE f[x]]

Object(is, n) == [is |-> is, bundle |-> n]

Init ==
  /\ argv \in {a \in [Machines -> UNION {Argvs[m] : m \in Machines}] :
                 \A m \in Machines : a[m] \in Argvs[m]}
  /\ up = [m \in Machines |-> "off"]
  /\ remotes = {} /\ egress = <<>> /\ bundles = <<>> /\ posts = <<>>
  /\ toChain = [m \in Solos |-> <<>>] /\ fromChain = [m \in Solos |-> <<>>]
  /\ presences = [m \in Solos |-> LOADING] /\ early = {}

-----------------------------------------------------------------------------
(* parseArgs: roles, and what is no option is an address. *)

Roles(args) ==
  LET given == {args[i][2] : i \in {i \in DOMAIN args : args[i][1] = "--role"}}
  IN IF given = {} THEN {"three_client"} ELSE given

Addresses(args) ==
  LET addrs == SelectSeq(args, LAMBDA a : a[1] = "address")
  IN [i \in DOMAIN addrs |-> addrs[i][2]]

Has(m, role) == Roles(argv[m]) = {role}
IsClient(m) == Has(m, "client") \/ Has(m, "two_client")
Throws(m) ==
  \/ Cardinality(Roles(argv[m])) # 1
  \/ Roles(argv[m]) \subseteq {"controller", "client", "two_client"} /\ m \notin Informed

-----------------------------------------------------------------------------
(* Start. *)

(* A solo has its listener before its swingset, and a request that comes   *)
(* in between is refused; a mailbox is read again with the next block.     *)
Start(m) ==
  /\ up[m] = "off"
  /\ up' = [up EXCEPT ![m] = "listening"]
  /\ UNCHANGED <<argv, remotes, egress, bundles, posts, toChain, fromChain, presences, early>>

(* Scenario 1 gives the controller the provisioner, scenario 2 gives every *)
(* address the bundles.                                                    *)
ChainBoot ==
  /\ up[Chain] = "listening"
  /\ LET addrs == Addresses(argv[Chain])
     IN /\ remotes' = Range(addrs)
        /\ IF Throws(Chain)
           THEN up' = [up EXCEPT ![Chain] = "thrown"] /\ UNCHANGED egress
           ELSE /\ up' = [up EXCEPT ![Chain] = "running"]
                /\ egress' =
                     IF Has(Chain, "two_chain")
                     THEN [a \in Range(addrs) |-> Object("demoProvider", 0)]
                     ELSE IF addrs = <<>> THEN <<>>
                          ELSE [a \in {Head(addrs)} |-> Object("provisioner", 0)]
  /\ UNCHANGED <<argv, bundles, posts, toChain, fromChain, presences, early>>

HasBundle(m) == m \in DOMAIN egress /\ egress[m].is # "provisioner"

(* The controller has a presence for the provisioner, a client asks for    *)
(* its bundle, and a solo without a chain makes one of its own.            *)
SoloBoot(m) ==
  /\ up[m] = "listening"
  /\ up' = [up EXCEPT ![m] = IF Throws(m) THEN "thrown" ELSE "running"]
  /\ IF ~Throws(m) /\ IsClient(m)
     THEN /\ toChain' = [toChain EXCEPT ![m] = Append(@, [call |-> "getDemoBundle", post |-> 0])]
          /\ early' = IF HasBundle(m) THEN early ELSE early \cup {m}
     ELSE UNCHANGED <<toChain, early>>
  /\ presences' = IF Has(m, "three_client") THEN [presences EXCEPT ![m] = OfItsOwn]
                                            ELSE presences
  /\ UNCHANGED <<argv, remotes, egress, bundles, posts, fromChain>>

-----------------------------------------------------------------------------
(* vat-http and web.js: a request to provision.  It is answered when the   *)
(* promise of its handler is settled.                                      *)

Provisioning == up[Controller] = "running" /\ Has(Controller, "controller")

Ask(k, state) ==
  /\ Len(posts) < MaxPosts
  /\ posts' = Append(posts, [key |-> k, state |-> IF Provisioning THEN state ELSE "error"])
  /\ toChain' = IF ~Provisioning THEN toChain
                ELSE [toChain EXCEPT ![Controller] =
                        Append(@, [call |-> "pleaseProvision", post |-> Len(posts) + 1])]
  /\ UNCHANGED <<argv, up, remotes, egress, bundles, fromChain, presences, early>>

\* Mutant: the answer does not wait for the chain, as the FIXME of the handler says.
PleaseProvisionUnawaited(k) == Ask(k, "ok")

PleaseProvision(k) == Ask(k, "asked")

-----------------------------------------------------------------------------
(* The chain. *)

Reply(m, ok, n) ==
  fromChain' = [fromChain EXCEPT ![m] = Append(@, [ok |-> ok, post |-> Head(toChain[m]).post,
                                                   bundle |-> n])]

(* Messages of a peer that has not been added, or has nothing it may call; *)
(* vattp may know the peer from then on.                                   *)
Ignore(m) ==
  /\ m \notin DOMAIN egress
  /\ remotes' \in {remotes, remotes \cup {m}}
  /\ UNCHANGED <<egress, bundles, fromChain>>

Refuse(m, call) ==
  /\ m \in DOMAIN egress
  /\ (egress[m].is = "provisioner") # (call = "pleaseProvision")
  /\ Reply(m, FALSE, 0)
  /\ UNCHANGED <<remotes, egress, bundles>>

\* Mutant: nothing comes back when vattp and comms throw.
ProvisionUnanswered(m, call) ==
  /\ m \in DOMAIN egress /\ egress[m].is = "provisioner" /\ call = "pleaseProvision"
  /\ LET k == posts[Head(toChain[m]).post].key
     IN /\ bundles' = Append(bundles, k)
        /\ \/ /\ remotes' = remotes \cup {k}
              /\ egress' = With(egress, k, Object("fetch", Len(bundles) + 1))
              /\ Reply(m, TRUE, 0)
           \/ k \in remotes /\ UNCHANGED <<remotes, egress, fromChain>>

(* The bundle is made first.  What vattp and comms make of a peer they     *)
(* already have is up to them.                                             *)
Provision(m, call) ==
  /\ m \in DOMAIN egress /\ egress[m].is = "provisioner" /\ call = "pleaseProvision"
  /\ LET k == posts[Head(toChain[m]).post].key
     IN /\ bundles' = Append(bundles, k)
        /\ \/ /\ remotes' = remotes \cup {k}
              /\ egress' = With(egress, k, Object("fetch", Len(bundles) + 1))
              /\ Reply(m, TRUE, 0)
           \/ /\ k \in remotes
              /\ Reply(m, FALSE, 0)
              /\ UNCHANGED <<remotes, egress>>

(* Of a client that was provisioned the one made then, of an address of    *)
(* scenario 2 a new one every time.                                        *)
GetDemoBundle(m, call) ==
  /\ HasBundle(m) /\ call = "getDemoBundle"
  /\ IF egress[m].is = "fetch"
     THEN Reply(m, TRUE, egress[m].bundle) /\ UNCHANGED bundles
     ELSE bundles' = Append(bundles, m) /\ Reply(m, TRUE, Len(bundles) + 1)
  /\ UNCHANGED <<remotes, egress>>

ChainHears(m) ==
  /\ up[Chain] \in {"running", "thrown"} /\ toChain[m] # <<>>
  /\ LET call == Head(toChain[m]).call
     IN Ignore(m) \/ Refuse(m, call) \/ Provision(m, call) \/ GetDemoBundle(m, call)
  /\ toChain' = [toChain EXCEPT ![m] = Tail(@)]
  /\ UNCHANGED <<argv, up, posts, presences, early>>

-----------------------------------------------------------------------------
(* An answer of the chain. *)

(* inbound: the answer of the handler is the answer to the request. *)
SendResponse(m) ==
  /\ m = Controller /\ fromChain[m] # <<>>
  /\ posts' = [posts EXCEPT ![Head(fromChain[m]).post].state =
                  IF Head(fromChain[m]).ok THEN "ok" ELSE "error"]
  /\ UNCHANGED presences

(* A bundle that is refused leaves the client loading. *)
SetPresences(m) ==
  /\ m # Controller /\ fromChain[m] # <<>>
  /\ presences' = IF Head(fromChain[m]).ok
                  THEN [presences EXCEPT ![m] = OfChain(Head(fromChain[m]).bundle)] ELSE presences
  /\ UNCHANGED posts

SoloHears(m) ==
  /\ SendResponse(m) \/ SetPresences(m)
  /\ fromChain' = [fromChain EXCEPT ![m] = Tail(@)]
  /\ UNCHANGED <<argv, up, remotes, egress, bundles, toChain, early>>

Next ==
  \/ \E m \in Machines : Start(m)
  \/ ChainBoot
  \/ \E m \in Solos : SoloBoot(m) \/ ChainHears(m) \/ SoloHears(m)
  \/ \E k \in Clients : PleaseProvision(k)

(* A kernel that is up takes what has come for it; that a machine is       *)
(* started and that anybody asks is up to their owners.                    *)
Fairness ==
  /\ WF_vars(ChainBoot)
  /\ \A m \in Solos : WF_vars(SoloBoot(m)) /\ WF_vars(ChainHears(m)) /\ WF_vars(SoloHears(m))

Spec == Init /\ [][Next]_vars
FairSpec == Spec /\ Fairness

-----------------------------------------------------------------------------
(* Properties. *)

(* vat-http.js pleaseProvision, vat-provisioning.js: when the request of   *)
(* the provisioning server is answered, the chain knows the key and has a  *)
(* bundle for it, so that a client started on the answer is not early.     *)
(* What a client gets was made for it and for nobody else.                 *)
AnsweredIsProvisioned ==
  /\ \A i \in DOMAIN posts : posts[i].state = "ok" =>
       LET k == posts[i].key
       IN /\ k \in remotes /\ k \in DOMAIN egress
          /\ egress[k].is = "fetch" /\ bundles[egress[k].bundle] = k
  /\ \A m \in Solos : presences[m].of = "chain" => bundles[presences[m].bundle] = m

(* bootstrap.js, start.js: a client that is started when the chain has a   *)
(* bundle for it comes to its presences, and so does a solo without a      *)
(* chain; a request is answered if the chain has made its provisioner for  *)
(* the controller that passes it on, in whatever order they were started.  *)
ClientLoads ==
  /\ \A m \in Clients :
       up[m] = "running" /\ m \notin early /\ (IsClient(m) \/ Has(m, "three_client"))
         ~> presences[m] # LOADING
  /\ \A i \in 1 .. MaxPosts :
       i \in DOMAIN posts /\ Controller \in DOMAIN egress ~>
         i \in DOMAIN posts /\ posts[i].state # "asked"
=============================================================================
