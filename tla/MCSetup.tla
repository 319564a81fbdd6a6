------------------------------- MODULE MCSetup -------------------------------
(***************************************************************************)
(* How a network comes up, in two parts that share no state, of which a    *)
(* behaviour shows one: a chain and its provisioning server are            *)
(* bootstrapped on their hosts (Setup), and the vats of chain, controller  *)
(* and clients start (Bootstrap).  Two nodes: the provisioner and one      *)
(* more.  Of the two clients one is told of the chain; the chain is        *)
(* started for the controller alone, for both clients, with two roles, or  *)
(* with the controller's address in the wrong place.                       *)
(***************************************************************************)
EXTENDS Setup

CONSTANTS TheChain, TheController, Clients, Informed, MaxPosts

VARIABLES part,
          argv, up, remotes, egress, bundles, posts, toChain, fromChain, presences, early

MCNodes == {"node0", "node1"}
MCFirst == "node0"

Role(r) == <<"--role", r>>
Address(a) == <<"address", a>>
MCArgvs ==
  [m \in Clients \cup {TheController, TheChain} |->
     CASE m = TheChain -> {<<Role("chain"), Address(TheController)>>,
                        <<Role("two_chain")>> \o SetToSeq({Address(c) : c \in Clients}),
                        <<Role("chain"), Role("two_chain"), Address(TheController)>>,
                        <<Role("chain"), Address("elsewhere"), Address(TheController)>>}
       [] m = TheController -> {<<Role("controller")>>}
       [] OTHER -> {<<Role("client")>>, <<>>}]

Vats == INSTANCE Bootstrap WITH
  Argvs <- MCArgvs, Chain <- TheChain, Controller <- TheController

vatVars == <<argv, up, remotes, egress, bundles, posts, toChain, fromChain, presences, early>>

(* The command lines are fixed where the vats are not the part shown.      *)
MCInit ==
  /\ part \in {"setup", "vats"}
  /\ Init /\ Vats!Init
  /\ part # "vats" => \A m \in DOMAIN argv : argv[m] = CHOOSE a \in MCArgvs[m] : TRUE

MCNext ==
  /\ \/ part = "setup" /\ Next /\ UNCHANGED vatVars
     \/ part = "vats" /\ Vats!Next /\ UNCHANGED vars
  /\ UNCHANGED part

(* What has been started goes on, and in the setup an operator bootstraps. *)
MCSpec ==
  /\ MCInit /\ [][MCNext]_<<vars, vatVars, part>>
  /\ WF_vars(Work) /\ WF_vars(part = "setup" /\ Bootstrap(FALSE))
  /\ Vats!Fairness

(* A failed bootstrap gets to the end once nothing fails any more          *)
(* (setup/main.js, README.md Bootstrapping).                               *)
BootstrapFinishes == part = "setup" => Finishes

(* A request to provision is answered when its key is provisioned          *)
(* (vat-http.js pleaseProvision, vat-provisioning.js).                     *)
AnsweredIsProvisioned == Vats!AnsweredIsProvisioned

(* A client that is not early comes to its presences (bootstrap.js).       *)
ClientLoads == Vats!ClientLoads
=============================================================================
