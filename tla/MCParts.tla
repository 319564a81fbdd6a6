-------------------------------- MODULE MCParts --------------------------------
(***************************************************************************)
(* The parts of Parts, and two more: what CapTP marshals, and a solo with  *)
(* its kernel, its state file and its outbound messages.  The paths are    *)
(* 'mailbox', two 'mailbox.<peer>', a nested and an unrelated one.  The    *)
(* numbers of packets are -1, -1/2, 0, 1/2, 1 and 3/2.  The bridge has two *)
(* deliveries, one after the other.  A client of CapTP can get a promise   *)
(* by itself, with its object, and before what cannot be sent.  A graph    *)
(* that is passed has three objects.  Of three contracts, one has no       *)
(* target; two uploads have --once.  Of two providers, one has several     *)
(* datacenters, and both have two placements.                              *)
(***************************************************************************)
EXTENDS Parts, SoloNode, TLC

CONSTANTS Nodes, Root

VARIABLES graph, serialized, revived

mailbox == 3

MCSegments == {1, 2, mailbox}
MCPaths == {<<mailbox>>, <<mailbox, 1>>, <<mailbox, 2>>, <<mailbox, 2, 1>>, <<1>>}
MCHalves == {-2, -1, 0, 1, 2, 3}

MCBoots == {<<"A", "P">>, <<"A">>}
MCResults == {<<"B", "P">>, <<"P", "function">>}

Shape(proto, frozen, members) == [proto |-> proto, frozen |-> frozen, members |-> members]
MCShapes ==
    {Shape("Array", TRUE, m) : m \in BoundedSeq(Nodes, 2)}
    \cup {Shape("Object", TRUE, m) :
            m \in {<<>>, <<"function">>, <<"function", "string">>, <<"b", "c">>, <<"c", "a">>}}
    \cup {Shape("Error", TRUE, <<>>), Shape("Error", TRUE, <<"string">>),
          Shape("Promise", TRUE, <<>>), Shape("Array", FALSE, <<>>),
          Shape("Array", TRUE, <<"function">>), Shape("Array", TRUE, <<"NaN", "b">>)}

MCContracts == <<[name |-> "a", target |-> "host"], [name |-> "b", target |-> "zoe"],
                 [name |-> "c", target |-> "host"]>>

MCPlacements == << <<"digitalocean", 1>>, <<"digitalocean", 2>>, <<"docker", 1>>, <<"docker", 2>> >>
MCDatacenters == [digitalocean |-> <<"ams", "sfo">>, docker |-> <<"default">>]

Passing == INSTANCE Marshal WITH Shapes <- MCShapes, value <- graph, data <- serialized

marshalVars == <<graph, serialized, revived>>

(* What can start in several states has one where it is not shown.          *)
MCInit ==
    /\ part \in {"keeper", "packets", "bridge", "captp", "marshal", "upload", "registry",
               "init", "solo"}
    /\ PartsInit
    /\ SoloInit
    /\ part # "solo" => phase[CHOOSE q \in Procs : TRUE] = "running"
    /\ IF part = "marshal" THEN Passing!Init
       ELSE graph = <<>> /\ serialized = Passing!NotYet /\ revived = Passing!NotYet

MCNext ==
    \/ PartsNext /\ UNCHANGED <<marshalVars, soloVars>>
    \/ part = "marshal" /\ Passing!Next /\ UNCHANGED <<partsVars, soloVars>>
    \/ part = "solo" /\ SoloNext /\ UNCHANGED <<partsVars, marshalVars>>

\* The fairness of Bridge and SoloNode, each in its part.
MCSpec ==
    /\ MCInit
    /\ [][MCNext]_<<partsVars, marshalVars, soloVars>>
    /\ \A c \in Calls :
         /\ WF_bridgeVars(part = "bridge" /\ Bridge!GoStep(c))
         /\ WF_bridgeVars(part = "bridge" /\ Bridge!ThreadStep(c))
    /\ WF_bridgeVars(part = "bridge" /\ Bridge!NodeStep)
    /\ WF_soloVars(part = "solo" /\ Crank)
    /\ \A q \in Procs : WF_soloVars(part = "solo" /\ ProcStep(q))

\* Of the bridge: every call of the application returns.
EveryCallReturns == Bridge!EveryCallReturns

\* Of marshal (captp.umd.js serialize, unserialize): what is passed arrives as it
\* was, with its identities, or is refused.
RoundTrip == part = "marshal" => Passing!RoundTrip

=============================================================================
