--------------------------------- MODULE Parts ---------------------------------
(***************************************************************************)
(* Parts that share no state, of which a behaviour shows one.  Inside a    *)
(* chain node: the keeper, the parser of packets, and the bridge to the    *)
(* kernel.  At a solo: a session of CapTP with its HTTP vat, the upload of *)
(* contracts, and the pledger with the chain's registry.  And the setup    *)
(* directory of a testnet.  MCParts adds one that nothing is proved about. *)
(***************************************************************************)
EXTENDS KeeperStorage

CONSTANTS Halves, Bodies, NoText, OtherJSON, MaxItems, Calls, AgCosmosInit,
          Objects, Promises, Boots, Results, MaxCalls,
          Uploaders, Once, Contracts, Available, MaxFaults,
          Names, Assays, Sets, MaxReads,
          Placements, Datacenters, Single, MaxPlacements, MaxNodes, MaxRuns

\* The numbers of a packet are those a double can hold.
ASSUME HalvesAssumption == Halves \subseteq Int

\* What the HTTP vat has is an object, a promise or plain; a bootstrap object
\* has members and all of them can be sent, and so has an answer, of which not
\* all need be.
ASSUME SessionAssumption ==
    /\ Objects \cap Promises = {}
    /\ {"data", "function", "broken", "unsettled"} \cap (Objects \cup Promises) = {}
    /\ Boots \subseteq Seq(Objects \cup Promises \cup {"data"})
    /\ Results \subseteq Seq(Objects \cup Promises \cup {"data", "function"})
    /\ <<>> \notin Boots \cup Results
    /\ MaxCalls \in Nat

\* The contracts are in the order of the command line.
ASSUME ContractsAssumption ==
    Len(Contracts) \in Nat /\ DOMAIN Contracts = 1..Len(Contracts)

ASSUME OnceAssumption == Once \subseteq Uploaders /\ MaxFaults \in Nat

\* A provider has a list of its datacenters, each once, and a placement that can
\* be made has its name in the order of names.
ASSUME DirectoryAssumption ==
    /\ \A v \in DOMAIN Datacenters :
         /\ Datacenters[v] \in Seq(STRING)
         /\ \A i, j \in DOMAIN Datacenters[v] : Datacenters[v][i] = Datacenters[v][j] => i = j
    /\ Placements \in Seq((DOMAIN Datacenters) \X Nat)
    /\ \A v \in DOMAIN Datacenters, k \in 1..MaxPlacements :
         \E i \in DOMAIN Placements : Placements[i] = <<v, k>>
    /\ {MaxPlacements, MaxNodes} \subseteq Nat

VARIABLES part,
          packet, msg, outcome,
          looping, abci, go, thread, lastReply, replyPort, replies, lastPort, storagePort,
          portToHandler, dispatched, handling, sPort, bridgeSettled, returned, stored,
          exports, settled, waiting, running, executed, toVat, toClient, made, answer,
          postponed, questions, known, resolved, torn, thrown,
          loaded, isReady, installed, uploads, at, bundle, next, asked, answered,
          overlapped, faults,
          args, setting, count, byName, byObject, registry, registeredAssays, reads,
          asking, PLACEMENTS, current, files, disk, runs

Packets == INSTANCE MessagesJSON
Bridge == INSTANCE Bridge WITH settled <- bridgeSettled
Session == INSTANCE CapTP
Uploading == INSTANCE Upload WITH Paths <- Contracts
Naming == INSTANCE Registry WITH set <- setting, i <- count, map <- byName, rmap <- byObject
Directory == INSTANCE SetupInit WITH NAMES <- Placements

packetVars == <<packet, msg, outcome>>
bridgeVars == <<looping, abci, go, thread, lastReply, replyPort, replies, lastPort,
                storagePort, portToHandler, dispatched, handling, sPort, bridgeSettled,
                returned, stored>>
sessionVars == <<exports, settled, waiting, running, executed, toVat, toClient, made, answer,
                 postponed, questions, known, resolved, torn, thrown>>
uploadVars == <<loaded, isReady, installed, uploads, at, bundle, next, asked, answered,
                overlapped, faults>>
namingVars == <<args, setting, count, byName, byObject, registry, registeredAssays, reads>>
directoryVars == <<asking, PLACEMENTS, current, files, disk, runs>>
partsVars == <<vars, packetVars, bridgeVars, sessionVars, uploadVars, namingVars, directoryVars,
               part>>

(* What can start in several states has one where it is not shown.          *)
PartsInit ==
    /\ Init /\ Bridge!Init /\ Session!Init /\ Uploading!Init /\ Naming!Init
    /\ Directory!Init
    /\ IF part = "packets" THEN Packets!Init
       ELSE packet = <<>> /\ msg = Packets!NoMsg /\ outcome = "running"
    /\ part # "registry" => args = CHOOSE a \in [Sets -> Names \X Assays] : TRUE

PartsNext ==
    /\ \/ /\ part = "keeper" /\ Next
          /\ UNCHANGED <<packetVars, bridgeVars, sessionVars, uploadVars, namingVars,
                         directoryVars>>
       \/ /\ part = "packets" /\ Packets!Next
          /\ UNCHANGED <<vars, bridgeVars, sessionVars, uploadVars, namingVars, directoryVars>>
       \/ /\ part = "bridge" /\ Bridge!Next
          /\ UNCHANGED <<vars, packetVars, sessionVars, uploadVars, namingVars, directoryVars>>
       \/ /\ part = "captp" /\ Session!Next
          /\ UNCHANGED <<vars, packetVars, bridgeVars, uploadVars, namingVars, directoryVars>>
       \/ /\ part = "upload" /\ Uploading!Next
          /\ UNCHANGED <<vars, packetVars, bridgeVars, sessionVars, namingVars, directoryVars>>
       \/ /\ part = "registry" /\ Naming!Next
          /\ UNCHANGED <<vars, packetVars, bridgeVars, sessionVars, uploadVars, directoryVars>>
       \/ /\ part = "init" /\ Directory!Next
          /\ UNCHANGED <<vars, packetVars, bridgeVars, sessionVars, uploadVars, namingVars>>
    /\ UNCHANGED part

PartsSpec == PartsInit /\ [][PartsNext]_partsVars

\* Of a packet on its way through the command line (types.go l.46-97, msgs.go
\* l.34-57): one that deliver of chain-cosmos-sdk.js writes is not refused, and
\* what is passed of any packet, but for numbers that are no naturals, is passed
\* as it is written.
PassedAsWritten ==
    /\ Packets!KeepsNaturals
    /\ part = "packets" => Packets!WellFormedPasses

\* Of the bridge (agcosmosdaemon.go, agcosmosdaemon-node.cc): every call gets its
\* own answer and its own storage, and the map of replies is never shared.
CallsKeptApart == Bridge!CallsKeptApart

\* Of CapTP (captp.umd.js makeRemote, serializeSlot): a method runs on what its
\* caller meant, with the arguments meant, and in the order of the calls.
RunsAsCalled == Session!RunsAsCalled

\* Of CapTP (captp.umd.js CTP_RETURN, CTP_RESOLVE): no call and no promise is
\* left without its answer when nothing is on its way.
SettlesAll == Session!SettlesAll

\* Of uploads (upload-contract.js): a name has the contract of its path, and READY
\* says that all have theirs.
UploadsAsNamed == Uploading!UploadsAsNamed

\* Of registry and pledger (vat-registry.js, vat-pledger.js getBalances): a name
\* is one object's, and once shown it stays.
NamesStay == Naming!NamesStay

\* Of the setup directory (setup/init.js doInit, setup/main.js show-hosts): one
\* that init leaves alone is whole, and its nodes are numbered without gaps.
NumbersAllNodes == Directory!NumbersAllNodes

=============================================================================
