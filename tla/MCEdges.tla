------------------------------- MODULE MCEdges -------------------------------
(***************************************************************************)
(* What a solo has to do with besides its chain, of which a behaviour      *)
(* shows one: the tabs of its REPL, the clients of its CapTP port, the     *)
(* pages that show the canvas, the accounts of its pledger, its base       *)
(* directory, and the provisioning server that brings it onto the chain.   *)
(* They share no state.  MCNodes adds one that has its theorems elsewhere. *)
(***************************************************************************)
EXTENDS Repl, TLC

CONSTANTS MaxSockets, MaxCTPCalls, MaxCTPCrashes,
          Keys, MaxRetries, MaxChains, MaxFaults,
          OtherGCIs, Bases, Rpcs, MaxTrouble,
          Accounts, Assays, Deposits, MaxTaken,
          Pixels, Colors, MaxPublished, MaxRuns

ASSUME RetriesAssumption == MaxRetries \in Nat
ASSUME RunsAssumption == MaxRuns \in Nat
ASSUME DepositsAssumption == IsFiniteSet(Deposits)
\* A further chain has another GCI than those of the network, and 0 is none.
ASSUME ChainsAssumption == MaxChains \in Nat \ {0} /\ OtherGCIs \cap (0..MaxChains) = {}

VARIABLES
  edge,
  lastConnectionID, points, inbox, conns, pending, ctpSaved, received, served,
  sockets, ctpCalls, ctpCrashes,
  chain, solo, job, funded, provisioned, database, adding, pkobjs, reported,
  raised, faults,
  network, files, connections, gci, doing, stage, fresh, target, torn, trouble,
  deposit, slot, assayPurses, purse, balance, taken, overlapped,
  lastPublished, subscribed, notifications, canvasState, open, runs, call,
  answer, pageSocket, oldState, shown, late, published

CapTP == INSTANCE CapTPSessions WITH
  MaxCalls <- MaxCTPCalls, MaxCrashes <- MaxCTPCrashes,
  saved <- ctpSaved, calls <- ctpCalls, crashes <- ctpCrashes

Pserver == INSTANCE Onboarding
Dir == INSTANCE BaseDir
Purses == INSTANCE Pledger WITH target <- slot
Gallery == INSTANCE Canvas WITH socket <- pageSocket

Symmetry == Permutations(Tabs)

captpVars == <<lastConnectionID, points, inbox, conns, pending, ctpSaved, received,
               served, sockets, ctpCalls, ctpCrashes>>
pserverVars == <<chain, solo, job, funded, provisioned, database, adding, pkobjs,
                 reported, raised, faults>>
dirVars == <<network, files, connections, gci, doing, stage, fresh, target, torn, trouble>>
purseVars == <<deposit, slot, assayPurses, purse, balance, taken, overlapped>>
canvasVars == <<lastPublished, subscribed, notifications, canvasState, open, runs, call,
                answer, pageSocket, oldState, shown, late, published>>

(* A part at a time: what can start in several states has one otherwise.   *)
EdgesInit ==
  /\ Init /\ CapTP!Init /\ Pserver!Init /\ Dir!Init /\ Purses!Init /\ Gallery!Init
  /\ edge # "dir" => network = CHOOSE c \in Dir!ConnOf(1) : TRUE
  /\ edge # "pledger" => slot = CHOOSE t \in [Deposits -> Accounts \X Assays] : TRUE

Edges == {"repl", "captp", "pserver", "dir", "pledger", "canvas"}

MCInit == edge \in Edges /\ EdgesInit

MCNext ==
  /\ \/ /\ edge = "repl" /\ Next
        /\ UNCHANGED <<captpVars, pserverVars, dirVars, purseVars, canvasVars>>
     \/ /\ edge = "captp" /\ CapTP!Next
        /\ UNCHANGED <<vars, pserverVars, dirVars, purseVars, canvasVars>>
     \/ /\ edge = "pserver" /\ Pserver!Next
        /\ UNCHANGED <<vars, captpVars, dirVars, purseVars, canvasVars>>
     \/ /\ edge = "dir" /\ Dir!Next
        /\ UNCHANGED <<vars, captpVars, pserverVars, purseVars, canvasVars>>
     \/ /\ edge = "pledger" /\ Purses!Next
        /\ UNCHANGED <<vars, captpVars, pserverVars, dirVars, canvasVars>>
     \/ /\ edge = "canvas" /\ Gallery!Next
        /\ UNCHANGED <<vars, captpVars, pserverVars, dirVars, purseVars>>
  /\ UNCHANGED edge

edgesVars == <<vars, captpVars, pserverVars, dirVars, purseVars, canvasVars>>

MCSpec == MCInit /\ [][MCNext]_<<edge, edgesVars>>

(* Objects of a CapTP session go to its own socket as long as the process  *)
(* lives, and what a client sends is served by its own session (web.js     *)
(* l.94-112, vat-http.js CTP_OPEN and forward).                            *)
SessionsKeptApart == edge = "captp" => CapTP!SessionsKeptApart

(* A solo started by the run of ag-setup-solo that asked for it has been   *)
(* provisioned and paid for (ag_setup_solo and ag_pserver main.py).        *)
RunningIsProvisioned == edge = "pserver" => Pserver!RunningIsProvisioned

(* Unless enablePubkey throws, add-pubkeys adds every key or prints its    *)
(* error, one at a time (ag_pserver main.py doEnablePubkeys).              *)
AddsAllInTurn == edge = "pserver" => Pserver!AddsAllInTurn

(* A solo that ag-setup-solo starts has all its files and a connection to  *)
(* the chain its vats are told of (ag_setup_solo main.py, init-basedir.js, *)
(* set-gci-ingress.js).                                                    *)
StartsWhole == edge = "dir" => Dir!StartsWhole

(* An account shows what was deposited and not withdrawn (vat-pledger.js   *)
(* depositAll).                                                            *)
ShowsWhatIsPaid == edge = "pledger" => Purses!ShowsWhatIsPaid

(* A page shows the canvas as it was last published (html/main.js          *)
(* updateCanvas, vat-http.js notify).                                      *)
ShowsLastPublished == edge = "canvas" => Gallery!ShowsLastPublished
=============================================================================
