------------------------------ MODULE SetupInit ------------------------------
(***************************************************************************)
(* `ag-setup-cosmos init` (setup/init.js): the operator allocates nodes to *)
(* placements, each with a provider and its datacenters, and the answers   *)
(* are collated into the files of a setup directory; and how the nodes are *)
(* numbered and addressed from those files once terraform has applied them *)
(* (setup/main.js show-hosts, show-peers, show-rpcaddrs).  A run that is   *)
(* cut short leaves the files it has written, and the next one starts from *)
(* no answers, unless network.txt is there.                                *)
(***************************************************************************)
EXTENDS Integers, FiniteSets, SequencesExt

CONSTANTS
  NAMES,          \* names of placements, provider and number, in the order of strings
  Datacenters,    \* provider -> its datacenters, in that order
  Single,         \* providers that have one datacenter and ask once (docker)
  MaxPlacements, MaxNodes, MaxRuns  \* bounds

VARIABLES
  asking,      \* "nothing", "placement", "datacenter", "done"; "files" when they are written
  PLACEMENTS,  \* placements in the order they were entered: [name, nodes]
  current,     \* the placement whose datacenters are asked for
  files,       \* files left to write
  disk,        \* file -> the run that wrote it
  runs         \* runs of init

vars == <<asking, PLACEMENTS, current, files, disk, runs>>

NoPlacement == [name |-> <<>>, nodes |-> <<>>]

(* A file is a sequence of what its name is made of. *)
VARS == <<"vars.tf">>
NETWORK == <<"network.txt">>
Fixed == << <<"outputs.tf">>, <<"id">>, <<"playbook">>, <<"ansible.cfg">>, NETWORK >>

With(f, x, v) == [y \in DOMAIN f \cup {x} |-> IF y = x THEN v ELSE f[y]]

Init ==
  /\ asking = "nothing" /\ PLACEMENTS = <<>> /\ current = NoPlacement
  /\ files = <<>> /\ disk = <<>> /\ runs = 0

-----------------------------------------------------------------------------
(* The questions. *)

DoInit ==
  /\ asking = "nothing" /\ NETWORK \notin DOMAIN disk /\ runs < MaxRuns
  /\ runs' = runs + 1
  /\ asking' = "placement"
  /\ UNCHANGED <<PLACEMENTS, current, files, disk>>

(* setPlacement: the provider and a number of its own. *)
LastPlacement(provider) == Cardinality({i \in DOMAIN PLACEMENTS : PLACEMENTS[i].name[1] = provider})

NewPlacement(provider) ==
  /\ asking = "placement" /\ Len(PLACEMENTS) < MaxPlacements
  /\ current' = [name |-> <<provider, LastPlacement(provider) + 1>>,
                 nodes |-> [dc \in Range(Datacenters[provider]) |-> 0]]
  /\ asking' = "datacenter"
  /\ UNCHANGED <<PLACEMENTS, files, disk, runs>>

AskPlacement(i) ==
  /\ asking = "placement" /\ i \in DOMAIN PLACEMENTS
  /\ current' = PLACEMENTS[i] /\ asking' = "datacenter"
  /\ UNCHANGED <<PLACEMENTS, files, disk, runs>>

Entered(p) ==
  IF \E i \in DOMAIN PLACEMENTS : PLACEMENTS[i].name = p.name
  THEN [i \in DOMAIN PLACEMENTS |-> IF PLACEMENTS[i].name = p.name THEN p ELSE PLACEMENTS[i]]
  ELSE Append(PLACEMENTS, p)

Allocated(p) ==
  /\ PLACEMENTS' = Entered(p) /\ current' = NoPlacement /\ asking' = "placement"

AskDatacenter(dc, n) ==
  /\ asking = "datacenter" /\ dc \in DOMAIN current.nodes
  /\ LET p == [current EXCEPT !.nodes[dc] = n]
     IN IF p.name[1] \in Single THEN Allocated(p)
        ELSE current' = p /\ UNCHANGED <<PLACEMENTS, asking>>
  /\ UNCHANGED <<files, disk, runs>>

DoneWithPlacement ==
  /\ asking = "datacenter" /\ current.name[1] \notin Single
  /\ Allocated(current)
  /\ UNCHANGED <<files, disk, runs>>

-----------------------------------------------------------------------------
(* The files. *)

NodesOf(p) ==
  LET Add(nodes, dc) == nodes \o [i \in 1 .. p.nodes[dc] |-> dc]
  IN FoldLeft(Add, <<>>, Datacenters[p.name[1]])

\* Mutant: the offset is that of the next placement.
CollateAfter(acc, p) ==
  LET nodes == NodesOf(p)
  IN [instance |-> acc.instance + Len(nodes),
      DATACENTERS |-> With(acc.DATACENTERS, p.name, nodes),
      OFFSETS |-> IF nodes = <<>> THEN acc.OFFSETS
                  ELSE With(acc.OFFSETS, p.name, acc.instance + Len(nodes))]

(* A placement without nodes has datacenters, of which there are none, and *)
(* no offset.                                                              *)
Collate(acc, p) ==
  LET nodes == NodesOf(p)
  IN [instance |-> acc.instance + Len(nodes),
      DATACENTERS |-> With(acc.DATACENTERS, p.name, nodes),
      OFFSETS |-> IF nodes = <<>> THEN acc.OFFSETS
                  ELSE With(acc.OFFSETS, p.name, acc.instance)]

Collated == FoldLeft(Collate, [instance |-> 0, DATACENTERS |-> <<>>, OFFSETS |-> <<>>], PLACEMENTS)
Total == Collated.instance

ModuleFile(name) == <<"placement-", name>>
AddModule(modules, name) ==
  IF \E i \in DOMAIN PLACEMENTS : PLACEMENTS[i].name = name
  THEN Append(modules, ModuleFile(name)) ELSE modules
ModuleFiles == FoldLeft(AddModule, <<>>, NAMES)
AllFiles == <<VARS>> \o ModuleFiles \o Fixed

(* Done with allocation: without nodes the run is aborted. *)
DoneWithAllocation ==
  /\ asking = "placement"
  /\ IF Total = 0
     THEN asking' = "nothing" /\ PLACEMENTS' = <<>> /\ UNCHANGED files
     ELSE asking' = "files" /\ files' = AllFiles /\ UNCHANGED PLACEMENTS
  /\ UNCHANGED <<current, disk, runs>>

(* createFile renames a file that is whole. *)
CreateFile ==
  /\ asking = "files" /\ files # <<>>
  /\ disk' = With(disk, Head(files), runs)
  /\ files' = Tail(files)
  /\ asking' = IF Tail(files) = <<>> THEN "done" ELSE asking
  /\ UNCHANGED <<PLACEMENTS, current, runs>>

(* ssh-keygen asks before it overwrites a key; a no ends the run, as does  *)
(* any other failure, an interrupt or a machine that goes down.            *)
CutShort ==
  /\ asking \in {"placement", "datacenter", "files"} /\ runs < MaxRuns
  /\ asking' = "nothing" /\ PLACEMENTS' = <<>> /\ current' = NoPlacement /\ files' = <<>>
  /\ UNCHANGED <<disk, runs>>

Next ==
  \/ DoInit
  \/ \E provider \in DOMAIN Datacenters : NewPlacement(provider)
  \/ \E i \in 1 .. MaxPlacements : AskPlacement(i)
  \/ \E dc \in DOMAIN current.nodes, n \in 0 .. MaxNodes : AskDatacenter(dc, n)
  \/ DoneWithPlacement \/ DoneWithAllocation \/ CreateFile \/ CutShort

Spec == Init /\ [][Next]_vars

-----------------------------------------------------------------------------
(* The nodes of the network, when terraform has applied the modules with   *)
(* the variables in vars.tf: the count of a module is the length of its    *)
(* datacenters.  A node is known to terraform by its placement and its     *)
(* index in it.                                                            *)

Named == DOMAIN Collated.DATACENTERS
Numbered(name) == {name} \X (DOMAIN Collated.DATACENTERS[name])

(* show-hosts: what is node<n>, and show-peers: the address of peer n.     *)
ShowHosts == [m \in UNION {Numbered(name) : name \in Named} |-> Collated.OFFSETS[m[1]] + m[2] - 1]
PublicIPs(n) == {m \in DOMAIN ShowHosts : ShowHosts[m] = n}

(* show-rpcaddrs: in the order of the placements' names.                   *)
WithNodes == {name \in Named : Collated.DATACENTERS[name] # <<>>}
Place(name) == CHOOSE i \in DOMAIN NAMES : NAMES[i] = name
Before(p, q) == Place(p) < Place(q)
FirstOf(names) == CHOOSE p \in names : \A q \in names \ {p} : Before(p, q)
ShowRpcAddrs == <<FirstOf(WithNodes), 1>>

-----------------------------------------------------------------------------
(* Properties. *)

Entries(i) == Collated.DATACENTERS[PLACEMENTS[i].name]

\* What terraform can apply: var.OFFSETS has the placement of a module.
Applied == Range(<<VARS>> \o Fixed) \cup {ModuleFile(name) : name \in DOMAIN Collated.OFFSETS}

(* init.js, main.js: a directory with network.txt, which is never          *)
(* initialised again, has all its files of one run, and a file that is     *)
(* left of a run that was cut short is a module that terraform refuses, so *)
(* that no network is made of the answers of two runs.  Its nodes have the *)
(* numbers from 0 without a gap and without two of a number, so that hosts *)
(* and peers agree, and each datacenter has what it was allocated.  Only   *)
(* if the placements were entered in the order of their names, the first   *)
(* address shown is that of node 0, where the provisioning server runs.    *)
NumbersAllNodes ==
  NETWORK \in DOMAIN disk =>
    /\ \A f \in Range(AllFiles) : f \in DOMAIN disk /\ disk[f] = disk[NETWORK]
    /\ \A n \in 0 .. Total - 1 : Cardinality(PublicIPs(n)) = 1
    /\ \A i \in DOMAIN PLACEMENTS : \A dc \in DOMAIN PLACEMENTS[i].nodes :
         Cardinality({k \in DOMAIN Entries(i) : Entries(i)[k] = dc}) = PLACEMENTS[i].nodes[dc]
    /\ (\A i, j \in DOMAIN PLACEMENTS : i < j => Before(PLACEMENTS[i].name, PLACEMENTS[j].name))
         => ShowHosts[ShowRpcAddrs] = 0
    /\ \A f \in DOMAIN disk : disk[f] # disk[NETWORK] => f \notin Applied
=============================================================================
