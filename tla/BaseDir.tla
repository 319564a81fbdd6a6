------------------------------- MODULE BaseDir -------------------------------
(***************************************************************************)
(* The base directory of a solo, which ag-setup-solo (setup-solo) makes    *)
(* with `ag-solo init` (lib/ag-solo/init-basedir.js) and connects with     *)
(* `ag-solo set-gci-ingress` (set-gci-ingress.js) before it starts the     *)
(* solo in it.  When the network has a new chain, ag-setup-solo is run     *)
(* again: it removes all but the key and starts over, or, if the directory *)
(* has a connection to the chain already, just starts the solo.  An        *)
(* operator may connect a solo to further chains.  A run may fail or be    *)
(* killed at any step, and is then repeated.                               *)
(*                                                                         *)
(* A connection is the GCI of a chain, its base name (without the version) *)
(* and its rpcAddresses; the entry of connections.json for the web port is *)
(* left out.                                                               *)
(***************************************************************************)
EXTENDS Integers, SequencesExt, FiniteSetsExt

CONSTANTS
  MaxChains,   \* bound on the chains of the network; GCIs are numbers
  OtherGCIs,   \* GCIs of further chains, none of them in 0 .. MaxChains
  Bases, Rpcs,
  MaxTrouble   \* bound on runs that fail or are killed

VARIABLES
  network,      \* the connection the network's configuration shows
  files,        \* what there is of the base directory
  connections,  \* connections.json
  gci,          \* vats/gci.js: 0 for undefined
  doing, stage, \* the command in progress and the stage of init
  fresh,        \* the command is a run of ag-setup-solo without a key
  target,       \* the connection being set
  torn,         \* set-gci-ingress was cut short between its two files
  trouble

dirVars == <<files, connections, gci>>
vars == <<network, dirVars, doing, stage, fresh, target, torn, trouble>>

ConnOf(GCI) == [gci : {GCI}, base : Bases, rpcs : {{r} : r \in Rpcs}]

(* initBasedir, in the order it makes the files. *)
InitStages == <<"dir", "connections", "html", "vats", "state", "key", "readme">>
Files == ToSet(InitStages)

Init ==
  /\ network \in ConnOf(1)
  /\ files = {} /\ connections = <<>> /\ gci = 0
  /\ doing = "idle" /\ stage = 0 /\ fresh = FALSE /\ target = network
  /\ torn = FALSE /\ trouble = 0

NewChain ==
  /\ network.gci < MaxChains
  /\ network' \in ConnOf(network.gci + 1)
  /\ UNCHANGED <<dirVars, doing, stage, fresh, target, torn, trouble>>

-----------------------------------------------------------------------------
(* ag-setup-solo. *)

Connected(GCI) == \E i \in DOMAIN connections : connections[i].gci = GCI

RunClient ==
  /\ doing = "idle" /\ "key" \notin files
  /\ doing' = "init" /\ stage' = 1 /\ fresh' = TRUE /\ target' = network
  /\ UNCHANGED <<network, dirVars, torn, trouble>>

Already == Connected(network.gci)

Restart ==
  /\ doing = "idle" /\ "key" \in files /\ Already
  /\ doing' = "up"
  /\ UNCHANGED <<network, dirVars, stage, fresh, target, torn, trouble>>

BlowAway ==
  /\ doing = "idle" /\ "key" \in files /\ ~Already
  /\ doing' = "wipe" /\ fresh' = FALSE /\ target' = network
  /\ UNCHANGED <<network, dirVars, stage, torn, trouble>>

(* Everything but the key, in the order of os.listdir. *)
RemoveFile(f) ==
  /\ doing = "wipe" /\ f \in files \ {"dir", "key"}
  /\ files' = files \ {f}
  /\ connections' = IF f = "connections" THEN <<>> ELSE connections
  /\ gci' = IF f = "vats" THEN 0 ELSE gci
  /\ UNCHANGED <<network, doing, stage, fresh, target, torn, trouble>>

Upgrade ==
  /\ doing = "wipe" /\ files \subseteq {"dir", "key"}
  /\ doing' = "init" /\ stage' = 1
  /\ UNCHANGED <<network, dirVars, fresh, target, torn, trouble>>

(* The wormhole: the server's message has the configuration of the network *)
(* at that time.                                                           *)
ServerMessage ==
  /\ doing = "asks"
  /\ doing' = "ingress" /\ target' = network
  /\ UNCHANGED <<network, dirVars, stage, fresh, torn, trouble>>

(* What an exception does, and with it a run without a key, which removes  *)
(* the directory; it does not look whether it had made it.                 *)
Abort ==
  /\ doing' = "idle" /\ stage' = 0
  /\ IF fresh THEN files' = {} /\ connections' = <<>> /\ gci' = 0
              ELSE UNCHANGED dirVars

Cleanup ==
  /\ doing \notin {"idle", "up"} /\ trouble < MaxTrouble
  /\ trouble' = trouble + 1
  /\ torn' = ((doing = "gci" /\ ~fresh) \/ torn)
  /\ Abort
  /\ UNCHANGED <<network, fresh, target>>

Killed ==
  /\ doing \notin {"idle", "up"} /\ trouble < MaxTrouble
  /\ trouble' = trouble + 1
  /\ torn' = (doing = "gci" \/ torn)
  /\ doing' = "idle" /\ stage' = 0
  /\ UNCHANGED <<network, dirVars, fresh, target>>

-----------------------------------------------------------------------------
(* ag-solo init. *)

(* mkdir of a directory that is there; for the base directory only a key   *)
(* in it excuses that.                                                     *)
Refused(f) == f \in files /\ (f \in {"html", "vats"} \/ (f = "dir" /\ "key" \notin files))

InitBasedir ==
  /\ doing = "init" /\ ~Refused(InitStages[stage])
  /\ files' = files \cup {InitStages[stage]}
  /\ connections' = IF InitStages[stage] = "connections" THEN <<>> ELSE connections
  /\ gci' = IF InitStages[stage] = "vats" THEN 0 ELSE gci
  /\ IF stage < Len(InitStages) THEN stage' = stage + 1 /\ UNCHANGED doing
     ELSE stage' = 0 /\ doing' = IF fresh THEN "asks" ELSE "ingress"
  /\ UNCHANGED <<network, fresh, target, torn, trouble>>

InitThrows ==
  /\ doing = "init" /\ Refused(InitStages[stage])
  /\ Abort
  /\ UNCHANGED <<network, fresh, target, torn, trouble>>

-----------------------------------------------------------------------------
(* ag-solo set-gci-ingress. *)

(* A connection that the new one replaces. *)
Duplicates(old, new) ==
  \/ old.gci = new.gci
  \/ old.base = new.base
  \/ old.rpcs \cap new.rpcs # {}

\* Mutant: the old connection wins.
AddUnlessThere(conns, new) ==
  IF \E i \in DOMAIN conns : Duplicates(conns[i], new) THEN conns ELSE Append(conns, new)

(* The first such connection is replaced, or the new one is appended. *)
Add(conns, new) ==
  LET same == {i \in DOMAIN conns : Duplicates(conns[i], new)}
  IN IF same = {} THEN Append(conns, new) ELSE [conns EXCEPT ![Min(same)] = new]

SetGCIIngress ==
  /\ doing = "ingress"
  /\ connections' = Add(FoldLeft(Add, <<>>, connections), target)
  /\ doing' = "gci"
  /\ UNCHANGED <<network, files, gci, stage, fresh, target, torn, trouble>>

WriteGCI ==
  /\ doing = "gci"
  /\ gci' = target.gci /\ torn' = FALSE
  /\ doing' = IF target.gci \in OtherGCIs THEN "idle" ELSE "up"
  /\ UNCHANGED <<network, files, connections, stage, fresh, target, trouble>>

(* An operator adds a chain to a solo that is complete and stopped. *)
AddChain(c) ==
  /\ doing = "idle" /\ files = Files /\ connections # <<>>
  /\ doing' = "ingress" /\ fresh' = FALSE /\ target' = c
  /\ UNCHANGED <<network, dirVars, stage, torn, trouble>>

StopSolo ==
  /\ doing = "up" /\ doing' = "idle"
  /\ UNCHANGED <<network, dirVars, stage, fresh, target, torn, trouble>>

Next ==
  \/ NewChain \/ RunClient \/ Restart \/ BlowAway \/ Upgrade \/ ServerMessage
  \/ \E f \in Files : RemoveFile(f)
  \/ InitBasedir \/ InitThrows \/ Cleanup \/ Killed
  \/ SetGCIIngress \/ WriteGCI \/ StopSolo
  \/ \E c \in UNION {ConnOf(g) : g \in OtherGCIs} : AddChain(c)

Spec == Init /\ [][Next]_vars

-----------------------------------------------------------------------------
(* Properties. *)

(* NEWS.md l.45: "Don't leave behind a corrupt installation".  A solo that *)
(* ag-setup-solo starts, be it a new one, an upgraded one or one that it   *)
(* takes to be complete, has all its files and a connection to the chain   *)
(* that its vats are told of, whatever was removed, refused, failed or     *)
(* killed before, unless set-gci-ingress was cut short between the two     *)
(* files it writes.                                                        *)
StartsWhole == doing = "up" /\ ~torn => files = Files /\ gci # 0 /\ Connected(gci)
=============================================================================
