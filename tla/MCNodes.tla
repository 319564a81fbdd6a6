------------------------------- MODULE MCNodes -------------------------------
(***************************************************************************)
(* The parts of MCEdges, and one more: a chain node with two solos, where  *)
(* a message of the first makes the kernel write to both, one of the       *)
(* second only to the second.                                              *)
(*                                                                         *)
(* Two tabs contend for a number; three sockets let one be closed, one be  *)
(* open and one be new; two pixels let one change without the other; a     *)
(* third deposit comes after two that overlap; with three keys in the      *)
(* database a run of add-pubkeys has a key in progress, one popped and one *)
(* left.                                                                   *)
(*                                                                         *)
(* Two parts are shown in two forms each.  Of the REPL, two tabs whose     *)
(* requests are served one after another, or a tab at a time, whose        *)
(* requests overlap and whose connection is lost or whose solo crashes.    *)
(* Of the chain node, two messages of a solo and one fault, or one message *)
(* and both faults.                                                        *)
(***************************************************************************)
EXTENDS MCEdges, MCChainNode

VARIABLE form   \* which of its forms a part is shown in

NodesInit ==
  /\ edge \in Edges \cup {"chain"}
  /\ form \in IF edge \in {"repl", "chain"} THEN 1..2 ELSE {1}
  /\ EdgesInit /\ ChainInit

TabsTakeTurns == Cardinality(running') + Cardinality(saves') <= 1 /\ closes' + crashes' = 0
OneTabAtATime ==
  /\ \A t, u \in Tabs : tab'[t] # "closed" /\ tab'[u] # "closed" => t = u
  /\ closes' + crashes' <= 1
OneFault == chainCrashes' + fails' <= 1
OneMessage == tx'.hi <= 1

NodesNext ==
  /\ \/ /\ MCNext
        /\ edge = "repl" => IF form = 1 THEN TabsTakeTurns ELSE OneTabAtATime
        /\ UNCHANGED chainVars
     \/ /\ edge = "chain" /\ ChainNext
        /\ IF form = 1 THEN OneFault ELSE OneMessage
        /\ UNCHANGED <<edge, edgesVars>>
  /\ UNCHANGED form

NodesSpec == NodesInit /\ [][NodesNext]_<<edge, edgesVars, form, chainVars>>

=============================================================================
