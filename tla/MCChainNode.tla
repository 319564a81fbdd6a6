---------------------------- MODULE MCChainNode ----------------------------
(***************************************************************************)
(* ChainNode with two solos: a message of the first makes the kernel write *)
(* to both, one of the second only to the second.                          *)
(***************************************************************************)
EXTENDS ChainNode

CONSTANTS a, b

MCPeers == {a, b}
MCFwd == [p \in MCPeers |-> IF p = a THEN {a, b} ELSE {b}]

=============================================================================
