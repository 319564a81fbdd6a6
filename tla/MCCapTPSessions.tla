--------------------------- MODULE MCCapTPSessions ---------------------------
(* CapTPSessions with two sockets: the old process had one, the new one     *)
(* gets the other.                                                          *)
EXTENDS CapTPSessions
=============================================================================
