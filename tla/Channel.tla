------------------------------ MODULE Channel ------------------------------
(***************************************************************************)
(* What a pair of mailboxes promises in one direction: the receiver        *)
(* processes the sender's messages in order, each once, none skipped.      *)
(* Several may arrive together, and a receiver may answer at once.         *)
(***************************************************************************)
EXTENDS Integers, Sequences

VARIABLES
    sent,      \* how many messages the sender has numbered
    received   \* the numbers the receiver has processed, in order

vars == <<sent, received>>

Init == sent = 0 /\ received = <<>>

Send == sent' > sent /\ UNCHANGED received

Receive ==
    /\ \E k \in (Len(received) + 1)..sent : received' = [i \in 1..k |-> i]
    /\ sent' >= sent

Spec == Init /\ [][Send \/ Receive]_vars

=============================================================================
