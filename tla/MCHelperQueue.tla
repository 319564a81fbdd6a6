--------------------------- MODULE MCHelperQueue ---------------------------
(***************************************************************************)
(* The two queues that chain-cosmos-sdk.js makes, of which a behaviour     *)
(* shows one: 'getMailbox', with the limit of the instance, and 'deliver', *)
(* without a limit.  They share no state.  Four calls are enough for a     *)
(* running helper, a waiting call, a superseded one and one not yet made.  *)
(***************************************************************************)
EXTENDS HelperQueue

VARIABLE name  \* which of the two queues this is

D == INSTANCE HelperQueue WITH MaxQueued <- Undefined

MCInit == name \in {"getMailbox", "deliver"} /\ Init

MCNext ==
    /\ \/ name = "getMailbox" /\ Next
       \/ name = "deliver" /\ D!Next
    /\ UNCHANGED name

\* Only the length that a call cuts the queue to depends on the limit, so that
\* both queues are scheduled alike.
MCSpec ==
    /\ MCInit /\ [][MCNext]_<<vars, name>>
    /\ SF_vars(SomeHelperSucceeds) /\ \A c \in Calls : Scheduled(c)

\* The 'deliver' queue, seen by those who call deliver.
Deliver == INSTANCE SerialHelper WITH
    backlog <- IF name = "deliver" THEN queue ELSE <<>>,
    active  <- IF name = "deliver" THEN {c \in Calls : pc[c] = "executing"} ELSE {}

\* The 'deliver' queue implements the serial helper: one helper at a time, on
\* the oldest call, which leaves when it succeeds (l.368-376).
DeliverIsSerial == Deliver!Spec

=============================================================================
