---------------------------- MODULE SerialHelper ----------------------------
(***************************************************************************)
(* What the 'deliver' queue of lib/ag-solo/chain-cosmos-sdk.js promises    *)
(* its users (l.368-372): calls join a backlog, one helper at a time works *)
(* on its oldest call, and the call leaves when the helper succeeds.       *)
(***************************************************************************)
EXTENDS Sequences

CONSTANT Calls

VARIABLES
    backlog,  \* the calls made and not yet answered, oldest first
    active    \* the calls a helper process is working on

vars == <<backlog, active>>

Init == backlog = <<>> /\ active = {}

Join(c) ==
    /\ backlog' = Append(backlog, c)
    /\ UNCHANGED active

Begin ==
    /\ active = {}
    /\ backlog # <<>>
    /\ active' = {Head(backlog)}
    /\ UNCHANGED backlog

\* The helper fails: the call keeps its place.
Fail ==
    /\ active # {}
    /\ active' = {}
    /\ UNCHANGED backlog

Finish ==
    /\ active # {}
    /\ active = {Head(backlog)}
    /\ active' = {}
    /\ backlog' = Tail(backlog)

Next == (\E c \in Calls : Join(c)) \/ Begin \/ Fail \/ Finish

Spec == Init /\ [][Next]_vars

=============================================================================
