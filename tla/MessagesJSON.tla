---------------------------- MODULE MessagesJSON ----------------------------
(***************************************************************************)
(* What "ag-cosmos-helper tx swingset deliver" does with the packet that a *)
(* solo wrote to a file: UnmarshalMessagesJSON of                          *)
(* x/swingset/internal/types/types.go, then ValidateBasic of msgs.go, then *)
(* the broadcast.  A packet is [messages, ack], a message is [num, body].  *)
(* A JSON number is an IEEE double: it is modelled by its number of        *)
(* halves, so that 3 stands for 1.5 and -2 for -1.  The submitter and the  *)
(* peer are well-formed.                                                   *)
(***************************************************************************)
EXTENDS Integers, Sequences

CONSTANTS
    Halves,     \* the JSON numbers tried, in halves
    Bodies,     \* the strings tried as message bodies
    NoText,     \* the empty string, one of Bodies
    OtherJSON,  \* a JSON value that is no number, string or array
    MaxItems    \* bound: messages in a packet

VARIABLES
    packet,    \* the JSON read from the file
    msg,       \* the message built so far
    outcome    \* "running", "parsed", "broadcast", "refused" or "panic"

vars == <<packet, msg, outcome>>

Numbers == Halves \cup {OtherJSON}
Items == (Numbers \X (Bodies \cup {OtherJSON})) \cup {OtherJSON}
Lists == (UNION {[1..n -> Items] : n \in 0..MaxItems}) \cup {OtherJSON}
\* [messages, ack], or [messages]: decoding sets the length of the slice.
Packets == (Lists \X Numbers) \cup {<<l>> : l \in Lists}

NoMsg == [Nums |-> <<>>, Messages |-> <<>>, Ack |-> 0]

Init == packet \in Packets /\ msg = NoMsg /\ outcome = "running"

-----------------------------------------------------------------------------

\* Nat returns a value and an error: an error comes with the value 0.
IsNat(h) == h % 2 = 0 /\ h >= 0
Nat0(h) == IF IsNat(h) THEN h \div 2 ELSE 0

\* A message that the loop lets pass: a pair of a number and a string.
IsPair(item) == item # OtherJSON /\ item[1] # OtherJSON /\ item[2] # OtherJSON

\* The number of a message.  The error of Nat is not looked at before the
\* variable that holds it is assigned again.
NumOf(item) == Nat0(item[1])

\* The packet passes the checks of UnmarshalMessagesJSON.
Decodes(p) ==
    /\ p[2] # OtherJSON /\ IsNat(p[2])
    /\ p[1] # OtherJSON
    /\ \A i \in DOMAIN p[1] : IsPair(p[1][i])

UnmarshalMessagesJSON ==
    /\ outcome = "running"
    /\ IF Len(packet) < 2 THEN outcome' = "panic" /\ UNCHANGED msg
       ELSE IF ~Decodes(packet) THEN outcome' = "refused" /\ UNCHANGED msg
       ELSE /\ outcome' = "parsed"
            /\ msg' = [Nums |-> [i \in DOMAIN packet[1] |-> NumOf(packet[1][i])],
                       Messages |-> [i \in DOMAIN packet[1] |-> packet[1][i][2]],
                       Ack |-> Nat0(packet[2])]
    /\ UNCHANGED packet

\* Mutant: an acknowledgement of nothing is turned down.
ValidIfAcked(m) ==
    /\ Len(m.Messages) = Len(m.Nums)
    /\ \A i \in DOMAIN m.Nums : m.Messages[i] # NoText /\ m.Nums[i] >= 0
    /\ m.Ack > 0

\* The stateless checks on a message.
Valid(m) ==
    /\ Len(m.Messages) = Len(m.Nums)
    /\ \A i \in DOMAIN m.Nums : m.Messages[i] # NoText /\ m.Nums[i] >= 0
    /\ m.Ack >= 0

ValidateBasic ==
    /\ outcome = "parsed"
    /\ outcome' = IF Valid(msg) THEN "broadcast" ELSE "refused"
    /\ UNCHANGED <<packet, msg>>

Next == UnmarshalMessagesJSON \/ ValidateBasic

Spec == Init /\ [][Next]_vars

-----------------------------------------------------------------------------

\* A packet that is broadcast has every message in its place, with its own text
\* and its own number if that is a natural one, and the acknowledgement that was
\* written.
KeepsNaturals ==
    outcome = "broadcast" =>
        /\ Len(msg.Nums) = Len(packet[1]) /\ Len(msg.Messages) = Len(packet[1])
        /\ \A i \in DOMAIN msg.Nums :
            /\ IsNat(packet[1][i][1]) => 2 * msg.Nums[i] = packet[1][i][1]
            /\ msg.Messages[i] = packet[1][i][2]
        /\ 2 * msg.Ack = packet[2]

\* "Not a precise integer", "Not a natural" (types.go l.37, l.41): a packet in
\* which a message has such a number is refused, as one with such an
\* acknowledgement is.  It is not so: the error is assigned (l.88) and never
\* looked at, and the message goes on with the number 0.
RefusesUnnatural ==
    outcome = "broadcast" => \A i \in DOMAIN packet[1] : IsNat(packet[1][i][1])

\* What deliver of chain-cosmos-sdk.js writes, natural numbers with non-empty
\* texts, is never turned down, whatever the numbers and the acknowledgement.
WellFormed(p) ==
    /\ Len(p) = 2 /\ p[2] # OtherJSON /\ IsNat(p[2])
    /\ p[1] # OtherJSON
    /\ \A i \in DOMAIN p[1] :
        /\ IsPair(p[1][i]) /\ IsNat(p[1][i][1]) /\ p[1][i][2] # NoText
WellFormedPasses == outcome \in {"refused", "panic"} => ~WellFormed(packet)

=============================================================================
