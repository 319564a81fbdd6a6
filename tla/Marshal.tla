------------------------------- MODULE Marshal -------------------------------
(***************************************************************************)
(* What marshal of CapTP (lib/ag-solo/html/captp.umd.js, makeMarshal) does *)
(* with a value that is passed: serialize turns a graph of objects into a  *)
(* tree, in which an object met again is an ibid, the number it had in     *)
(* order of first sight, and an object passed by reference is a slot;      *)
(* unserialize builds the graph anew.  A value is an object of the graph   *)
(* or a primitive.  Methods and own properties are members; a member that  *)
(* is a method is the primitive "function".                                *)
(***************************************************************************)
EXTENDS Integers, Sequences, FiniteSets, SequencesExt

CONSTANTS
  Nodes,    \* objects
  Root,     \* the one that is passed
  Shapes    \* what an object may be: [proto, frozen, members]

VARIABLES
  value,    \* the graph: an object -> its shape
  data,     \* what serialize has made of it
  revived   \* what unserialize has made of that

vars == <<value, data, revived>>

NotYet == [throws |-> FALSE, done |-> FALSE]

Init ==
  /\ value \in [Nodes -> Shapes]
  /\ data = NotYet /\ revived = NotYet

-----------------------------------------------------------------------------
(* passStyleOf. *)

Members(v) == Range(value[v].members)

IsPassByCopyError(v) == Members(v) = {}
IsPassByCopyArray(v) == "function" \notin Members(v)
IsPassByCopyRecord(v) == Members(v) # {} /\ "function" \notin Members(v)
IsPassByPresence(v) == Members(v) \subseteq {"function"}

(* "throws" for what cannot be passed. *)
PassStyleOf(v) ==
  IF v = "function" THEN "throws"
  ELSE IF v \notin Nodes THEN "primitive"
  ELSE LET proto == value[v].proto
       IN CASE ~value[v].frozen -> "throws"
            [] proto = "Promise" -> "promise"
            [] proto = "Error" -> IF IsPassByCopyError(v) THEN "copyError" ELSE "throws"
            [] proto = "Array" -> IF IsPassByCopyArray(v) THEN "copyArray" ELSE "throws"
            [] OTHER -> IF IsPassByCopyRecord(v) THEN "copyRecord"
                        ELSE IF IsPassByPresence(v) THEN "presence" ELSE "throws"

-----------------------------------------------------------------------------
(* serialize.  Its state: the objects seen, which are the ibid table; the  *)
(* slots; and whether a value has thrown.                                  *)

(* Numbers JSON has not, and undefined, have a class of their own. *)
EncodePrimitive(v) == IF v = "string" THEN [q |-> "json", v |-> v] ELSE [q |-> v]
DecodePrimitive(t) == IF t.q = "json" THEN t.v ELSE t.q

(* What a member of the copy is: a new object, or a primitive.             *)
Object(i) == <<"object", i>>
Primitive(v) == <<v, 0>>

Index(seq, x) == CHOOSE i \in DOMAIN seq : seq[i] = x

Encoded(tree, seen, slots) == [tree |-> tree, seen |-> seen, slots |-> slots, throws |-> FALSE]

RECURSIVE Replace(_, _, _)

(* The members of a container, in their order and with the same tables.    *)
ReplaceMembers(style, members, seen, slots) ==
  FoldLeft(LAMBDA r, m :
             LET e == Replace(m, r.seen, r.slots)
             IN [tree |-> [r.tree EXCEPT !.kids = Append(@, e.tree)],
                 seen |-> e.seen, slots |-> e.slots, throws |-> r.throws \/ e.throws],
           Encoded([q |-> style, kids |-> <<>>], seen, slots), members)

Replace(v, seen, slots) ==
  LET style == PassStyleOf(v)
  IN CASE style = "throws" -> [Encoded([q |-> "none"], seen, slots) EXCEPT !.throws = TRUE]
       [] style = "primitive" -> Encoded(EncodePrimitive(v), seen, slots)
       [] v \in Range(seen) -> Encoded([q |-> "ibid", index |-> Index(seen, v)], seen, slots)
       [] style = "copyError" -> Encoded([q |-> "error"], Append(seen, v), slots)
       [] style \in {"presence", "promise"} ->
            Encoded([q |-> "slot", index |-> Len(slots) + 1], Append(seen, v), Append(slots, v))
       [] OTHER -> ReplaceMembers(style, value[v].members, Append(seen, v), slots)

Serialize ==
  /\ data = NotYet
  /\ data' = Replace(Root, <<>>, <<>>) @@ [done |-> TRUE]
  /\ UNCHANGED <<value, revived>>

-----------------------------------------------------------------------------
(* unserialize.  Its state: the objects built, in the order they were      *)
(* begun, which are the ibid table; those not finished; whether one has    *)
(* thrown; and what was revived last.                                      *)

Registered(st, object) ==
  [st EXCEPT !.objects = Append(@, object), !.of = Object(Len(st.objects) + 1)]

RECURSIVE FullRevive(_, _)

(* A container is in the table from its start, and an ibid to it throws    *)
(* until it is finished (forbidCycles).                                    *)
ReviveContainer(tree, st) ==
  LET id == Len(st.objects) + 1
      started == [Registered(st, [style |-> tree.q, kids |-> <<>>]) EXCEPT !.unfinished = @ \cup {id}]
      filled == FoldLeft(LAMBDA s, t :
                           LET r == FullRevive(t, s)
                           IN [r EXCEPT !.objects[id].kids = Append(@, r.of)],
                         started, tree.kids)
  IN [filled EXCEPT !.unfinished = @ \ {id}, !.of = Object(id)]

\* Mutant: cycles are allowed.
GetAnyIbid(index, st) == [st EXCEPT !.of = Object(index)]

GetIbid(index, st) ==
  IF index > Len(st.objects) \/ index \in st.unfinished
  THEN [st EXCEPT !.throws = TRUE, !.of = Primitive("none")]
  ELSE [st EXCEPT !.of = Object(index)]

FullRevive(tree, st) ==
  CASE tree.q = "ibid" -> GetIbid(tree.index, st)
    [] tree.q = "error" -> Registered(st, [style |-> "copyError", kids |-> <<>>])
    [] tree.q = "slot" -> Registered(st, [style |-> "slot", kids |-> <<data.slots[tree.index]>>])
    [] tree.q \in {"copyArray", "copyRecord"} -> ReviveContainer(tree, st)
    [] OTHER -> [st EXCEPT !.of = Primitive(DecodePrimitive(tree))]

Unserialize ==
  /\ data # NotYet /\ ~data.throws /\ revived = NotYet
  /\ revived' = FullRevive(data.tree, [objects |-> <<>>, unfinished |-> {}, of |-> Primitive("none"),
                                       throws |-> FALSE, done |-> TRUE])
  /\ UNCHANGED <<value, data>>

Next == Serialize \/ Unserialize

Spec == Init /\ [][Next]_vars

-----------------------------------------------------------------------------
(* Properties. *)

Parts(v) ==
  IF v \in Nodes /\ PassStyleOf(v) \in {"copyArray", "copyRecord"} THEN Members(v) ELSE {}

RECURSIVE Within(_)
Within(vs) ==
  LET more == vs \cup UNION {Parts(v) : v \in vs} IN IF more = vs THEN vs ELSE Within(more)

Cyclic == \E v \in Within({Root}) : v \in Within(Parts(v))

(* What stands for v in the copy. *)
Copy(v) == IF v \in Nodes THEN Object(Index(data.seen, v)) ELSE Primitive(v)

SameStyle(v, object) ==
  LET style == PassStyleOf(v)
  IN IF style \in {"presence", "promise"} THEN object.style = "slot" /\ object.kids = <<v>>
     ELSE /\ object.style = style
          /\ style # "copyError" =>
               object.kids = [i \in DOMAIN value[v].members |-> Copy(value[v].members[i])]

(* captp.umd.js l.1699: ibids rely on both ends visiting a value in the    *)
(* same order.  A value with a part that cannot be passed is not sent; one *)
(* with a cycle is sent and refused by the receiver; any other arrives as  *)
(* it was, with every object once however often it was met.                *)
RoundTrip ==
  /\ data # NotYet => (data.throws <=> \E v \in Within({Root}) : PassStyleOf(v) = "throws")
  /\ revived # NotYet =>
       IF Cyclic THEN revived.throws
       ELSE /\ ~revived.throws /\ revived.of = Copy(Root)
            /\ Len(revived.objects) = Cardinality(Within({Root}) \cap Nodes)
            /\ \A v \in Within({Root}) \cap Nodes : SameStyle(v, revived.objects[Index(data.seen, v)])
=============================================================================
