--------------------------- MODULE KeeperStorage ---------------------------
(***************************************************************************)
(* The swingset keeper (x/swingset/internal/keeper/keeper.go) behind the   *)
(* storage handler (x/swingset/storage.go): a store of dotted paths, each  *)
(* with a value under "data:" and with the names of its children under     *)
(* "keys:".  Every validator runs the same sets and must end up with the   *)
(* same bytes, so the model holds one store per replica, and the order in  *)
(* which Go enumerates a map is each replica's own.                        *)
(*                                                                         *)
(* A path is what strings.Split makes of it, a non-empty sequence of       *)
(* segments; segments are numbers, in their lexical order, and the empty   *)
(* string (the parent of an undotted path) is 0.                           *)
(***************************************************************************)
EXTENDS Integers, SequencesExt

CONSTANTS
    Replicas,  \* the validators
    Segments,  \* the non-empty path segments
    Paths,     \* the paths that are set
    Values,    \* the non-empty values
    Empty      \* the empty string as a value

ASSUME PathsAssumption ==
    /\ Segments \subseteq Nat \ {0}
    /\ Paths \subseteq Seq(Segments) \ {<<>>}
    /\ Empty \notin Values

VARIABLES
    data,  \* replica => path => value under "data:"; Empty when there is none
    keys   \* replica => parent => list under "keys:"; empty when there is none

vars == <<data, keys>>

RootPath == <<0>>

\* oneUp: the path without its last segment.
Parent(path) == IF Len(path) = 1 THEN RootPath ELSE Front(path)

Parents == {Parent(path) : path \in Paths}

\* The entries of a list.
Listed(list) == {list[i] : i \in DOMAIN list}

TypeOK ==
    /\ data \in [Replicas -> [Paths -> Values \cup {Empty}]]
    /\ keys \in [Replicas -> [Parents -> Seq(Segments)]]

Init ==
    /\ data = [r \in Replicas |-> [path \in Paths |-> Empty]]
    /\ keys = [r \in Replicas |-> [parent \in Parents |-> <<>>]]

-----------------------------------------------------------------------------

\* GetStorage and GetKeys: the empty value when there is nothing.
GetStorage(r, path) == IF path \in Paths THEN data[r][path] ELSE Empty
GetKeys(r, path) == IF path \in Parents THEN keys[r][path] ELSE <<>>

\* Mutant: clearing a value leaves its key.
KeyMapOnlyAdds(r, path, value) == Listed(GetKeys(r, Parent(path))) \cup {Last(path)}

\* keyMap after the update: the last segment added or deleted.
KeyMap(r, path, value) ==
    IF value = Empty
    THEN Listed(GetKeys(r, Parent(path))) \ {Last(path)}
    ELSE Listed(GetKeys(r, Parent(path))) \cup {Last(path)}

\* The lists `for key := range keyMap` may build.
Enumerations(S) == {list \in [1..Cardinality(S) -> S] : Listed(list) = S}

\* Mutant: no sort.
KeyListsUnsorted(S) == Enumerations(S)

\* ... and what sort.Strings makes of any of them.
KeyLists(S) == {list \in Enumerations(S) : \A i, j \in DOMAIN list : i < j => list[i] < list[j]}

\* SetStorage on every replica, as each executes the same transaction.
SetStorage(path, value) ==
    \E chosen \in [Replicas -> UNION {KeyLists(KeyMap(r, path, value)) : r \in Replicas}] :
        /\ \A r \in Replicas : chosen[r] \in KeyLists(KeyMap(r, path, value))
        /\ data' = [r \in Replicas |-> [data[r] EXCEPT ![path] = value]]
        /\ keys' = [r \in Replicas |-> [keys[r] EXCEPT ![Parent(path)] = chosen[r]]]

Next == \E path \in Paths, value \in Values \cup {Empty} : SetStorage(path, value)

Spec == Init /\ [][Next]_vars

-----------------------------------------------------------------------------

\* What storageHandler.Receive answers to its read methods.
Has(r, path) == GetStorage(r, path) # Empty

Entries(r, path) ==
    LET list == GetKeys(r, path)
    IN [i \in DOMAIN list |-> <<list[i], GetStorage(r, Append(path, list[i]))>>]

-----------------------------------------------------------------------------

\* The key index of a parent lists exactly the children that have a value,
\* through every order of setting and clearing them (keeper.go l.59-104).
IndexExact ==
    \A r \in Replicas : \A path \in Paths :
        data[r][path] # Empty <=> Last(path) \in Listed(keys[r][Parent(path)])

\* All replicas store the same bytes and so answer alike: the application hash
\* is a function of the transactions, not of Go's map order (keeper.go l.81-103).
\* "entries" answers each child that has a value once, with its value; true of
\* dotted parents, the root asks for paths that begin with a dot.
ReplicasAnswerAlike ==
    /\ \A r, s \in Replicas : data[r] = data[s] /\ keys[r] = keys[s]
    /\ \A r \in Replicas : \A parent \in Parents \ {RootPath} :
         LET children == {path \in Paths : Parent(path) = parent /\ Has(r, path)}
         IN /\ Listed(Entries(r, parent)) = {<<Last(path), data[r][path]>> : path \in children}
            /\ Len(Entries(r, parent)) = Cardinality(children)

=============================================================================
