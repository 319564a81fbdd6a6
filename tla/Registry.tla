------------------------------- MODULE Registry -------------------------------
(***************************************************************************)
(* The registry of the chain (lib/ag-solo/vats/vat-registry.js) and the    *)
(* pledger of a solo, which puts its names to the balances it shows        *)
(* (vat-pledger.js getBalances) and keeps them.  Calls of the registry     *)
(* take promises and wait for them.  The pledger starts without a registry *)
(* and asks the one it has at the time, on another machine.                *)
(***************************************************************************)
EXTENDS Integers, Sequences

CONSTANTS
  Names, Assays,
  Sets,       \* calls of the registry's set
  MaxReads    \* bound on balances shown

VARIABLES
  args,       \* set -> the name and the object it is called with
  set,        \* set -> "none", "waits" for its arguments, or "done"
  i, map, rmap,
  registry,              \* the pledger has been given the registry
  registeredAssays,      \* pledger: assay -> name
  reads       \* what the pledger is asked for: [assay, state, aid, from]

vars == <<args, set, i, map, rmap, registry, registeredAssays, reads>>
registryVars == <<args, set, i, map, rmap>>

Unregistered == <<>>
Get(f, x) == IF x \in DOMAIN f THEN f[x] ELSE Unregistered
With(f, x, v) == [y \in DOMAIN f \cup {x} |-> IF y = x THEN v ELSE f[y]]

Init ==
  /\ args \in [Sets -> Names \X Assays] /\ set = [s \in Sets |-> "none"]
  /\ i = 0 /\ map = <<>> /\ rmap = <<>>
  /\ registry = FALSE /\ registeredAssays = <<>> /\ reads = <<>>

-----------------------------------------------------------------------------
(* The registry. *)

CallSet(s) ==
  /\ set[s] = "none" /\ set' = [set EXCEPT ![s] = "waits"]
  /\ UNCHANGED <<args, i, map, rmap, registry, registeredAssays, reads>>

\* Mutant: an object has the name it was registered under last.
SetLast(s) ==
  /\ set[s] = "waits" /\ set' = [set EXCEPT ![s] = "done"]
  /\ i' = i + 1
  /\ LET id == <<args[s][1], i + 1>>
         obj == args[s][2]
     IN map' = With(map, id, obj) /\ rmap' = With(rmap, obj, id)
  /\ UNCHANGED <<args, registry, registeredAssays, reads>>

(* Both arguments are there.  An object keeps the first name it gets.      *)
Set(s) ==
  /\ set[s] = "waits" /\ set' = [set EXCEPT ![s] = "done"]
  /\ i' = i + 1
  /\ LET id == <<args[s][1], i + 1>>
         obj == args[s][2]
     IN /\ map' = With(map, id, obj)
        /\ rmap' = IF obj \in DOMAIN rmap THEN rmap ELSE With(rmap, obj, id)
  /\ UNCHANGED <<args, registry, registeredAssays, reads>>

-----------------------------------------------------------------------------
(* The pledger. *)

(* setPresences, once. *)
SetRegistry ==
  /\ ~registry /\ registry' = TRUE
  /\ registeredAssays' = <<>>
  /\ UNCHANGED <<registryVars, reads>>

(* getBalances of one assay: a name that is kept is shown. *)
GetBalances(a) ==
  /\ Len(reads) < MaxReads
  /\ reads' = Append(reads,
       [assay |-> a, from |-> {r \in DOMAIN reads : reads[r].state = "shown"},
        state |-> IF a \in DOMAIN registeredAssays THEN "shown"
                  ELSE IF registry THEN "asked" ELSE "answered",
        aid |-> Get(registeredAssays, a)])
  /\ UNCHANGED <<registryVars, registry, registeredAssays>>

ReverseGet(r) ==
  /\ reads[r].state = "asked"
  /\ reads' = [reads EXCEPT ![r].state = "answered", ![r].aid = Get(rmap, reads[r].assay)]
  /\ UNCHANGED <<registryVars, registry, registeredAssays>>

Show(r) ==
  /\ reads[r].state = "answered"
  /\ registeredAssays' = IF reads[r].aid = Unregistered THEN registeredAssays
                         ELSE With(registeredAssays, reads[r].assay, reads[r].aid)
  /\ reads' = [reads EXCEPT ![r].state = "shown",
                            ![r].aid = Get(registeredAssays', reads[r].assay)]
  /\ UNCHANGED <<registryVars, registry>>

Next ==
  \/ \E s \in Sets : CallSet(s) \/ Set(s)
  \/ SetRegistry
  \/ \E a \in Assays : GetBalances(a)
  \/ \E r \in DOMAIN reads : ReverseGet(r) \/ Show(r)

Spec == Init /\ [][Next]_vars

-----------------------------------------------------------------------------
(* Properties. *)

(* vat-registry.js set, vat-pledger.js getBalances: the name shown with a  *)
(* balance is one the registry knows the assay by, both ways; calls of set *)
(* never share a name; and a name once shown is shown ever after, although *)
(* answers of the registry overtake each other.                            *)
NamesStay ==
  /\ \A r \in DOMAIN reads : reads[r].state = "shown" /\ reads[r].aid # Unregistered =>
       /\ map[reads[r].aid] = reads[r].assay
       /\ rmap[reads[r].assay] = reads[r].aid
  /\ \A s \in Sets : set[s] = "done" => \E n \in 1 .. i : Get(map, <<args[s][1], n>>) = args[s][2]
  /\ \A r \in DOMAIN reads : reads[r].state = "shown" =>
       \A q \in reads[r].from :
         reads[q].assay = reads[r].assay /\ reads[q].aid # Unregistered =>
           reads[r].aid = reads[q].aid
=============================================================================
