-------------------------------- MODULE Upload --------------------------------
(***************************************************************************)
(* ag-solo upload-contract (lib/ag-solo/upload-contract.js): a process of  *)
(* its own that speaks CapTP with the HTTP vat (vats/vat-http.js), has the *)
(* contracts of its arguments installed and saves them in the scratch pad  *)
(* home.uploads (vats/scratch.js).  Several may run at once; those with    *)
(* --once ask first whether one has ended.  Every await is a round trip,   *)
(* in which the others go on; the session itself is CapTP.                 *)
(***************************************************************************)
EXTENDS Integers, Sequences, FiniteSets, Functions

CONSTANTS
  Uploaders, Once,  \* those with --once
  Paths,            \* the arguments: [name, target], the same for all
  Available,        \* targets in the bundle of presences
  MaxFaults         \* bound on uploads that fail or are killed

VARIABLES
  loaded,     \* vat-http: setPresences has been called
  isReady,    \* vat-http: READY.resolve has been called
  installed,  \* contract host: contracts installed, named <<uploader, path>>
  uploads,    \* the scratch pad: name -> contract
  at,         \* uploader -> where it is
  bundle,     \* uploader -> targets of the bootstrap object it has
  next,       \* uploader -> the path or the contract it comes to
  asked,      \* uploader -> paths sent for installation, in order
  answered,   \* uploader -> paths it has the contract of
  overlapped, \* two uploads with --once have run at the same time
  faults

vars == <<loaded, isReady, installed, uploads, at, bundle, next, asked, answered,
          overlapped, faults>>
vat == <<loaded, isReady, installed, uploads>>

Init ==
  /\ loaded = FALSE /\ isReady = FALSE /\ installed = {} /\ uploads = <<>>
  /\ at = [u \in Uploaders |-> "none"] /\ bundle = [u \in Uploaders |-> {}]
  /\ next = [u \in Uploaders |-> 1] /\ asked = [u \in Uploaders |-> <<>>]
  /\ answered = [u \in Uploaders |-> {}]
  /\ overlapped = FALSE /\ faults = 0

-----------------------------------------------------------------------------
(* The vat: the bundle of the chain has come. *)

SetPresences ==
  /\ ~loaded
  /\ loaded' = TRUE
  /\ UNCHANGED <<isReady, installed, uploads, at, bundle, next, asked, answered,
                 overlapped, faults>>

Exported == IF loaded THEN Available ELSE {}

-----------------------------------------------------------------------------
(* An upload, from one await to the next. *)

With(f, x, v) == [y \in DOMAIN f \cup {x} |-> IF y = x THEN v ELSE f[y]]

To(u, place) == at' = [at EXCEPT ![u] = place]

(* The bootstrap object has LOADING if the bundle has not come, and then   *)
(* nothing else to wait for.                                               *)
GetBootstrap(u) ==
  /\ at[u] = "none"
  /\ To(u, IF loaded THEN "loaded" ELSE "waits")
  /\ UNCHANGED <<vat, bundle, next, asked, answered, overlapped, faults>>

Loading(u) ==
  /\ at[u] = "waits" /\ loaded
  /\ To(u, "loaded")
  /\ UNCHANGED <<vat, bundle, next, asked, answered, overlapped, faults>>

(* A new copy, since the contract targets should exist.                    *)
GetTargets(u) ==
  /\ at[u] = "loaded"
  /\ bundle' = [bundle EXCEPT ![u] = Exported]
  /\ To(u, IF u \in Once THEN "asks" ELSE "bundles")
  /\ UNCHANGED <<vat, next, asked, answered, overlapped, faults>>

Uploading == {u \in Once : at[u] \in {"bundles", "installs", "saves", "resolves"}}

IsReady(u) ==
  /\ at[u] = "asks"
  /\ IF isReady THEN To(u, "ended") /\ UNCHANGED overlapped
     ELSE To(u, "bundles") /\ overlapped' = (overlapped \/ Uploading # {})
  /\ UNCHANGED <<vat, bundle, next, asked, answered, faults>>

(* Installation is asked for and not awaited; a path whose target is not   *)
(* there is skipped.                                                       *)
BundlePath(u) ==
  /\ at[u] = "bundles" /\ next[u] \in DOMAIN Paths
  /\ next' = [next EXCEPT ![u] = @ + 1]
  /\ asked' = IF Paths[next[u]].target \in bundle[u]
              THEN [asked EXCEPT ![u] = Append(@, next[u])] ELSE asked
  /\ UNCHANGED <<vat, at, bundle, answered, overlapped, faults>>

AllBundled(u) ==
  /\ at[u] = "bundles" /\ next[u] \notin DOMAIN Paths
  /\ To(u, "installs")
  /\ UNCHANGED <<vat, bundle, next, asked, answered, overlapped, faults>>

(* The host installs what it was asked for also after the upload has died; *)
(* installations take their time and end in any order.                     *)
Install(u, k) ==
  /\ k \in Range(asked[u]) /\ <<u, k>> \notin installed
  /\ installed' = installed \cup {<<u, k>>}
  /\ answered' = [answered EXCEPT ![u] = @ \cup {k}]
  /\ UNCHANGED <<loaded, isReady, uploads, at, bundle, next, asked, overlapped, faults>>

AllInstalled(u) ==
  /\ at[u] = "installs" /\ answered[u] = Range(asked[u])
  /\ To(u, "saves") /\ next' = [next EXCEPT ![u] = 1]
  /\ UNCHANGED <<vat, bundle, asked, answered, overlapped, faults>>

\* Mutant: the contracts in the order of their answers, the names in that of the arguments.
SavePaired(u) ==
  /\ at[u] = "saves" /\ next[u] \in DOMAIN asked[u]
  /\ next' = [next EXCEPT ![u] = @ + 1]
  /\ \E k \in answered[u] : uploads' = With(uploads, Paths[asked[u][next[u]]].name, <<u, k>>)
  /\ UNCHANGED <<loaded, isReady, installed, at, bundle, asked, answered, overlapped, faults>>

Save(u) ==
  /\ at[u] = "saves" /\ next[u] \in DOMAIN asked[u]
  /\ next' = [next EXCEPT ![u] = @ + 1]
  /\ LET k == asked[u][next[u]] IN uploads' = With(uploads, Paths[k].name, <<u, k>>)
  /\ UNCHANGED <<loaded, isReady, installed, at, bundle, asked, answered, overlapped, faults>>

AllSaved(u) ==
  /\ at[u] = "saves" /\ next[u] \notin DOMAIN asked[u]
  /\ To(u, IF u \in Once THEN "resolves" ELSE "ended")
  /\ UNCHANGED <<vat, bundle, next, asked, answered, overlapped, faults>>

Ready(u) ==
  /\ at[u] = "resolves"
  /\ isReady' = TRUE /\ To(u, "ended")
  /\ UNCHANGED <<loaded, installed, uploads, bundle, next, asked, answered, overlapped, faults>>

(* A source that cannot be bundled, a refused installation, a closed       *)
(* socket, an interrupt: the upload ends where it is.                      *)
Fail(u) ==
  /\ at[u] \notin {"none", "ended", "failed"} /\ faults < MaxFaults
  /\ faults' = faults + 1 /\ To(u, "failed")
  /\ UNCHANGED <<vat, bundle, next, asked, answered, overlapped>>

Next ==
  \/ SetPresences
  \/ \E u \in Uploaders :
       \/ GetBootstrap(u) \/ Loading(u) \/ GetTargets(u) \/ IsReady(u)
       \/ BundlePath(u) \/ AllBundled(u) \/ AllInstalled(u)
       \/ Save(u) \/ AllSaved(u) \/ Ready(u) \/ Fail(u)
       \/ \E k \in DOMAIN Paths : Install(u, k)

Spec == Init /\ [][Next]_vars

-----------------------------------------------------------------------------
(* Properties. *)

Wanted == {k \in DOMAIN Paths : Paths[k].target \in Available}

(* upload-contract.js, --once: what is saved under a name is a contract    *)
(* installed from the path of that name.  READY says that every contract   *)
(* that has a target is saved, however uploads fail before or beside it.   *)
(* A contract is installed a second time only after an upload that failed, *)
(* or because two uploads had asked before either was ready.               *)
UploadsAsNamed ==
  /\ \A name \in DOMAIN uploads :
       uploads[name] \in installed /\ Paths[uploads[name][2]].name = name
  /\ isReady => \A k \in Wanted : Paths[k].name \in DOMAIN uploads
  /\ ~overlapped /\ faults = 0 =>
       \A k \in DOMAIN Paths : Cardinality({u \in Once : <<u, k>> \in installed}) <= 1
=============================================================================
