------------------------------ MODULE Onboarding ------------------------------
(***************************************************************************)
(* How a solo gets onto a chain: ag-setup-solo makes a key and sends it    *)
(* through a wormhole, ag-pserver transfers the initial token to it, asks  *)
(* the controller to provision it, answers and puts it in its database.    *)
(* When the operator bootstraps a new chain, `ag-pserver add-pubkeys`      *)
(* provisions the keys of the database again, before the server starts.    *)
(*                                                                         *)
(* A key stands for one run of ag-setup-solo: a run that fails removes     *)
(* its directory, and the next one makes another key.                      *)
(***************************************************************************)
EXTENDS Integers, Sequences, SequencesExt, FiniteSets

CONSTANTS
  Keys,
  MaxRetries,   \* transfers tried for one key (10 in the code)
  MaxChains,    \* bound on the chains bootstrapped
  MaxFaults     \* bound on transfers refused, answers lost and exceptions

VARIABLES
  chain,        \* the chain ag-pserver and the controller are set up for
  solo,         \* the run of ag-setup-solo of a key: [state, chain]
  job,          \* enablePubkey for a key: [state, tries, source]
  funded,       \* <<chain, key>> that got the initial token
  provisioned,  \* <<chain, key>> the controller has provisioned
  database,     \* pubkeys.jsona: keys in the order they were appended
  adding,       \* state of add-pubkeys: "off", "on", "ended"
  pkobjs,       \* keys it has not popped yet
  reported,      \* keys for which it printed an error of enablePubkey
  raised,       \* enablePubkey threw during this add-pubkeys
  faults

vars == <<chain, solo, job, funded, provisioned, database, adding, pkobjs,
          reported, raised, faults>>

NoJob == [state |-> "none", tries |-> 0, source |-> "none"]
NewJob(source) == [state |-> "transfer", tries |-> MaxRetries, source |-> source]
Active(j) == {k \in Keys : j[k].state # "none"}

Init ==
  /\ chain = 1
  /\ solo = [k \in Keys |-> [state |-> "none", chain |-> 0]]
  /\ job = [k \in Keys |-> NoJob]
  /\ funded = {} /\ provisioned = {} /\ database = <<>>
  /\ adding = "off" /\ pkobjs = <<>> /\ reported = {} /\ raised = FALSE
  /\ faults = 0

-----------------------------------------------------------------------------
(* ag-setup-solo. *)

(* run_client: init, read the key, send it with the provisioning code, for *)
(* which the server has a wormhole open.                                   *)
SendKey(k) ==
  /\ solo[k].state = "none" /\ adding = "off"
  /\ solo' = [solo EXCEPT ![k].state = "waiting"]
  /\ job' = [job EXCEPT ![k] = NewJob("wormhole")]
  /\ UNCHANGED <<chain, funded, provisioned, database, adding, pkobjs, reported,
                 raised, faults>>

(* cleanup: the directory goes, and the key with it. *)
GiveUp(k) ==
  /\ solo[k].state = "waiting"
  /\ solo' = [solo EXCEPT ![k].state = "gone"]
  /\ UNCHANGED <<chain, job, funded, provisioned, database, adding, pkobjs, reported,
                 raised, faults>>

(* The server's message: set-gci-ingress and start, or an error. *)
\* Mutant: the ok of the message is not looked at.
HearAlways(s, ok) == IF s.state = "waiting" THEN [state |-> "running", chain |-> chain] ELSE s

Hear(s, ok) ==
  CASE s.state = "waiting" /\ ok  -> [state |-> "running", chain |-> chain]
    [] s.state = "waiting" /\ ~ok -> [s EXCEPT !.state = "gone"]
    [] OTHER -> s

-----------------------------------------------------------------------------
(* add-pubkeys: doLatest pops a key or, if none is left, ends the run, for *)
(* which the reactor does not wait for what is still under way.            *)

State == [job |-> job, pkobjs |-> pkobjs, adding |-> adding]

\* Mutant: a list of one key counts as empty.
DoLatestButOne(s) ==
  IF Len(s.pkobjs) <= 1 \/ s.adding # "on"
  THEN [s EXCEPT !.adding = "ended", !.job = [k \in Keys |-> NoJob]]
  ELSE [s EXCEPT !.pkobjs = Front(@), !.job[Last(s.pkobjs)] = NewJob("database")]

DoLatest(s) ==
  IF s.pkobjs = <<>> \/ s.adding # "on"
  THEN [s EXCEPT !.adding = "ended", !.job = [k \in Keys |-> NoJob]]
  ELSE [s EXCEPT !.pkobjs = Front(@), !.job[Last(s.pkobjs)] = NewJob("database")]

Becomes(s) == job' = s.job /\ pkobjs' = s.pkobjs /\ adding' = s.adding

Without(k) == [State EXCEPT !.job[k] = NoJob]

AddPubkeys ==
  /\ adding = "on" /\ pkobjs = database
  /\ Becomes(DoLatest(State))
  /\ UNCHANGED <<chain, solo, funded, provisioned, database, reported, raised, faults>>

-----------------------------------------------------------------------------
(* enablePubkey. *)

(* The transfer: committed; or refused, or its answer is lost with the     *)
(* transfer committed, and it is tried again as long as tries are left.    *)
Transfer(k) ==
  /\ job[k].state = "transfer" /\ job[k].tries > 0
  /\ funded' = funded \cup {<<chain, k>>}
  /\ job' = [job EXCEPT ![k].state = "post"]
  /\ UNCHANGED <<chain, solo, provisioned, database, adding, pkobjs, reported, raised, faults>>

TransferFails(k) ==
  /\ job[k].state = "transfer" /\ job[k].tries > 0 /\ faults < MaxFaults
  /\ faults' = faults + 1
  /\ funded' \in {funded, funded \cup {<<chain, k>>}}
  /\ job' = [job EXCEPT ![k].tries = @ - 1]
  /\ UNCHANGED <<chain, solo, provisioned, database, adding, pkobjs, reported, raised>>

TransferAbandoned(k) ==
  /\ job[k].state = "transfer" /\ job[k].tries = 0
  /\ job' = [job EXCEPT ![k].state = "error"]
  /\ UNCHANGED <<chain, solo, funded, provisioned, database, adding, pkobjs, reported,
                 raised, faults>>

(* The post to the controller. *)
PleaseProvision(k) ==
  /\ job[k].state = "post"
  /\ provisioned' = provisioned \cup {<<chain, k>>}
  /\ job' = [job EXCEPT ![k].state = "ok"]
  /\ UNCHANGED <<chain, solo, funded, database, adding, pkobjs, reported, raised, faults>>

PostFails(k) ==
  /\ job[k].state = "post" /\ faults < MaxFaults
  /\ faults' = faults + 1
  /\ provisioned' \in {provisioned, provisioned \cup {<<chain, k>>}}
  /\ job' = [job EXCEPT ![k].state = "error"]
  /\ UNCHANGED <<chain, solo, funded, database, adding, pkobjs, reported, raised>>

(* send_provisioning_response: the message, ok or not, and once the        *)
(* wormhole is closed the key goes into the database.                      *)
Respond(k) ==
  /\ job[k].state \in {"ok", "error"} /\ job[k].source = "wormhole"
  /\ solo' = [solo EXCEPT ![k] = Hear(@, job[k].state = "ok")]
  /\ job' = [job EXCEPT ![k].state = "close"]
  /\ UNCHANGED <<chain, funded, provisioned, database, adding, pkobjs, reported, raised, faults>>

Complete(k) ==
  /\ job[k].state = "close"
  /\ job' = [job EXCEPT ![k] = NoJob]
  /\ \/ database' = Append(database, k) /\ UNCHANGED faults
     \/ faults < MaxFaults /\ faults' = faults + 1 /\ UNCHANGED database
  /\ UNCHANGED <<chain, solo, funded, provisioned, adding, pkobjs, reported, raised>>

(* In add-pubkeys both results are printed, and the next key is popped.    *)
Enabled(k) ==
  /\ job[k].state \in {"ok", "error"} /\ job[k].source = "database"
  /\ reported' = reported \cup {x \in {k} : job[x].state = "error"}
  /\ Becomes(DoLatest(Without(k)))
  /\ UNCHANGED <<chain, solo, funded, provisioned, database, raised, faults>>

(* An exception in enablePubkey: output that is no JSON, a config without  *)
(* addresses.  got_message's caller has no errback, so the solo is told    *)
(* nothing; doEnablePubkeys has one, showError, which calls doLatest, and  *)
(* then the callback added after it calls doLatest again.                  *)
Raise(k) ==
  /\ job[k].state \in {"transfer", "post"} /\ faults < MaxFaults
  /\ faults' = faults + 1
  /\ IF job[k].source = "wormhole"
     THEN Becomes(Without(k)) /\ UNCHANGED <<reported, raised>>
     ELSE /\ reported' = reported \cup {k}
          /\ raised' = TRUE
          /\ Becomes(DoLatest(DoLatest(Without(k))))
  /\ UNCHANGED <<chain, solo, funded, provisioned, database>>

-----------------------------------------------------------------------------
(* bootstrap --bump: the server stops, a new chain and controller are set  *)
(* up, add-pubkeys runs, and the server starts again.                      *)
NewChain ==
  /\ adding = "off" /\ chain < MaxChains
  /\ chain' = chain + 1
  /\ job' = [k \in Keys |-> NoJob]
  /\ adding' = "on" /\ pkobjs' = database /\ reported' = {} /\ raised' = FALSE
  /\ UNCHANGED <<solo, funded, provisioned, database, faults>>

Serve ==
  /\ adding = "ended"
  /\ adding' = "off"
  /\ UNCHANGED <<chain, solo, job, funded, provisioned, database, pkobjs, reported,
                 raised, faults>>

Next ==
  \/ \E k \in Keys :
       \/ SendKey(k) \/ GiveUp(k)
       \/ Transfer(k) \/ TransferFails(k) \/ TransferAbandoned(k)
       \/ PleaseProvision(k) \/ PostFails(k) \/ Raise(k)
       \/ Respond(k) \/ Complete(k) \/ Enabled(k)
  \/ AddPubkeys
  \/ NewChain
  \/ Serve

Spec == Init /\ [][Next]_vars

-----------------------------------------------------------------------------
(* Properties. *)

(* A solo started by the run of ag-setup-solo that asked for it, upon the  *)
(* answer of the server, is known to the controller of the chain it was    *)
(* configured for and has the token to pay for its messages, over failed   *)
(* transfers, lost answers, new chains and runs given up.                  *)
RunningIsProvisioned ==
  \A k \in Keys : solo[k].state = "running" =>
    <<solo[k].chain, k>> \in provisioned \cap funded

(* ag_pserver/main.py, add-pubkeys: "add all the accounts".  When the run  *)
(* ends, every key of the database has the token and is provisioned on the *)
(* new chain, or the operator was shown an error for it.                   *)
AddsAll ==
  adding = "ended" =>
    \A k \in ToSet(database) \ reported : <<chain, k>> \in provisioned \cap funded

(* The same unless enablePubkey threw, and then also one key at a time: the *)
(* transfers are all signed with the one bootstrap account.                 *)
AddsAllInTurn ==
  ~raised => AddsAll /\ (adding = "on" => Cardinality(Active(job)) <= 1)
=============================================================================
