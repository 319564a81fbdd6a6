-------------------------------- MODULE Setup --------------------------------
(***************************************************************************)
(* `ag-setup-cosmos bootstrap` (setup/main.js): the command that takes a   *)
(* directory on the operator's machine and a set of hosts to a running     *)
(* chain with its controller and provisioning server.  Every stage is      *)
(* guarded by a file in the directory, so that a run that failed or was    *)
(* killed is followed by another that goes on where it stopped.  A new     *)
(* chain name stops the services and removes the files of the old chain;   *)
(* `destroy` gives the machines back.                                      *)
(*                                                                         *)
(* A genesis stands for the chain it defines and is a number, new for      *)
(* every `ag-chain-cosmos init` of the first node; 0 is none.  The GCI is  *)
(* the hash of the genesis, so it is the same number.                      *)
(***************************************************************************)
EXTENDS Integers, Sequences, SequencesExt

CONSTANTS
  Nodes,        \* hosts of the group ag-chain-cosmos
  First,        \* PROVISIONER_NODE, which also runs the other services
  MaxVersion,   \* bound on bootstrap --bump
  MaxGenesis,   \* bound on the runs of prepare-cosmos
  MaxFails,     \* bound on failed plays and killed runs
  MaxDestroys   \* bound on runs of destroy

ASSUME FirstIsNode == First \in Nodes
ASSUME BoundsAssumption == MaxVersion \in Nat /\ MaxGenesis \in Nat

VARIABLES
  disk,      \* files of the setup directory: name -> content
  version,   \* chain-version.txt
  alive,     \* the machines are provisioned
  unit,      \* services with a systemd unit on their host
  config,    \* service -> the chain its files on the host name
  running,   \* service -> the chain its process was started for
  doing,     \* the command in progress
  step,      \* its stage
  todo,      \* services the current play has not reached yet
  bump,      \* --bump was given
  made,      \* genesis numbers used
  torn,      \* a destroy was cut short and not repeated
  stray,     \* a play could not stop a process
  fails, destroys

machines == <<unit, config, running, made>>
run == <<doing, step, todo, bump>>
vars == <<disk, version, alive, unit, config, running, doing, step, todo, bump,
          made, torn, stray, fails, destroys>>

-----------------------------------------------------------------------------
(* The stages, in the order of the code, named for the file that guards    *)
(* them; compare, stop-*, wipe and waited have none.                       *)

Order == <<
  "hosts", "known_hosts", "machines",
  "compare", "stop-pserver", "stop-solo", "stop-chain", "wipe", "chain-name", "c-prepared",
  "prepared", "genesis", "peers", "installed", "service", "started", "waited", "validators",
  "config", "gci", "rpcaddrs", "c-installed", "solo-service", "solo-started", "pubkeys",
  "c-service", "c-started">>

Stage(k) == IF k \in DOMAIN Order THEN Order[k] ELSE "none"
IndexOfStage(name) == CHOOSE k \in DOMAIN Order : Order[k] = name

ProvisionDir == {"hosts", "known_hosts", "machines"}
CosmosDir == {"chain-name", "prepared", "genesis", "peers", "installed", "service",
              "started", "validators"}
ControllerDir == {"c-prepared", "config", "gci", "rpcaddrs", "c-installed", "solo-service",
                  "solo-started", "pubkeys", "c-service", "c-started"}
Files == ProvisionDir \cup CosmosDir \cup ControllerDir

ChainOf(n) == <<n, "chain">>
Solo    == <<First, "solo">>
Pserver == <<First, "pserver">>
Chains  == {ChainOf(n) : n \in Nodes}
Services == Chains \cup {Solo, Pserver}

(* The services a play of the stage works on. *)
Targets(name) ==
  CASE name \in {"prepared", "installed", "service", "started", "stop-chain"} -> Chains
    [] name \in {"c-prepared", "solo-service", "solo-started", "stop-solo"} -> {Solo}
    [] name \in {"c-service", "c-started", "stop-pserver"} -> {Pserver}
    [] name = "c-installed" -> {Solo, Pserver}
    [] OTHER -> {}

With(f, k, v) == [x \in DOMAIN f \cup {k} |-> IF x = k THEN v ELSE f[x]]

Has(f) == f \in DOMAIN disk
Content(f) == IF Has(f) THEN disk[f] ELSE 0
Named == IF Has("chain-name") THEN disk["chain-name"] ELSE -1

Init ==
  /\ disk = <<>> /\ version = 0 /\ alive = FALSE
  /\ unit = {} /\ config = [s \in Services |-> 0] /\ running = [s \in Services |-> 0]
  /\ doing = "idle" /\ step = 0 /\ todo = {} /\ bump = FALSE
  /\ made = 0 /\ torn = FALSE /\ stray = FALSE /\ fails = 0 /\ destroys = 0

-----------------------------------------------------------------------------
(* The commands. *)

(* After the last stage the command is over. *)
Goto(k) == IF k \in DOMAIN Order
           THEN doing' = "bootstrap" /\ step' = k /\ todo' = Targets(Stage(k))
           ELSE doing' = "idle" /\ step' = 0 /\ todo' = {}

Stop == doing' = "idle" /\ step' = 0 /\ todo' = {}

Bootstrap(b) ==
  /\ doing = "idle"
  /\ b => version < MaxVersion
  /\ bump' = b
  /\ Goto(1)
  /\ UNCHANGED <<disk, version, alive, machines, torn, stray, fails, destroys>>

(* guardFile: a stage whose file exists is done. *)
Skip ==
  /\ doing = "bootstrap" /\ Has(Stage(step))
  /\ Goto(step + 1)
  /\ UNCHANGED <<disk, version, alive, machines, bump, torn, stray, fails, destroys>>

\* Mutant: a directory without a name is taken to need no cleaning.
DiffersIfNamed(name) == Named # -1 /\ Named # name

(* A missing name counts as different: chain-name.txt is the first file    *)
(* that is written and may be the first that rm removes.                   *)
Differs(name) == Named # name

(* bump-chain-version; whatever the level, the version is a new one. *)
Bumped == version + 1

Compare ==
  /\ doing = "bootstrap" /\ Stage(step) = "compare"
  /\ version' = IF bump THEN Bumped ELSE version
  /\ Goto(IF Differs(version') THEN step + 1 ELSE IndexOfStage("chain-name"))
  /\ UNCHANGED <<disk, alive, machines, bump, torn, stray, fails, destroys>>

-----------------------------------------------------------------------------
(* The plays, one service at a time: hosts are served independently        *)
(* (strategy: free), and a play that fails has reached some of them.       *)

(* ag-chain-cosmos init on a node makes it a genesis of its own; only that *)
(* of the first node is ever used.                                         *)
Prepare(s) ==
  /\ config' = [config EXCEPT ![s] = IF s = ChainOf(First) THEN made + 1 ELSE 0]
  /\ made' = IF s = ChainOf(First) THEN made + 1 ELSE made
  /\ UNCHANGED <<unit, running>>

Install(s) ==
  /\ config' = [config EXCEPT ![s] =
       CASE s \in Chains -> Content("genesis")
         [] s = Solo     -> Content("gci")
         [] s = Pserver  -> Content("config")]
  /\ UNCHANGED <<unit, running, made>>

InstallUnit(s) == unit' = unit \cup {s} /\ UNCHANGED <<config, running, made>>

(* state=started leaves a process that is running alone. *)
StartService(s) ==
  /\ running' = [running EXCEPT ![s] = IF @ = 0 THEN config[s] ELSE @]
  /\ UNCHANGED <<unit, config, made>>

Effect(name, s) ==
  CASE name \in {"prepared", "c-prepared"} -> Prepare(s)
    [] name \in {"installed", "c-installed"} -> Install(s)
    [] name \in {"service", "solo-service", "c-service"} -> InstallUnit(s)
    [] name \in {"started", "solo-started", "c-started"} -> StartService(s)
    [] OTHER -> FALSE

Play(s) ==
  /\ doing = "bootstrap" /\ alive /\ ~Has(Stage(step)) /\ s \in todo
  /\ (Stage(step) = "prepared" /\ s = ChainOf(First)) => made < MaxGenesis
  /\ Effect(Stage(step), s)
  /\ todo' = todo \ {s}
  /\ UNCHANGED <<disk, version, alive, doing, step, bump, torn, stray, fails, destroys>>

Stops == {"stop-pserver", "stop-solo", "stop-chain"}

StopService(s) ==
  /\ doing = "bootstrap" /\ alive /\ Stage(step) \in Stops /\ s \in todo
  /\ s \in unit
  /\ running' = [running EXCEPT ![s] = 0]
  /\ todo' = todo \ {s}
  /\ UNCHANGED <<disk, version, alive, unit, config, made, doing, step, bump, torn,
                 stray, fails, destroys>>

\* Mutant: needReMain, as everywhere else.
StopFailsThrows(s) ==
  /\ doing = "bootstrap" /\ Stage(step) \in Stops /\ s \in todo
  /\ s \in unit => fails < MaxFails
  /\ fails' = IF s \in unit THEN fails + 1 ELSE fails
  /\ stray' = stray
  /\ Stop
  /\ UNCHANGED <<disk, version, alive, machines, bump, torn, destroys>>

(* reMain without need: the exit code of a stop is not looked at.  There   *)
(* is nothing to stop where the unit is not installed yet.                 *)
StopFails(s) ==
  /\ doing = "bootstrap" /\ Stage(step) \in Stops /\ s \in todo
  /\ s \in unit => fails < MaxFails
  /\ fails' = IF s \in unit THEN fails + 1 ELSE fails
  /\ stray' = (stray \/ running[s] # 0)
  /\ todo' = todo \ {s}
  /\ UNCHANGED <<disk, version, alive, machines, doing, step, bump, torn, destroys>>

-----------------------------------------------------------------------------
(* The end of a stage. *)

(* The nodes vouch for each other: the first one makes the blocks. *)
WaitForAny == \A s \in Chains : running[s] # 0

(* The controller reports a new block only of the chain it is connected to. *)
FoundBlock == running[Solo] = running[ChainOf(First)]

(* What a stage waits for after its play.  The status of a service that is *)
(* down aborts the command.                                                *)
Ready(name) ==
  CASE name = "waited" -> WaitForAny
    [] name = "solo-started" -> FoundBlock
    [] OTHER -> TRUE

(* The genesis of the first node, with the validators of all. *)
ShowGenesis == config[ChainOf(First)]

ShowGCI == Content("genesis")

Made(name) ==
  CASE name = "chain-name" -> version
    [] name = "genesis" -> ShowGenesis
    [] name \in {"config", "gci"} -> ShowGCI
    [] OTHER -> 0

Finish ==
  /\ doing = "bootstrap" /\ todo = {} /\ ~Has(Stage(step))
  /\ Stage(step) \notin {"compare", "wipe"}
  /\ Stage(step) \notin {"hosts", "chain-name"} \cup Stops => alive
  /\ Ready(Stage(step))
  /\ disk' = IF Stage(step) \in Files THEN With(disk, Stage(step), Made(Stage(step)))
                                      ELSE disk
  /\ alive' = (alive \/ Stage(step) = "hosts")
  /\ Goto(step + 1)
  /\ UNCHANGED <<version, machines, bump, torn, stray, fails, destroys>>

(* rm -rf takes its directories in order, and the files of one in any.     *)
Condemned == IF doing = "destroy" THEN <<ProvisionDir, ControllerDir, CosmosDir>>
                                  ELSE <<ControllerDir, CosmosDir>>

Wiping == doing = "destroy" \/ (doing = "bootstrap" /\ Stage(step) = "wipe")
Left(i) == Condemned[i] \cap DOMAIN disk

RemoveFile(f) ==
  /\ Wiping
  /\ \E i \in DOMAIN Condemned : f \in Left(i) /\ \A j \in 1 .. i - 1 : Left(j) = {}
  /\ disk' = [g \in DOMAIN disk \ {f} |-> disk[g]]
  /\ UNCHANGED <<version, alive, machines, run, torn, stray, fails, destroys>>

Wiped ==
  /\ Wiping /\ \A i \in DOMAIN Condemned : Left(i) = {}
  /\ IF doing = "destroy"
     THEN Stop /\ torn' = FALSE /\ stray' = FALSE
     ELSE Goto(step + 1) /\ UNCHANGED <<torn, stray>>
  /\ UNCHANGED <<disk, version, alive, machines, bump, fails, destroys>>

(* destroy gives the machines back before it removes any file. *)
Destroy ==
  /\ doing = "idle" /\ destroys < MaxDestroys
  /\ destroys' = destroys + 1
  /\ alive' = FALSE /\ unit' = {}
  /\ config' = [s \in Services |-> 0] /\ running' = [s \in Services |-> 0]
  /\ doing' = "destroy"
  /\ UNCHANGED <<disk, version, step, todo, bump, made, torn, stray, fails>>

(* A play or a command exits with a code, or the run is killed. *)
Fail ==
  /\ doing # "idle" /\ fails < MaxFails
  /\ fails' = fails + 1
  /\ torn' = (torn \/ doing = "destroy")
  /\ Stop
  /\ UNCHANGED <<disk, version, alive, machines, bump, stray, destroys>>

Work ==
  \/ Skip \/ Compare \/ Finish \/ Wiped
  \/ \E s \in Services : Play(s) \/ StopService(s) \/ StopFails(s)
  \/ \E f \in Files : RemoveFile(f)

Next ==
  \/ \E b \in BOOLEAN : Bootstrap(b)
  \/ Work
  \/ Destroy
  \/ Fail

Spec == Init /\ [][Next]_vars

(* Commands that are running go on, and an operator whose bootstrap failed *)
(* runs it again.                                                          *)
FairSpec == Spec /\ WF_vars(Work) /\ WF_vars(Bootstrap(FALSE))

-----------------------------------------------------------------------------
(* Properties. *)

(* The files and the hosts have the shapes the code gives them, and only a *)
(* bootstrap has a stage.                                                  *)
TypeOK ==
  /\ DOMAIN disk \subseteq Files
  /\ \A f \in DOMAIN disk : disk[f] \in 0 .. MaxGenesis + MaxVersion
  /\ version \in 0 .. MaxVersion /\ made \in 0 .. MaxGenesis
  /\ unit \subseteq Services /\ todo \subseteq Services
  /\ config \in [Services -> 0 .. MaxGenesis] /\ running \in [Services -> 0 .. MaxGenesis]
  /\ step \in 0 .. Len(Order)
  /\ (doing = "bootstrap") = (step > 0)

Unhurt == ~torn /\ ~stray /\ doing # "destroy"

Finished == doing = "idle" /\ Has("c-started") /\ Named = version

(* A stamp is true of the hosts: whichever run was killed or play failed   *)
(* and however often the command was run, a stage that later runs will     *)
(* skip has had its effect for this chain on these machines (guardFile     *)
(* creates the file last, and the name changes only after every stamp of   *)
(* the old chain is gone).  When the bootstrap is done, every service on   *)
(* every host runs for the one chain: what the end of bootstrap-cosmos     *)
(* tells the operator.  Two failures are excepted (Unhurt): a stop that    *)
(* failed on a service that runs, which main.js l.337-344 overlooks, and a *)
(* destroy that was cut short and not repeated.                            *)
StampsTrue ==
  Unhurt /\ Named = version =>
    /\ Has("genesis") => Content("genesis") = config[ChainOf(First)]
    /\ Has("installed") => \A s \in Chains : config[s] = Content("genesis")
    /\ Has("service") => Chains \subseteq unit
    /\ Has("started") => \A s \in Chains : running[s] = Content("genesis")
    /\ Has("gci") => Content("gci") = Content("genesis")
    /\ Has("c-installed") => config[Solo] = Content("gci") /\ config[Pserver] = Content("gci")
    /\ Has("solo-started") => running[Solo] = Content("gci")
    /\ Has("c-started") => running[Pserver] = Content("gci")
    /\ Finished => /\ Content("genesis") # 0
                   /\ \A s \in Services : running[s] = Content("genesis")

(* "Stop all the services." (main.js l.336): when the state of the old     *)
(* chain is removed, none of them runs on it.                              *)
StopsAll ==
  doing = "bootstrap" /\ Stage(step) = "wipe" => \A s \in Services : running[s] = 0

(* README.md, Bootstrapping: a failed bootstrap can be run again and picks *)
(* up where it left off.  Once nothing fails any more, it gets to the end, *)
(* but for what the two failures that StampsTrue excepts may have left.    *)
Finishes == []<>(Finished \/ torn \/ stray)
=============================================================================
