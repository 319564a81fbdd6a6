----------------------------- MODULE SetupProofs -----------------------------
(***************************************************************************)
(* Theorems about how a network comes up: the bootstrap of a testnet       *)
(* (Setup), for any set of nodes and any number of versions, failures and  *)
(* destroys, and the start of its vats (Bootstrap), for any clients and    *)
(* command lines.                                                          *)
(***************************************************************************)
EXTENDS MCSetup, SequenceTheorems, TLAPS

mcVars == <<vars, vatVars, part>>

\* A step of the whole is a step of each part or leaves it alone.
LEMMA EachPart ==
    ASSUME [MCNext]_mcVars
    PROVE  [Next]_vars /\ [Vats!Next]_vatVars
BY DEF MCNext, mcVars

-----------------------------------------------------------------------------
(* The stages. *)

\* The stages one after the other.
LEMMA OrderIs ==
    /\ DOMAIN Order = 1..27 /\ Len(Order) = 27
    /\ Order[1] = "hosts" /\ Order[2] = "known_hosts" /\ Order[3] = "machines"
    /\ Order[4] = "compare" /\ Order[5] = "stop-pserver" /\ Order[6] = "stop-solo"
    /\ Order[7] = "stop-chain" /\ Order[8] = "wipe" /\ Order[9] = "chain-name"
    /\ Order[10] = "c-prepared" /\ Order[11] = "prepared" /\ Order[12] = "genesis"
    /\ Order[13] = "peers" /\ Order[14] = "installed" /\ Order[15] = "service"
    /\ Order[16] = "started" /\ Order[17] = "waited" /\ Order[18] = "validators"
    /\ Order[19] = "config" /\ Order[20] = "gci" /\ Order[21] = "rpcaddrs"
    /\ Order[22] = "c-installed" /\ Order[23] = "solo-service" /\ Order[24] = "solo-started"
    /\ Order[25] = "pubkeys" /\ Order[26] = "c-service" /\ Order[27] = "c-started"
BY DEF Order

-----------------------------------------------------------------------------
(* The invariant of the bootstrap. *)

\* The files of all stages before stage k are there.
Done(k) == \A j \in 1..k-1 : Order[j] \in Files => Has(Order[j])

SetupTypes ==
    /\ DOMAIN disk \subseteq Files
    /\ \A f \in DOMAIN disk :
         disk[f] \in (IF f = "chain-name" THEN 0..MaxVersion ELSE 0..MaxGenesis)
    /\ version \in 0..MaxVersion /\ made \in 0..MaxGenesis
    /\ unit \subseteq Services
    /\ config \in [Services -> 0..MaxGenesis] /\ running \in [Services -> 0..MaxGenesis]
    /\ step \in 0..27 /\ doing \in {"idle", "bootstrap", "destroy"}
    /\ (doing = "bootstrap") <=> (step # 0)
    /\ step \in 1..4 /\ bump => version < MaxVersion
    /\ todo \subseteq (IF step = 0 THEN {} ELSE Targets(Order[step]))

\* A bootstrap is at a stage when the files of all earlier ones are there, and
\* past the name of the chain when the directory is that chain's.
StageInv ==
    /\ Named <= version
    /\ step # 0 => Done(step)
    /\ step \in 5..8 => Named # version
    /\ step = 9 /\ Has("chain-name") => Named = version
    /\ step = 9 /\ ~Has("chain-name") => DOMAIN disk \subseteq ProvisionDir
    /\ step > 9 => Named = version

\* On the way to a new name the services are stopped one play after the other.
StopInv ==
    ~stray =>
        /\ (step = 5 /\ Pserver \notin todo) \/ step \in 6..8 => running[Pserver] = 0
        /\ (step = 6 /\ Solo \notin todo) \/ step \in 7..8 => running[Solo] = 0
        /\ \A s \in Chains :
             (step = 7 /\ s \notin todo) \/ step = 8 => running[s] = 0
        /\ step = 9 /\ ~Has("chain-name") => \A s \in Services : running[s] = 0

\* The effect of a stage on a service.
Reached(name, s) ==
    CASE name = "prepared" -> s = ChainOf(First) => config[s] # 0
      [] name = "installed" -> config[s] = Content("genesis")
      [] name = "c-installed" -> config[s] = Content("genesis")
      [] name \in {"service", "solo-service", "c-service"} -> s \in unit
      [] name \in {"started", "solo-started", "c-started"} -> running[s] = config[s]
      [] OTHER -> TRUE

\* The stage that installs the unit of a service.
UnitStage(s) == IF s = Solo THEN "solo-service"
                ELSE IF s = Pserver THEN "c-service" ELSE "service"

\* What the files say of the hosts, under the name of the chain.
HostsInv ==
    Unhurt /\ Named = version =>
        /\ \A k \in 9..27 : Has(Order[k]) => Done(k)
        /\ \A k \in 9..27 : Has(Order[k]) =>
             \A s \in Targets(Order[k]) : Reached(Order[k], s)
        /\ step > 9 => \A s \in Targets(Order[step]) \ todo : Reached(Order[step], s)
        /\ Has("genesis") => Content("genesis") = config[ChainOf(First)] /\ Content("genesis") # 0
        /\ Has("gci") => Content("gci") = Content("genesis")
        /\ Has("config") => Content("config") = Content("genesis")
        /\ \A s \in Services : running[s] # 0 => Has(UnitStage(s)) /\ running[s] = config[s]

SetupInv == SetupTypes /\ StageInv /\ StopInv /\ HostsInv

-----------------------------------------------------------------------------
(* The stages and what they touch. *)

\* The stages that the invariant names have one place each.
LEMMA Places ==
    ASSUME NEW k \in 1..27
    PROVE  /\ Order[k] = "hosts" <=> k = 1
           /\ Order[k] = "compare" <=> k = 4
           /\ Order[k] = "stop-pserver" <=> k = 5
           /\ Order[k] = "stop-solo" <=> k = 6
           /\ Order[k] = "stop-chain" <=> k = 7
           /\ Order[k] = "wipe" <=> k = 8
           /\ Order[k] = "chain-name" <=> k = 9
           /\ Order[k] = "c-prepared" <=> k = 10
           /\ Order[k] = "prepared" <=> k = 11
           /\ Order[k] = "genesis" <=> k = 12
           /\ Order[k] = "installed" <=> k = 14
           /\ Order[k] = "service" <=> k = 15
           /\ Order[k] = "started" <=> k = 16
           /\ Order[k] = "config" <=> k = 19
           /\ Order[k] = "gci" <=> k = 20
           /\ Order[k] = "c-installed" <=> k = 22
           /\ Order[k] = "solo-service" <=> k = 23
           /\ Order[k] = "solo-started" <=> k = 24
           /\ Order[k] = "c-service" <=> k = 26
           /\ Order[k] = "c-started" <=> k = 27
BY OrderIs

\* No two places have the same stage.
LEMMA PlacesDiffer ==
    ASSUME NEW j \in 1..27, NEW k \in 1..27, Order[j] = Order[k]
    PROVE  j = k
BY OrderIs

\* Which stages leave a file, and in which directory.
LEMMA FilesAre ==
    ASSUME NEW k \in 1..27
    PROVE  /\ Order[k] \in Files <=> k \in (1..3 \cup 9..27) \ {17}
           /\ Order[k] \in ProvisionDir <=> k \in 1..3
BY OrderIs DEF Files, ProvisionDir, CosmosDir, ControllerDir

\* The stages of a bootstrap are the elements of Order.
LEMMA StageIs ==
    ASSUME NEW k \in Int
    PROVE  /\ k \in 1..27 => Stage(k) = Order[k]
           /\ k \notin 1..27 => Stage(k) = "none"
           /\ IndexOfStage("chain-name") = 9
<1>1. 9 \in DOMAIN Order /\ Order[9] = "chain-name"  BY OrderIs
<1>2. \A j \in DOMAIN Order : Order[j] = "chain-name" => j = 9  BY OrderIs, Places
<1>3. IndexOfStage("chain-name") = 9  BY <1>1, <1>2 DEF IndexOfStage
<1> QED  BY <1>3, OrderIs DEF Stage

\* The command goes to stage k, or is over.
LEMMA GoesTo ==
    ASSUME NEW k \in Int, Goto(k)
    PROVE  /\ k \in 1..27 => doing' = "bootstrap" /\ step' = k /\ todo' = Targets(Order[k])
           /\ k \notin 1..27 => doing' = "idle" /\ step' = 0 /\ todo' = {}
BY StageIs, OrderIs DEF Goto

\* The services of a network are its chains, one solo and one provisioning server.
LEMMA ServicesAre ==
    /\ Solo \notin Chains /\ Pserver \notin Chains /\ Solo # Pserver
    /\ ChainOf(First) \in Chains
    /\ Services = Chains \cup {Solo, Pserver}
BY FirstIsNode DEF Solo, Pserver, Chains, ChainOf, Services

\* The services that the stages work on.
LEMMA TargetsAre ==
    ASSUME NEW k \in 1..27
    PROVE  /\ k \in {7, 11, 14, 15, 16} => Targets(Order[k]) = Chains
           /\ k \in {6, 10, 23, 24} => Targets(Order[k]) = {Solo}
           /\ k \in {5, 26, 27} => Targets(Order[k]) = {Pserver}
           /\ k = 22 => Targets(Order[k]) = {Solo, Pserver}
           /\ k \notin {5, 6, 7, 10, 11, 14, 15, 16, 22, 23, 24, 26, 27} => Targets(Order[k]) = {}
           /\ Targets(Order[k]) \subseteq Services
BY Places, ServicesAre DEF Targets

\* The effect of a stage, by its place.
LEMMA ReachedAt ==
    ASSUME NEW k \in 1..27, NEW s
    PROVE  /\ k = 11 => (Reached(Order[k], s) <=> (s = ChainOf(First) => config[s] # 0))
           /\ k \in {14, 22} => (Reached(Order[k], s) <=> config[s] = Content("genesis"))
           /\ k \in {15, 23, 26} => (Reached(Order[k], s) <=> s \in unit)
           /\ k \in {16, 24, 27} => (Reached(Order[k], s) <=> running[s] = config[s])
           /\ k \notin {11, 14, 15, 16, 22, 23, 24, 26, 27} => Reached(Order[k], s)
BY Places DEF Reached

\* The same after a step.
LEMMA ReachedNext ==
    ASSUME NEW k \in 1..27, NEW s
    PROVE  /\ k = 11 => (Reached(Order[k], s)' <=> (s = ChainOf(First) => config'[s] # 0))
           /\ k \in {14, 22} => (Reached(Order[k], s)' <=> config'[s] = Content("genesis")')
           /\ k \in {15, 23, 26} => (Reached(Order[k], s)' <=> s \in unit')
           /\ k \in {16, 24, 27} => (Reached(Order[k], s)' <=> running'[s] = config'[s])
           /\ k \notin {11, 14, 15, 16, 22, 23, 24, 26, 27} => Reached(Order[k], s)'
BY Places DEF Reached

-----------------------------------------------------------------------------
(* What only moves the command on. *)

\* A command that goes to another stage and leaves files, names and hosts alone.
LEMMA MovesOn ==
    ASSUME SetupInv, NEW k \in 1..28, Goto(k), k <= 27 => Done(k),
           UNCHANGED <<disk, version, machines, torn>>, k \notin 5..8,
           k >= 9 => Has("chain-name") /\ Named = version, stray => stray', doing # "destroy",
           k \in 1..4 /\ bump' => version < MaxVersion
    PROVE  SetupInv'
<1>1. /\ k \in 1..27 => doing' = "bootstrap" /\ step' = k /\ todo' = Targets(Order[k])
      /\ k \notin 1..27 => doing' = "idle" /\ step' = 0 /\ todo' = {}
  BY GoesTo
<1>2. /\ disk' = disk /\ version' = version /\ unit' = unit /\ config' = config
      /\ running' = running /\ made' = made /\ torn' = torn
  BY DEF machines
<1>3. Named' = Named /\ \A f : Has(f)' <=> Has(f)  BY <1>2 DEF Named, Has
<1>4. \A f : Content(f)' = Content(f)  BY <1>2 DEF Content, Has
<1>5. SetupTypes'  BY <1>1, <1>2 DEF SetupInv, SetupTypes
<1>6. StageInv'
  BY <1>1, <1>2, <1>3 DEF SetupInv, StageInv, Done
<1>7. StopInv'
  BY <1>1, <1>2, <1>3 DEF SetupInv, StopInv
<1>8. HostsInv'
  <2> SUFFICES ASSUME Unhurt', (Named = version)'
               PROVE  HostsInv'
    BY DEF HostsInv
  <2>1. Unhurt /\ Named = version  BY <1>1, <1>2, <1>3 DEF Unhurt
  <2>2. \A j, s : Reached(Order[j], s)' <=> Reached(Order[j], s)
    BY <1>2, <1>4 DEF Reached
  <2>3. \A j : Done(j)' <=> Done(j)  BY <1>3 DEF Done
  <2>4. step' > 9 => (Targets(Order[step]) \ todo)' = {}  BY <1>1
  <2> QED
    BY <1>1, <1>2, <1>3, <1>4, <2>1, <2>2, <2>3, <2>4 DEF SetupInv, HostsInv
<1> QED  BY <1>5, <1>6, <1>7, <1>8 DEF SetupInv

\* A command that ends where it is and leaves files, names and hosts alone.
LEMMA Ends ==
    ASSUME SetupInv, Stop, UNCHANGED <<disk, version, machines>>,
           doing = "destroy" => torn', torn => torn', stray => stray'
    PROVE  SetupInv'
<1>1. doing' = "idle" /\ step' = 0 /\ todo' = {}  BY DEF Stop
<1>2. /\ disk' = disk /\ version' = version /\ unit' = unit /\ config' = config
      /\ running' = running /\ made' = made
  BY DEF machines
<1>3. Named' = Named /\ \A f : Has(f)' <=> Has(f)  BY <1>2 DEF Named, Has
<1>4. \A f : Content(f)' = Content(f)  BY <1>2 DEF Content, Has
<1>5. SetupTypes'  BY <1>1, <1>2 DEF SetupInv, SetupTypes
<1>6. StageInv'
  BY <1>1, <1>2, <1>3 DEF SetupInv, StageInv
<1>7. StopInv'
  BY <1>1 DEF StopInv
<1>8. HostsInv'
  <2> SUFFICES ASSUME Unhurt', (Named = version)'
               PROVE  HostsInv'
    BY DEF HostsInv
  <2>1. Unhurt /\ Named = version  BY <1>1, <1>2, <1>3 DEF Unhurt
  <2>2. \A j, s : Reached(Order[j], s)' <=> Reached(Order[j], s)
    BY <1>2, <1>4 DEF Reached
  <2>3. \A j : Done(j)' <=> Done(j)  BY <1>3 DEF Done
  <2> QED
    BY <1>1, <1>2, <1>3, <1>4, <2>1, <2>2, <2>3, SMTT(30) DEF SetupInv, HostsInv
<1> QED  BY <1>5, <1>6, <1>7, <1>8 DEF SetupInv

-----------------------------------------------------------------------------
(* The invariant is kept, one action after the other. *)

\* A bootstrap begins with the first stage.
LEMMA BootstrapKeeps ==
    ASSUME SetupInv, NEW b \in BOOLEAN, Bootstrap(b)
    PROVE  SetupInv'
<1>1. Goto(1) /\ UNCHANGED <<disk, version, machines, torn>> /\ stray' = stray /\ doing = "idle"
  BY DEF Bootstrap
<1>2. Done(1)  BY DEF Done
<1>3. bump' => version < MaxVersion  BY DEF Bootstrap
<1> QED  BY <1>1, <1>2, <1>3, MovesOn

\* A stage that is stamped is passed over.
LEMMA SkipKeeps ==
    ASSUME SetupInv, Skip
    PROVE  SetupInv'
<1>1. /\ Goto(step + 1) /\ UNCHANGED <<disk, version, machines, torn>> /\ stray' = stray
      /\ doing = "bootstrap" /\ Has(Stage(step))
  BY DEF Skip
<1>2. step \in 1..27  BY <1>1 DEF SetupInv, SetupTypes
<1>3. Has(Order[step])  BY <1>1, <1>2, StageIs
<1>4. Order[step] \in Files  BY <1>3 DEF Has, SetupInv, SetupTypes
<1>5. step \in 1..3 \cup 9..27  BY <1>2, <1>4, FilesAre
<1>6. Done(step + 1)  BY <1>2, <1>3 DEF SetupInv, StageInv, Done
<1>7. step >= 9 => Has("chain-name") /\ Named = version
  <2>1. CASE step = 9  BY <1>3, <2>1, Places, OrderIs DEF SetupInv, StageInv
  <2>2. CASE step > 9
    <3>1. Order[9] = "chain-name" /\ Order[9] \in Files  BY OrderIs, FilesAre
    <3> QED  BY <2>2, <3>1, <1>2 DEF SetupInv, StageInv, Done
  <2> QED  BY <2>1, <2>2, <1>2
<1>8. step + 1 \in 1..28 /\ step + 1 \notin 5..8 /\ (step + 1 >= 9 => step >= 9)  BY <1>2, <1>5
<1>9. step + 1 \in 1..4 /\ bump' => version < MaxVersion
  BY <1>2 DEF Skip, SetupInv, SetupTypes
<1> QED  BY <1>1, <1>6, <1>7, <1>8, <1>9, MovesOn

\* A name that is the chain's is passed over, another one is removed, once what
\* runs under it was stopped.
LEMMA CompareKeeps ==
    ASSUME SetupInv, Compare
    PROVE  SetupInv'
<1>1. /\ doing = "bootstrap" /\ Stage(step) = "compare"
      /\ version' = IF bump THEN version + 1 ELSE version
      /\ UNCHANGED <<disk, machines, torn, stray>>
      /\ Goto(IF Named # version' THEN step + 1 ELSE IndexOfStage("chain-name"))
  BY DEF Compare, Bumped, Differs
<1>2. step = 4
  <2>1. step \in 1..27  BY <1>1 DEF SetupInv, SetupTypes
  <2> QED  BY <1>1, <2>1, StageIs, Places
<1>3. Done(4)  BY <1>2 DEF SetupInv, StageInv
<1>4. CASE Named = version'
  <2>1. version' = version /\ Named = version
    BY <1>1, <1>4 DEF SetupInv, SetupTypes, StageInv
  <2>2. Goto(9)  BY <1>1, <1>4, StageIs
  <2>3. Has("chain-name")  BY <2>1 DEF Named, SetupInv, SetupTypes
  <2>4. Done(9)  BY <1>3, FilesAre, Places DEF Done
  <2> QED  BY <1>1, <2>1, <2>2, <2>3, <2>4, MovesOn
<1>5. CASE Named # version'
  <2>1. Goto(5)  BY <1>1, <1>2, <1>5
  <2>2. doing' = "bootstrap" /\ step' = 5 /\ todo' = {Pserver}
    BY <2>1, GoesTo, TargetsAre
  <2>3. /\ disk' = disk /\ unit' = unit /\ config' = config
        /\ running' = running /\ made' = made
    BY <1>1 DEF machines
  <2>4. Named' = Named /\ \A f : Has(f)' <=> Has(f)  BY <2>3 DEF Named, Has
  <2>5. SetupTypes'
    <3>1. version' \in 0..MaxVersion
      BY <1>1, <1>2, BoundsAssumption DEF SetupInv, SetupTypes
    <3> QED  BY <2>2, <2>3, <3>1, TargetsAre DEF SetupInv, SetupTypes
  <2>6. StageInv'
    <3>1. Done(5)'  BY <1>3, <2>4, FilesAre DEF Done
    <3>2. Named' <= version'
      BY <1>1, <2>4 DEF SetupInv, SetupTypes, StageInv, Named, Has
    <3> QED  BY <1>5, <2>2, <2>4, <3>1, <3>2 DEF StageInv
  <2>7. StopInv'  BY <2>2 DEF StopInv
  <2>8. HostsInv'  BY <1>5, <2>4 DEF HostsInv
  <2> QED  BY <2>5, <2>6, <2>7, <2>8 DEF SetupInv
<1> QED  BY <1>4, <1>5

\* A stop whose play fails, or that has nothing to stop.
LEMMA StopFailsKeeps ==
    ASSUME SetupInv, NEW s \in Services, StopFails(s)
    PROVE  SetupInv'
<1>1. /\ doing = "bootstrap" /\ Stage(step) \in Stops /\ s \in todo
      /\ stray' = (stray \/ running[s] # 0)
      /\ todo' = todo \ {s}
      /\ UNCHANGED <<disk, version, machines, doing, step, bump, torn>>
  BY DEF StopFails
<1>2. step \in 5..7
  <2>1. step \in 1..27  BY <1>1 DEF SetupInv, SetupTypes
  <2> QED  BY <1>1, <2>1, StageIs, Places DEF Stops
<1>3. /\ disk' = disk /\ unit' = unit /\ config' = config
      /\ running' = running /\ made' = made
  BY <1>1 DEF machines
<1>4. Named' = Named /\ \A f : Has(f)' <=> Has(f)  BY <1>3 DEF Named, Has
<1>5. SetupTypes'  BY <1>1, <1>3 DEF SetupInv, SetupTypes
<1>6. StageInv'  BY <1>1, <1>2, <1>4 DEF SetupInv, StageInv, Done
<1>7. StopInv'
  <2> SUFFICES ASSUME ~stray'
               PROVE  StopInv'
    BY DEF StopInv
  <2>1. ~stray /\ running[s] = 0  BY <1>1, Zenon
  <2> QED  BY <1>1, <1>2, <1>3, <2>1 DEF SetupInv, StopInv
<1>8. HostsInv'  BY <1>1, <1>2, <1>4 DEF HostsInv, SetupInv, StageInv
<1> QED  BY <1>5, <1>6, <1>7, <1>8 DEF SetupInv

\* A service is stopped.
LEMMA StopServiceKeeps ==
    ASSUME SetupInv, NEW s \in Services, StopService(s)
    PROVE  SetupInv'
<1>1. /\ doing = "bootstrap" /\ Stage(step) \in Stops /\ s \in todo
      /\ running' = [running EXCEPT ![s] = 0]
      /\ todo' = todo \ {s}
      /\ UNCHANGED <<disk, version, unit, config, made, doing, step, bump, torn, stray>>
  BY DEF StopService
<1>2. step \in 5..7
  <2>1. step \in 1..27  BY <1>1 DEF SetupInv, SetupTypes
  <2> QED  BY <1>1, <2>1, StageIs, Places DEF Stops
<1>3. \A t \in Services : running'[t] = IF t = s THEN 0 ELSE running[t]
  BY <1>1 DEF SetupInv, SetupTypes
<1>4. Named' = Named /\ \A f : Has(f)' <=> Has(f)  BY <1>1 DEF Named, Has
<1>5. SetupTypes'
  <2>1. 0 \in 0..MaxGenesis  BY BoundsAssumption
  <2> QED  BY <1>1, <2>1 DEF SetupInv, SetupTypes
<1>6. StageInv'  BY <1>1, <1>2, <1>4 DEF SetupInv, StageInv, Done
<1>7. StopInv'
  BY <1>1, <1>2, <1>3, ServicesAre DEF SetupInv, StopInv
<1>8. HostsInv'  BY <1>1, <1>2, <1>4 DEF HostsInv, SetupInv, StageInv
<1> QED  BY <1>5, <1>6, <1>7, <1>8 DEF SetupInv

\* A play or a command that fails ends the command.
LEMMA FailKeeps ==
    ASSUME SetupInv, Fail
    PROVE  SetupInv'
BY Ends DEF Fail

\* The machines are given back before the files are removed.
LEMMA DestroyKeeps ==
    ASSUME SetupInv, Destroy
    PROVE  SetupInv'
<1>1. /\ doing = "idle" /\ doing' = "destroy"
      /\ unit' = {} /\ config' = [s \in Services |-> 0] /\ running' = [s \in Services |-> 0]
      /\ UNCHANGED <<disk, version, step, todo, bump, made, torn, stray>>
  BY DEF Destroy
<1>2. step = 0  BY <1>1 DEF SetupInv, SetupTypes
<1>3. Named' = Named  BY <1>1 DEF Named, Has
<1>4. SetupTypes'  BY <1>1, <1>2, BoundsAssumption DEF SetupInv, SetupTypes
<1>5. StageInv'  BY <1>1, <1>2, <1>3 DEF SetupInv, StageInv
<1>6. StopInv'  BY <1>1, <1>2 DEF StopInv
<1>7. HostsInv'  BY <1>1 DEF HostsInv, Unhurt
<1> QED  BY <1>4, <1>5, <1>6, <1>7 DEF SetupInv

\* A file is removed while the directory has not the name of the chain, or by a
\* destroy.
LEMMA RemoveFileKeeps ==
    ASSUME SetupInv, NEW f \in Files, RemoveFile(f)
    PROVE  SetupInv'
<1>1. /\ doing = "destroy" \/ (doing = "bootstrap" /\ Stage(step) = "wipe")
      /\ \E i \in DOMAIN Condemned : f \in Condemned[i]
      /\ disk' = [g \in DOMAIN disk \ {f} |-> disk[g]]
      /\ UNCHANGED <<version, machines, run, torn, stray>>
  BY DEF RemoveFile, Wiping, Left
<1>2. doing = "bootstrap" => step = 8
  <2>1. doing = "bootstrap" => step \in 1..27  BY DEF SetupInv, SetupTypes
  <2> QED  BY <1>1, <2>1, StageIs, Places
<1>3. /\ unit' = unit /\ config' = config /\ running' = running /\ made' = made
      /\ doing' = doing /\ step' = step /\ todo' = todo /\ bump' = bump
      /\ torn' = torn /\ stray' = stray /\ version' = version
  BY <1>1 DEF machines, run
<1>4. Named' \in {-1, Named}  BY <1>1 DEF Named, Has
<1>5. \A g : g # f => (Has(g)' <=> Has(g))  BY <1>1 DEF Has
<1>6. doing = "bootstrap" => f \notin ProvisionDir
  <2>1. doing = "bootstrap" => f \in ControllerDir \cup CosmosDir
    BY <1>1 DEF Condemned
  <2> QED  BY <2>1 DEF ControllerDir, CosmosDir, ProvisionDir
<1>7. doing # "bootstrap" => step = 0  BY DEF SetupInv, SetupTypes
<1>8. SetupTypes'  BY <1>1, <1>3 DEF SetupInv, SetupTypes
<1>9. StageInv'
  <2>1. doing = "bootstrap" => \A j \in 1..7 : Order[j] \in Files => Has(Order[j])'
    BY <1>2, <1>5, <1>6, FilesAre DEF SetupInv, StageInv, Done
  <2>2. Named' <= version' /\ (step = 8 => Named' # version')
    BY <1>3, <1>4 DEF SetupInv, SetupTypes, StageInv
  <2> QED  BY <1>2, <1>3, <1>7, <2>1, <2>2 DEF StageInv, Done
<1>10. StopInv'  BY <1>2, <1>3, <1>7 DEF SetupInv, StopInv
<1>11. HostsInv'
  <2>1. CASE doing = "bootstrap"
    <3>1. Named' # version'  BY <1>2, <1>3, <1>4, <2>1 DEF SetupInv, SetupTypes, StageInv
    <3> QED  BY <3>1 DEF HostsInv
  <2>2. CASE doing = "destroy"  BY <1>3, <2>2 DEF HostsInv, Unhurt
  <2> QED  BY <1>1, <2>1, <2>2
<1> QED  BY <1>8, <1>9, <1>10, <1>11 DEF SetupInv

\* The removal of files is over.
LEMMA WipedKeeps ==
    ASSUME SetupInv, Wiped
    PROVE  SetupInv'
<1>1. /\ doing = "destroy" \/ (doing = "bootstrap" /\ Stage(step) = "wipe")
      /\ \A i \in DOMAIN Condemned : Condemned[i] \cap DOMAIN disk = {}
      /\ IF doing = "destroy" THEN Stop /\ torn' = FALSE /\ stray' = FALSE
                              ELSE Goto(step + 1) /\ UNCHANGED <<torn, stray>>
      /\ UNCHANGED <<disk, version, machines, bump>>
  BY DEF Wiped, Wiping, Left
<1>2. /\ unit' = unit /\ config' = config /\ running' = running /\ made' = made
      /\ disk' = disk /\ version' = version /\ bump' = bump
  BY <1>1 DEF machines
<1>3. (ControllerDir \cup CosmosDir) \cap DOMAIN disk = {}
  BY <1>1 DEF Condemned
<1>4. ~Has("chain-name") /\ Named = -1
  BY <1>3 DEF Has, Named, CosmosDir
<1>5. Named' = Named /\ \A f : Has(f)' <=> Has(f)  BY <1>2 DEF Named, Has
<1>6. version \in Nat  BY BoundsAssumption DEF SetupInv, SetupTypes
<1>7. HostsInv'  BY <1>2, <1>4, <1>5, <1>6 DEF HostsInv
<1>8. CASE doing = "destroy"
  <2>1. doing' = "idle" /\ step' = 0 /\ todo' = {}  BY <1>1, <1>8 DEF Stop
  <2>2. SetupTypes'  BY <1>2, <2>1 DEF SetupInv, SetupTypes
  <2>3. StageInv'  BY <1>2, <1>4, <1>5, <1>6, <2>1 DEF StageInv
  <2>4. StopInv'  BY <2>1 DEF StopInv
  <2> QED  BY <1>7, <2>2, <2>3, <2>4 DEF SetupInv
<1>9. CASE doing = "bootstrap"
  <2>1. step = 8
    <3>1. step \in 1..27  BY <1>9 DEF SetupInv, SetupTypes
    <3> QED  BY <1>1, <1>9, <3>1, StageIs, Places
  <2>2. Goto(9) /\ torn' = torn /\ stray' = stray  BY <1>1, <1>9, <2>1
  <2>3. doing' = "bootstrap" /\ step' = 9 /\ todo' = {}  BY <2>2, GoesTo, TargetsAre
  <2>4. SetupTypes'  BY <1>2, <2>3, TargetsAre DEF SetupInv, SetupTypes
  <2>5. StageInv'
    <3>1. Done(9)'  BY <1>5, <2>1, FilesAre DEF Done, SetupInv, StageInv
    <3>2. DOMAIN disk' \subseteq ProvisionDir
      BY <1>2, <1>3 DEF SetupInv, SetupTypes, Files
    <3> QED  BY <1>2, <1>4, <1>5, <1>6, <2>3, <3>1, <3>2 DEF StageInv
  <2>6. StopInv'
    BY <1>2, <2>1, <2>2, <2>3, ServicesAre DEF StopInv, SetupInv
  <2> QED  BY <1>7, <2>4, <2>5, <2>6 DEF SetupInv
<1> QED  BY <1>1, <1>8, <1>9

\* A stage whose file is missing has no effect yet that a later file could speak of.
LEMMA LaterMissing ==
    ASSUME SetupInv, Unhurt, Named = version, NEW k \in 9..27,
           Order[k] \in Files, ~Has(Order[k])
    PROVE  \A j \in k..27 : ~Has(Order[j])
BY DEF SetupInv, HostsInv, Done

\* The stages of bootstrap-cosmos and their services, while a play of one runs.
LEMMA PlayAt ==
    ASSUME SetupInv, NEW s \in Services, Play(s)
    PROVE  /\ step \in {10, 11, 14, 15, 16, 22, 23, 24, 26, 27}
           /\ s \in todo /\ s \in Targets(Order[step]) /\ Order[step] \in Files
           /\ Done(step) /\ Named = version /\ ~Has(Order[step])
           /\ step \in {10, 11} => Prepare(s)
           /\ step \in {14, 22} => Install(s)
           /\ step \in {15, 23, 26} => InstallUnit(s)
           /\ step \in {16, 24, 27} => StartService(s)
           /\ step = 11 /\ s = ChainOf(First) => made < MaxGenesis
           /\ todo' = todo \ {s}
           /\ disk' = disk /\ version' = version /\ doing' = doing /\ step' = step
           /\ bump' = bump /\ torn' = torn /\ stray' = stray
<1>1. step \in 1..27  BY DEF Play, SetupInv, SetupTypes
<1>2. Stage(step) = Order[step]  BY <1>1, StageIs
<1>3. /\ Effect(Order[step], s) /\ s \in todo /\ ~Has(Order[step])
      /\ Order[step] = "prepared" /\ s = ChainOf(First) => made < MaxGenesis
      /\ todo' = todo \ {s}
      /\ disk' = disk /\ version' = version /\ doing' = doing /\ step' = step
      /\ bump' = bump /\ torn' = torn /\ stray' = stray
  BY <1>2 DEF Play
<1>4. step \in {10, 11, 14, 15, 16, 22, 23, 24, 26, 27}
  BY <1>1, <1>3, Places DEF Effect
<1>5. /\ step \in {10, 11} => Prepare(s)
      /\ step \in {14, 22} => Install(s)
      /\ step \in {15, 23, 26} => InstallUnit(s)
      /\ step \in {16, 24, 27} => StartService(s)
  BY <1>1, <1>3, Places DEF Effect
<1>6. s \in Targets(Order[step]) /\ Done(step) /\ Named = version
  BY <1>3, <1>4 DEF SetupInv, SetupTypes, StageInv
<1>7. Order[step] \in Files  BY <1>4, FilesAre
<1> QED  BY <1>3, <1>4, <1>5, <1>6, <1>7, Places

\* A play keeps the types.
LEMMA PlayTypes ==
    ASSUME SetupInv, NEW s \in Services, Play(s)
    PROVE  SetupTypes'
<1>1. /\ step \in {10, 11, 14, 15, 16, 22, 23, 24, 26, 27}
      /\ s \in Targets(Order[step])
      /\ step \in {10, 11} => Prepare(s)
      /\ step \in {14, 22} => Install(s)
      /\ step \in {15, 23, 26} => InstallUnit(s)
      /\ step \in {16, 24, 27} => StartService(s)
      /\ step = 11 /\ s = ChainOf(First) => made < MaxGenesis
      /\ todo' = todo \ {s}
      /\ disk' = disk /\ version' = version /\ doing' = doing /\ step' = step
      /\ bump' = bump
  BY PlayAt
<1>2. SetupTypes  BY DEF SetupInv
<1>3. \A f : f # "chain-name" => Content(f) \in 0..MaxGenesis
  BY <1>2, BoundsAssumption DEF SetupTypes, Content, Has
<1>4. unit' \subseteq Services /\ made' \in 0..MaxGenesis
      /\ config' \in [Services -> 0..MaxGenesis] /\ running' \in [Services -> 0..MaxGenesis]
  <2>1. CASE step \in {10, 11}
    <3>1. s = ChainOf(First) => step = 11  BY <1>1, <2>1, TargetsAre, ServicesAre
    <3>2. s = ChainOf(First) => made + 1 \in 0..MaxGenesis
      BY <1>1, <1>2, <3>1, BoundsAssumption DEF SetupTypes
    <3>3. /\ config' = [config EXCEPT ![s] = IF s = ChainOf(First) THEN made + 1 ELSE 0]
          /\ made' = (IF s = ChainOf(First) THEN made + 1 ELSE made)
          /\ unit' = unit /\ running' = running
      BY <1>1, <2>1 DEF Prepare
    <3> QED  BY <1>2, <3>2, <3>3, BoundsAssumption DEF SetupTypes
  <2>2. CASE step \in {14, 22}
    <3> DEFINE c == CASE s \in Chains -> Content("genesis")
                      [] s = Solo     -> Content("gci")
                      [] s = Pserver  -> Content("config")
    <3>1. config' = [config EXCEPT ![s] = c] /\ unit' = unit /\ running' = running /\ made' = made
      BY <1>1, <2>2 DEF Install
    <3>2. c \in 0..MaxGenesis  BY <1>3, ServicesAre
    <3> HIDE DEF c
    <3> QED  BY <1>2, <3>1, <3>2 DEF SetupTypes
  <2>3. CASE step \in {15, 23, 26}
    BY <1>1, <1>2, <2>3 DEF InstallUnit, SetupTypes
  <2>4. CASE step \in {16, 24, 27}
    BY <1>1, <1>2, <2>4 DEF StartService, SetupTypes
  <2> QED  BY <1>1, <2>1, <2>2, <2>3, <2>4
<1> QED  BY <1>1, <1>2, <1>4 DEF SetupTypes

\* What a play keeps of HostsInv, from its effect on the hosts: the stages before
\* keep theirs, its services that are done have it.
LEMMA PlayHosts ==
    ASSUME SetupInv, NEW s \in Services, Play(s), Unhurt
    PROVE  /\ \A k \in 9..step-1 : Has(Order[k]) =>
                \A t \in Targets(Order[k]) : Reached(Order[k], t)'
           /\ \A p \in {step} : \A t \in Targets(Order[p]) \ (todo \ {s}) : Reached(Order[p], t)'
           /\ Has("genesis") => Content("genesis") = config'[ChainOf(First)]
           /\ \A t \in Services :
                running'[t] # 0 => Has(UnitStage(t)) /\ running'[t] = config'[t]
           /\ config'[s] # config[s] => running[s] = 0
<1>1. /\ step \in {10, 11, 14, 15, 16, 22, 23, 24, 26, 27}
      /\ s \in Targets(Order[step]) /\ Order[step] \in Files
      /\ Done(step) /\ Named = version /\ ~Has(Order[step])
      /\ step \in {10, 11} => Prepare(s)
      /\ step \in {14, 22} => Install(s)
      /\ step \in {15, 23, 26} => InstallUnit(s)
      /\ step \in {16, 24, 27} => StartService(s)
      /\ disk' = disk
  BY PlayAt
<1>2. \A j \in step..27 : ~Has(Order[j])  BY <1>1, LaterMissing
<1>3. /\ config \in [Services -> 0..MaxGenesis] /\ running \in [Services -> 0..MaxGenesis]
      /\ unit \subseteq Services
      /\ made \in Nat
  BY DEF SetupInv, SetupTypes
<1>4. \A f : Content(f)' = Content(f)  BY <1>1 DEF Content, Has
<1>5. /\ \A k \in 9..27 : Has(Order[k]) =>
           \A t \in Targets(Order[k]) : Reached(Order[k], t)
      /\ \A t \in Targets(Order[step]) \ todo : Reached(Order[step], t)
      /\ Has("genesis") => Content("genesis") = config[ChainOf(First)] /\ Content("genesis") # 0
      /\ Has("gci") => Content("gci") = Content("genesis")
      /\ Has("config") => Content("config") = Content("genesis")
      /\ \A t \in Services : running[t] # 0 => Has(UnitStage(t)) /\ running[t] = config[t]
  BY <1>1 DEF SetupInv, HostsInv
<1>6. \A k \in 9..27 : Targets(Order[k]) \subseteq Services  BY TargetsAre
<1>7. /\ step > 12 => Has("genesis")
      /\ step > 15 => Has("service")
      /\ step > 19 => Has("config")
      /\ step > 20 => Has("gci")
      /\ step > 23 => Has("solo-service")
      /\ step > 26 => Has("c-service")
  <2>1. \A j \in {12, 15, 19, 20, 23, 26} : Order[j] \in Files  BY FilesAre
  <2> QED  BY <1>1, <2>1, OrderIs DEF Done
<1>8. /\ step <= 12 => ~Has("genesis")
      /\ step <= 15 => ~Has("service")
      /\ step <= 23 => ~Has("solo-service")
      /\ step <= 26 => ~Has("c-service")
  BY <1>1, <1>2, OrderIs
<1> PICK p \in 9..27 : p = step  BY <1>1
<1>9. CASE step \in {10, 11}
  <2>1. /\ config' = [config EXCEPT ![s] = IF s = ChainOf(First) THEN made + 1 ELSE 0]
        /\ unit' = unit /\ running' = running
    BY <1>1, <1>9 DEF Prepare
  <2>2. running[s] = 0
    BY <1>1, <1>5, <1>8, <1>9, TargetsAre, ServicesAre DEF UnitStage
  <2>3. \A k \in 9..step-1 : \A t : Reached(Order[k], t)'
    BY <1>9, ReachedNext
  <2>4. \A t \in Targets(Order[p]) \ (todo \ {s}) : Reached(Order[p], t)'
    <3>1. CASE step = 10  BY <3>1, ReachedNext
    <3>2. CASE step = 11
      <4> SUFFICES ASSUME ChainOf(First) \notin todo \ {s}
                   PROVE  config'[ChainOf(First)] # 0
        BY <3>2, ReachedNext
      <4>1. CASE s = ChainOf(First)
        <5>1. config'[s] = made + 1  BY <1>3, <2>1, <4>1
        <5> QED  BY <1>3, <4>1, <5>1
      <4>2. CASE s # ChainOf(First)
        <5>1. ChainOf(First) \in Targets(Order[step]) \ todo
          BY <3>2, <4>2, TargetsAre, ServicesAre
        <5>2. config[ChainOf(First)] # 0  BY <1>5, <3>2, <5>1, ReachedAt
        <5> QED  BY <1>3, <2>1, <4>2, <5>2, ServicesAre
      <4> QED  BY <4>1, <4>2
    <3> QED  BY <1>9, <3>1, <3>2
  <2>5. \A t \in Services : running'[t] # 0 => Has(UnitStage(t)) /\ running'[t] = config'[t]
    BY <1>3, <1>5, <2>1, <2>2
  <2>6. ~Has("genesis")  BY <1>8, <1>9
  <2> QED  BY <2>2, <2>3, <2>4, <2>5, <2>6
<1>10. CASE step \in {14, 22}
  <2>1. config' = [config EXCEPT ![s] = Content("genesis")] /\ unit' = unit /\ running' = running
    <3>1. step = 14 => s \in Chains  BY <1>1, TargetsAre
    <3>2. step = 22 => s \in {Solo, Pserver}  BY <1>1, TargetsAre
    <3> QED  BY <1>1, <1>5, <1>7, <1>10, <3>1, <3>2, ServicesAre DEF Install
  <2>2. running[s] = 0
    <3>1. step = 14 => s \in Chains  BY <1>1, TargetsAre
    <3>2. step = 22 => s \in {Solo, Pserver}  BY <1>1, TargetsAre
    <3> QED  BY <1>5, <1>8, <1>10, <3>1, <3>2, ServicesAre DEF UnitStage
  <2>3. \A t \in Services : config'[t] = IF t = s THEN Content("genesis") ELSE config[t]
    BY <1>3, <2>1
  <2>4. \A k \in 9..step-1 : Has(Order[k]) =>
           \A t \in Targets(Order[k]) : Reached(Order[k], t)'
    <3> SUFFICES ASSUME NEW k \in 9..step-1, Has(Order[k]), NEW t \in Targets(Order[k])
                 PROVE  Reached(Order[k], t)'
      OBVIOUS
    <3>1. k \in 1..27 /\ t \in Services /\ Reached(Order[k], t)
      BY <1>1, <1>5, <1>6
    <3>2. CASE k = 11
      <4>1. Content("genesis") # 0  BY <1>5, <1>7, <1>10
      <4> QED  BY <2>3, <3>1, <3>2, <4>1, ReachedAt, ReachedNext
    <3>3. CASE k \in {14, 15, 16}
      <4>1. t \in Chains /\ s \notin Chains
        BY <1>1, <1>10, <3>3, TargetsAre, ServicesAre
      <4>2. config'[t] = config[t]  BY <2>3, <3>1, <4>1
      <4>3. k = 14 => Reached(Order[k], t)'
        BY <1>4, <3>1, <4>2, ReachedAt, ReachedNext
      <4>4. k = 15 => Reached(Order[k], t)'
        BY <2>1, <3>1, ReachedAt, ReachedNext
      <4>5. k = 16 => Reached(Order[k], t)'
        BY <2>1, <3>1, <4>2, ReachedAt, ReachedNext
      <4> QED  BY <3>3, <4>3, <4>4, <4>5
    <3>4. CASE k \notin {11, 14, 15, 16}
      <4>1. k \notin {11, 14, 15, 16, 22, 23, 24, 26, 27}  BY <1>10, <3>4
      <4> QED  BY <3>1, <4>1, ReachedNext
    <3> QED  BY <3>2, <3>3, <3>4
  <2>5. \A t \in Targets(Order[p]) \ (todo \ {s}) : Reached(Order[p], t)'
    <3> SUFFICES ASSUME NEW t \in Targets(Order[p]) \ (todo \ {s})
                 PROVE  config'[t] = Content("genesis")
      BY <1>4, <1>10, ReachedNext
    <3>1. CASE t = s  BY <2>3, <3>1
    <3>2. CASE t # s
      <4>1. Reached(Order[step], t) /\ t \in Services  BY <1>1, <1>5, <1>6, <3>2
      <4> QED  BY <1>10, <2>3, <3>2, <4>1, ReachedAt
    <3> QED  BY <3>1, <3>2
  <2>6. Has("genesis") => Content("genesis") = config'[ChainOf(First)]
    BY <1>5, <2>3, ServicesAre
  <2>7. \A t \in Services : running'[t] # 0 => Has(UnitStage(t)) /\ running'[t] = config'[t]
    BY <1>5, <2>1, <2>2, <2>3
  <2> QED  BY <2>2, <2>4, <2>5, <2>6, <2>7
<1>11. CASE step \in {15, 23, 26}
  <2>1. unit' = unit \cup {s} /\ config' = config /\ running' = running
    BY <1>1, <1>11 DEF InstallUnit
  <2>2. \A k \in 1..27 : \A t : Reached(Order[k], t) => Reached(Order[k], t)'
    BY <1>4, <2>1 DEF Reached
  <2>3. \A t \in Targets(Order[p]) \ (todo \ {s}) : Reached(Order[p], t)'
    BY <1>5, <1>11, <2>1, <2>2, ReachedNext
  <2>4. \A k \in 9..step-1 : Has(Order[k]) =>
           \A t \in Targets(Order[k]) : Reached(Order[k], t)'
    BY <1>1, <1>5, <2>2
  <2> QED  BY <1>5, <2>1, <2>3, <2>4
<1>12. CASE step \in {16, 24, 27}
  <2>1. running' = [running EXCEPT ![s] = IF @ = 0 THEN config[s] ELSE @]
        /\ unit' = unit /\ config' = config
    BY <1>1, <1>12 DEF StartService
  <2>2. \A t \in Services : running'[t] = IF t = s THEN config[s] ELSE running[t]
    BY <1>3, <1>5, <2>1
  <2>3. Has(UnitStage(s))
    <3>1. step = 16 => s \in Chains  BY <1>1, TargetsAre
    <3>2. step = 24 => s = Solo  BY <1>1, TargetsAre
    <3>3. step = 27 => s = Pserver  BY <1>1, TargetsAre
    <3> QED  BY <1>7, <1>12, <3>1, <3>2, <3>3, ServicesAre DEF UnitStage
  <2>4. \A k \in 1..27 : \A t \in Services : Reached(Order[k], t) => Reached(Order[k], t)'
    BY <1>4, <2>1, <2>2 DEF Reached
  <2>5. \A t \in Targets(Order[p]) \ (todo \ {s}) : Reached(Order[p], t)'
    <3> SUFFICES ASSUME NEW t \in Targets(Order[p]) \ (todo \ {s})
                 PROVE  running'[t] = config'[t]
      BY <1>12, ReachedNext
    <3>1. CASE t = s  BY <2>1, <2>2, <3>1
    <3>2. CASE t # s
      <4>1. Reached(Order[step], t) /\ t \in Services  BY <1>1, <1>5, <1>6, <3>2
      <4> QED  BY <1>12, <2>1, <2>2, <3>2, <4>1, ReachedAt
    <3> QED  BY <3>1, <3>2
  <2>6. \A k \in 9..step-1 : Has(Order[k]) =>
           \A t \in Targets(Order[k]) : Reached(Order[k], t)'
    BY <1>1, <1>5, <1>6, <2>4
  <2>7. \A t \in Services : running'[t] # 0 => Has(UnitStage(t)) /\ running'[t] = config'[t]
    BY <1>5, <2>1, <2>2, <2>3
  <2> QED  BY <1>5, <2>1, <2>5, <2>6, <2>7
<1> QED  BY <1>1, <1>9, <1>10, <1>11, <1>12

\* A play reaches one service.
LEMMA PlayKeeps ==
    ASSUME SetupInv, NEW s \in Services, Play(s)
    PROVE  SetupInv'
<1>1. /\ step \in {10, 11, 14, 15, 16, 22, 23, 24, 26, 27}
      /\ Order[step] \in Files
      /\ Named = version /\ ~Has(Order[step])
      /\ todo' = todo \ {s}
      /\ disk' = disk /\ version' = version /\ doing' = doing /\ step' = step
      /\ torn' = torn /\ stray' = stray
  BY PlayAt
<1>2. Named' = Named /\ (\A f : Has(f)' <=> Has(f)) /\ (\A f : Content(f)' = Content(f))
  BY <1>1 DEF Named, Has, Content
<1>3. SetupTypes'  BY PlayTypes
<1>4. \A j : Done(j)' <=> Done(j)  BY <1>2 DEF Done
<1>5. StageInv'  BY <1>1, <1>2, <1>4 DEF SetupInv, StageInv, Done
<1>6. StopInv'  BY <1>1 DEF StopInv
<1>7. HostsInv'
  <2> SUFFICES ASSUME Unhurt'
               PROVE  HostsInv'
    BY DEF HostsInv
  <2>1. Unhurt  BY <1>1 DEF Unhurt
  <2>2. /\ \A k \in 9..step-1 : Has(Order[k]) =>
             \A t \in Targets(Order[k]) : Reached(Order[k], t)'
        /\ \A p \in {step} : \A t \in Targets(Order[p]) \ (todo \ {s}) : Reached(Order[p], t)'
        /\ Has("genesis") => Content("genesis") = config'[ChainOf(First)]
        /\ \A t \in Services : running'[t] # 0 => Has(UnitStage(t)) /\ running'[t] = config'[t]
    BY <2>1, PlayHosts
  <2>3. \A j \in step..27 : ~Has(Order[j])  BY <1>1, <2>1, LaterMissing
  <2>4. \A k \in 9..27 : (Has(Order[k]) => Done(k))'
    BY <1>1, <1>2, <1>4, <2>1 DEF SetupInv, HostsInv
  <2>5. \A k \in 9..27 : Has(Order[k])' => \A t \in Targets(Order[k]) : Reached(Order[k], t)'
    BY <1>1, <1>2, <2>2, <2>3
  <2>6. (step > 9 => \A t \in Targets(Order[step]) \ todo : Reached(Order[step], t))'
    BY <1>1, <2>2
  <2>7. /\ Has("genesis") => Content("genesis") # 0
        /\ Has("gci") => Content("gci") = Content("genesis")
        /\ Has("config") => Content("config") = Content("genesis")
    BY <1>1, <2>1 DEF SetupInv, HostsInv
  <2>8. (Has("genesis") => Content("genesis") = config[ChainOf(First)] /\ Content("genesis") # 0)'
    BY <1>2, <2>2, <2>7
  <2>9. /\ (Has("gci") => Content("gci") = Content("genesis"))'
        /\ (Has("config") => Content("config") = Content("genesis"))'
    BY <1>2, <2>7
  <2>10. \A t \in Services : (running[t] # 0 => Has(UnitStage(t)) /\ running[t] = config[t])'
    BY <1>2, <2>2
  <2> QED  BY <2>4, <2>5, <2>6, <2>8, <2>9, <2>10 DEF HostsInv
<1> QED  BY <1>3, <1>5, <1>6, <1>7 DEF SetupInv

\* What the end of a stage does with its file.
LEMMA FinishAt ==
    ASSUME SetupInv, Finish
    PROVE  /\ step \in 1..27 \ {4, 8} /\ doing = "bootstrap" /\ todo = {} /\ ~Has(Order[step])
           /\ disk' = IF Order[step] \in Files THEN With(disk, Order[step], Made(Order[step]))
                                               ELSE disk
           /\ Goto(step + 1)
           /\ version' = version /\ bump' = bump /\ torn' = torn /\ stray' = stray
           /\ unit' = unit /\ config' = config /\ running' = running /\ made' = made
           /\ step = 27 => doing' = "idle" /\ step' = 0 /\ todo' = {}
           /\ step # 27 => doing' = "bootstrap" /\ step' = step + 1
                           /\ todo' = Targets(Order[step + 1])
<1>1. step \in 1..27  BY DEF Finish, SetupInv, SetupTypes
<1>2. Stage(step) = Order[step]  BY <1>1, StageIs
<1>3. step \notin {4, 8}  BY <1>1, <1>2, Places DEF Finish
<1>4. /\ Goto(step + 1) /\ version' = version /\ bump' = bump /\ torn' = torn
      /\ stray' = stray /\ doing = "bootstrap" /\ todo = {} /\ ~Has(Order[step])
      /\ unit' = unit /\ config' = config /\ running' = running /\ made' = made
      /\ disk' = IF Order[step] \in Files THEN With(disk, Order[step], Made(Order[step]))
                                          ELSE disk
  BY <1>2 DEF Finish, machines
<1>5. /\ step = 27 => doing' = "idle" /\ step' = 0 /\ todo' = {}
      /\ step # 27 => doing' = "bootstrap" /\ step' = step + 1
                      /\ todo' = Targets(Order[step + 1])
  BY <1>1, <1>4, GoesTo
<1> QED  BY <1>1, <1>3, <1>4, <1>5

\* The end of a stage that leaves no file.
LEMMA UnstampedKeeps ==
    ASSUME SetupInv, Finish, Order[step] \notin Files
    PROVE  SetupInv'
<1>1. /\ step \in 1..27 \ {4, 8} /\ doing = "bootstrap" /\ todo = {}
      /\ disk' = disk /\ Goto(step + 1)
      /\ version' = version /\ bump' = bump /\ torn' = torn /\ stray' = stray
      /\ unit' = unit /\ config' = config /\ running' = running /\ made' = made
      /\ step # 27 => doing' = "bootstrap" /\ step' = step + 1
                      /\ todo' = Targets(Order[step + 1])
  BY FinishAt
<1>2. step \in {5, 6, 7, 17}  BY <1>1, FilesAre
<1>3. Done(step + 1)  BY <1>1, <1>2 DEF Done, SetupInv, StageInv
<1>4. CASE step = 17
  <2>1. Has("chain-name") /\ Named = version
    BY <1>4, OrderIs, FilesAre DEF SetupInv, StageInv, Done
  <2> QED  BY <1>1, <1>3, <1>4, <2>1, MovesOn DEF machines
<1>5. CASE step \in 5..7
  <2>1. step' \in 6..8 /\ step' = step + 1 /\ doing' = "bootstrap"
        /\ todo' = Targets(Order[step + 1])
    BY <1>1, <1>5
  <2>2. Named' = Named /\ \A f : Has(f)' <=> Has(f)  BY <1>1 DEF Named, Has
  <2>3. SetupTypes'  BY <1>1, <2>1 DEF SetupInv, SetupTypes
  <2>4. Named # version /\ Named <= version  BY <1>5 DEF SetupInv, StageInv
  <2>5. \A j \in 1..step'-1 : Order[j] \in Files => Has(Order[j])'
    BY <1>1, <1>3, <2>1, <2>2 DEF Done
  <2>6. StageInv'  BY <1>1, <2>1, <2>2, <2>4, <2>5 DEF StageInv, Done
  <2>7. StopInv'
    <3>1. CASE step = 5
      <4>1. step' = 6 /\ todo' = {Solo}  BY <1>1, <3>1, TargetsAre
      <4> QED  BY <1>1, <3>1, <4>1 DEF SetupInv, StopInv
    <3>2. CASE step = 6
      <4>1. step' = 7 /\ todo' = Chains  BY <1>1, <3>2, TargetsAre
      <4> QED  BY <1>1, <3>2, <4>1 DEF SetupInv, StopInv
    <3>3. CASE step = 7
      <4>1. step' = 8  BY <1>1, <3>3
      <4> QED  BY <1>1, <3>3, <4>1 DEF SetupInv, StopInv
    <3> QED  BY <1>5, <3>1, <3>2, <3>3
  <2>8. HostsInv'  BY <1>1, <2>2, <2>4 DEF HostsInv
  <2> QED  BY <2>3, <2>6, <2>7, <2>8 DEF SetupInv
<1> QED  BY <1>2, <1>4, <1>5

\* The end of a stage that leaves a file.
LEMMA StampedKeeps ==
    ASSUME SetupInv, Finish, Order[step] \in Files
    PROVE  SetupInv'
<1>1. /\ step \in 1..27 /\ doing = "bootstrap" /\ todo = {} /\ ~Has(Order[step])
      /\ disk' = With(disk, Order[step], Made(Order[step]))
      /\ version' = version /\ bump' = bump /\ torn' = torn /\ stray' = stray
      /\ unit' = unit /\ config' = config /\ running' = running /\ made' = made
      /\ step = 27 => doing' = "idle" /\ step' = 0 /\ todo' = {}
      /\ step # 27 => doing' = "bootstrap" /\ step' = step + 1
                      /\ todo' = Targets(Order[step + 1])
  BY FinishAt
<1>2. step \in 1..3 \cup 9..27  BY <1>1, FilesAre
<1>3. \A f : Has(f)' <=> Has(f) \/ f = Order[step]  BY <1>1 DEF Has, With
<1>4. /\ \A f : f # Order[step] => Content(f)' = Content(f)
      /\ \A f : f = Order[step] => Content(f)' = Made(f)
  BY <1>1, <1>3 DEF Content, Has, With
<1>5. /\ step # 9 => Named' = Named
      /\ step = 9 => Named' = version
  <2>1. step = 9 <=> Order[step] = "chain-name"  BY <1>1, Places
  <2>2. "chain-name" \in DOMAIN disk' <=> Has("chain-name") \/ step = 9
    BY <1>3, <2>1 DEF Has
  <2>3. step = 9 => disk'["chain-name"] = version
    BY <1>1, <2>1 DEF With, Made
  <2>4. step # 9 /\ Has("chain-name") => disk'["chain-name"] = disk["chain-name"]
    BY <1>1, <2>1 DEF With, Has
  <2> QED  BY <2>1, <2>2, <2>3, <2>4 DEF Named, Has
<1>6. Made(Order[step]) = CASE step = 9 -> version
                            [] step = 12 -> config[ChainOf(First)]
                            [] step \in {19, 20} -> Content("genesis")
                            [] OTHER -> 0
  BY <1>1, Places DEF Made, ShowGenesis, ShowGCI
<1>7. SetupTypes  BY DEF SetupInv
<1>8. SetupTypes'
  <2>1. Content("genesis") \in 0..MaxGenesis
    BY <1>7, BoundsAssumption DEF SetupTypes, Content, Has
  <2>2. config[ChainOf(First)] \in 0..MaxGenesis  BY <1>7, ServicesAre DEF SetupTypes
  <2>3. /\ step = 9 => Made(Order[step]) \in 0..MaxVersion
        /\ step # 9 => Made(Order[step]) \in 0..MaxGenesis
    <3>1. version \in 0..MaxVersion  BY <1>7 DEF SetupTypes
    <3>2. 0 \in 0..MaxGenesis  BY BoundsAssumption
    <3> HIDE DEF SetupTypes
    <3> QED  BY <1>1, <1>6, <2>1, <2>2, <3>1, <3>2
  <2>4. step = 9 <=> Order[step] = "chain-name"  BY <1>1, Places
  <2>5. \A f \in DOMAIN disk' :
           disk'[f] \in (IF f = "chain-name" THEN 0..MaxVersion ELSE 0..MaxGenesis)
    BY <1>1, <1>7, <2>3, <2>4 DEF SetupTypes, With
  <2>6. DOMAIN disk' \subseteq Files  BY <1>1, <1>7 DEF SetupTypes, With
  <2>7. /\ step' \in 0..27 /\ doing' \in {"idle", "bootstrap", "destroy"}
        /\ (doing' = "bootstrap") <=> (step' # 0)
        /\ todo' \subseteq (IF step' = 0 THEN {} ELSE Targets(Order[step']))
    BY <1>1
  <2>8. step' \in 1..4 /\ bump' => version' < MaxVersion
    BY <1>1, <1>7 DEF SetupTypes
  <2>9. /\ version' \in 0..MaxVersion /\ made' \in 0..MaxGenesis /\ unit' \subseteq Services
        /\ config' \in [Services -> 0..MaxGenesis] /\ running' \in [Services -> 0..MaxGenesis]
    BY <1>1, <1>7 DEF SetupTypes
  <2> QED  BY <2>5, <2>6, <2>7, <2>8, <2>9 DEF SetupTypes
<1>9. \A k : Done(k) => Done(k)'  BY <1>3 DEF Done
<1>10. \A j \in 1..step : Order[j] \in Files => Has(Order[j])'
  BY <1>1, <1>3 DEF Done, SetupInv, StageInv
<1>11. step > 9 => Named = version  BY DEF SetupInv, StageInv
<1>12. StageInv'
  <2>1. Named' <= version'  BY <1>1, <1>5, <1>7 DEF SetupInv, StageInv, SetupTypes
  <2>2. step' \notin 5..9  BY <1>1, <1>2
  <2>3. step' # 0 => \A j \in 1..step'-1 : Order[j] \in Files => Has(Order[j])'
    BY <1>1, <1>10
  <2>4. step' > 9 => Named' = version'  BY <1>1, <1>5, <1>11
  <2> QED  BY <2>1, <2>2, <2>3, <2>4 DEF StageInv, Done
<1>13. StopInv'  BY <1>1, <1>2 DEF StopInv
<1>14. HostsInv'
  <2> SUFFICES ASSUME Unhurt', (Named = version)'
               PROVE  HostsInv'
    BY DEF HostsInv
  <2>1. Unhurt  BY <1>1 DEF Unhurt
  <2>2. (step > 9 => \A t \in Targets(Order[step]) \ todo : Reached(Order[step], t))'
    BY <1>1
  <2>3. CASE step = 9
    <3>1. DOMAIN disk \subseteq ProvisionDir /\ \A s \in Services : running[s] = 0
      BY <1>1, <2>1, <2>3, Places DEF SetupInv, StageInv, StopInv, Unhurt
    <3>2. \A j \in 10..27 : ~Has(Order[j])'
      BY <1>1, <1>3, <2>3, <3>1, FilesAre, PlacesDiffer DEF Has
    <3>3. ~Has("genesis")' /\ ~Has("gci")' /\ ~Has("config")'
      BY <3>2, OrderIs
    <3>4. Done(9)'  BY <1>9, <2>3 DEF SetupInv, StageInv
    <3>5. \A t : Reached(Order[9], t)'  BY ReachedNext
    <3>6. /\ \A k \in 9..27 : (Has(Order[k]) => Done(k))'
          /\ \A k \in 9..27 : Has(Order[k])' =>
               \A t \in Targets(Order[k]) : Reached(Order[k], t)'
      BY <3>2, <3>4, <3>5
    <3>7. \A s \in Services : running'[s] = 0  BY <1>1, <3>1
    <3> QED  BY <2>2, <3>3, <3>6, <3>7 DEF HostsInv
  <2>4. CASE step # 9
    <3>1. Named = version  BY <1>1, <1>5, <2>4
    <3>2. /\ \A k \in 9..27 : Has(Order[k]) => Done(k)
          /\ \A k \in 9..27 : Has(Order[k]) =>
               \A s \in Targets(Order[k]) : Reached(Order[k], s)
          /\ step > 9 => \A s \in Targets(Order[step]) \ todo : Reached(Order[step], s)
          /\ Has("genesis") => Content("genesis") = config[ChainOf(First)] /\ Content("genesis") # 0
          /\ Has("gci") => Content("gci") = Content("genesis")
          /\ Has("config") => Content("config") = Content("genesis")
          /\ \A s \in Services : running[s] # 0 => Has(UnitStage(s)) /\ running[s] = config[s]
      BY <2>1, <3>1 DEF SetupInv, HostsInv
    <3>3. \A k \in 9..27 : (Has(Order[k]) => Done(k))'
      <4> SUFFICES ASSUME NEW k \in 9..27, Has(Order[k])'
                   PROVE  Done(k)'
        OBVIOUS
      <4>1. CASE k = step  BY <1>9, <4>1 DEF SetupInv, StageInv
      <4>2. CASE k # step
        <5>1. Has(Order[k])  BY <1>1, <1>3, <4>2, PlacesDiffer
        <5> QED  BY <1>9, <3>2, <5>1
      <4> QED  BY <4>1, <4>2
    <3>4. step > 9 => \A j \in step..27 : ~Has(Order[j])
      BY <1>1, <2>1, <3>1, LaterMissing
    <3>5. /\ Order[12] = "genesis" /\ Order[19] = "config" /\ Order[20] = "gci"
          /\ Order[11] = "prepared"
      BY OrderIs
    <3>6. step # 12 => Content("genesis")' = Content("genesis")
      BY <1>1, <1>4, <3>5, PlacesDiffer
    <3>7. \A k \in 9..27 : Has(Order[k])' =>
            \A t \in Targets(Order[k]) : Reached(Order[k], t)'
      <4> SUFFICES ASSUME NEW k \in 9..27, Has(Order[k])', NEW t \in Targets(Order[k])
                   PROVE  Reached(Order[k], t)'
        OBVIOUS
      <4>1. Reached(Order[k], t)
        <5>1. CASE k = step  BY <1>1, <3>2, <2>4, <5>1
        <5>2. CASE k # step
          <6>1. Has(Order[k])  BY <1>1, <1>3, <5>2, PlacesDiffer
          <6> QED  BY <3>2, <6>1
        <5> QED  BY <5>1, <5>2
      <4>2. CASE step # 12
        BY <1>1, <3>6, <4>1, <4>2 DEF Reached
      <4>3. CASE step = 12
        <5>1. k \notin {14, 22}
          BY <1>3, <3>4, <4>3, PlacesDiffer
        <5> QED  BY <1>1, <4>1, <5>1, ReachedAt, ReachedNext
      <4> QED  BY <4>2, <4>3
    <3>8. step = 12 => config[ChainOf(First)] # 0
      <4> SUFFICES ASSUME step = 12
                   PROVE  config[ChainOf(First)] # 0
        OBVIOUS
      <4>1. Has(Order[11])  BY FilesAre DEF SetupInv, StageInv, Done
      <4>2. Reached(Order[11], ChainOf(First))
        BY <3>2, <4>1, TargetsAre, ServicesAre
      <4> QED  BY <4>2, ReachedAt
    <3>9. (Has("genesis") => Content("genesis") = config[ChainOf(First)] /\ Content("genesis") # 0)'
      <4>1. CASE step = 12
        BY <1>1, <1>4, <1>6, <3>5, <3>8, <4>1
      <4>2. CASE step # 12
        <5>1. Has("genesis")' => Has("genesis")  BY <1>1, <1>3, <3>5, <4>2, PlacesDiffer
        <5> QED  BY <1>1, <3>2, <3>6, <4>2, <5>1
      <4> QED  BY <4>1, <4>2
    <3>10. (Has("gci") => Content("gci") = Content("genesis"))'
      <4>1. CASE step = 20
        BY <1>1, <1>4, <1>6, <3>5, <3>6, <4>1
      <4>2. CASE step # 20
        <5>1. Order[step] # "gci"  BY <1>1, <4>2, Places
        <5>2. step = 12 => ~Has("gci")  BY <3>4, <3>5
        <5> QED  BY <1>3, <1>4, <3>2, <3>6, <5>1, <5>2
      <4> QED  BY <4>1, <4>2
    <3>11. (Has("config") => Content("config") = Content("genesis"))'
      <4>1. CASE step = 19
        BY <1>1, <1>4, <1>6, <3>5, <3>6, <4>1
      <4>2. CASE step # 19
        <5>1. Order[step] # "config"  BY <1>1, <4>2, Places
        <5>2. step = 12 => ~Has("config")  BY <3>4, <3>5
        <5> QED  BY <1>3, <1>4, <3>2, <3>6, <5>1, <5>2
      <4> QED  BY <4>1, <4>2
    <3>12. \A s \in Services : (running[s] # 0 => Has(UnitStage(s)) /\ running[s] = config[s])'
      BY <1>1, <1>3, <3>2
    <3> QED  BY <2>2, <3>3, <3>7, <3>9, <3>10, <3>11, <3>12 DEF HostsInv
  <2> QED  BY <2>3, <2>4
<1> QED  BY <1>8, <1>12, <1>13, <1>14 DEF SetupInv

-----------------------------------------------------------------------------
(* The theorems about the bootstrap. *)

\* Every step keeps the invariant.
LEMMA SetupStep ==
    ASSUME SetupInv, [Next]_vars
    PROVE  SetupInv'
<1>1. ASSUME NEW b \in BOOLEAN, Bootstrap(b)  PROVE SetupInv'  BY <1>1, BootstrapKeeps
<1>2. CASE Skip  BY <1>2, SkipKeeps
<1>3. CASE Compare  BY <1>3, CompareKeeps
<1>4. CASE Finish  BY <1>4, UnstampedKeeps, StampedKeeps
<1>5. CASE Wiped  BY <1>5, WipedKeeps
<1>6. ASSUME NEW s \in Services, Play(s)  PROVE SetupInv'  BY <1>6, PlayKeeps
<1>7. ASSUME NEW s \in Services, StopService(s)  PROVE SetupInv'
  BY <1>7, StopServiceKeeps
<1>8. ASSUME NEW s \in Services, StopFails(s)  PROVE SetupInv'  BY <1>8, StopFailsKeeps
<1>9. ASSUME NEW f \in Files, RemoveFile(f)  PROVE SetupInv'  BY <1>9, RemoveFileKeeps
<1>10. CASE Destroy  BY <1>10, DestroyKeeps
<1>11. CASE Fail  BY <1>11, FailKeeps
<1>12. CASE UNCHANGED vars
  <2>1. /\ disk' = disk /\ version' = version /\ unit' = unit /\ config' = config
        /\ running' = running /\ made' = made /\ doing' = doing /\ step' = step
        /\ todo' = todo /\ bump' = bump /\ torn' = torn /\ stray' = stray
    BY <1>12 DEF vars
  <2>2. Named' = Named /\ (\A f : Has(f)' <=> Has(f)) /\ (\A f : Content(f)' = Content(f))
    BY <2>1 DEF Named, Has, Content
  <2>3. \A j : Done(j)' <=> Done(j)  BY <2>2 DEF Done
  <2>4. \A j, s : Reached(Order[j], s)' <=> Reached(Order[j], s)
    BY <2>1, <2>2 DEF Reached
  <2>5. SetupTypes'  BY <2>1 DEF SetupInv, SetupTypes
  <2>6. StageInv'  BY <2>1, <2>2, <2>3 DEF SetupInv, StageInv, Done
  <2>7. StopInv'  BY <2>1, <2>2 DEF SetupInv, StopInv
  <2>8. HostsInv'
    <3>1. (\A s \in Targets(Order[step]) \ todo : Reached(Order[step], s)) =>
            (\A s \in Targets(Order[step]) \ todo : Reached(Order[step], s))'
      BY <2>1, <2>2 DEF Reached
    <3> QED  BY <2>1, <2>2, <2>3, <2>4, <3>1 DEF SetupInv, HostsInv, Unhurt
  <2> QED  BY <2>5, <2>6, <2>7, <2>8 DEF SetupInv
<1> QED
  BY <1>1, <1>2, <1>3, <1>4, <1>5, <1>6, <1>7, <1>8, <1>9, <1>10, <1>11, <1>12 DEF Next, Work

\* Initially there is no file and nothing runs.
LEMMA SetupStart ==
    ASSUME Init
    PROVE  SetupInv
<1>1. /\ DOMAIN disk = {} /\ version = 0 /\ unit = {}
      /\ config = [s \in Services |-> 0] /\ running = [s \in Services |-> 0]
      /\ doing = "idle" /\ step = 0 /\ todo = {} /\ bump = FALSE /\ made = 0
  BY DEF Init
<1>2. Named = -1  BY <1>1 DEF Named, Has
<1>3. SetupTypes  BY <1>1, BoundsAssumption DEF SetupTypes
<1>4. StageInv  BY <1>1, <1>2 DEF StageInv
<1>5. StopInv  BY <1>1 DEF StopInv
<1>6. HostsInv  BY <1>1, <1>2 DEF HostsInv
<1> QED  BY <1>3, <1>4, <1>5, <1>6 DEF SetupInv

\* The invariant gives what the stamps promise.
LEMMA StampsFollow ==
    ASSUME SetupInv
    PROVE  StampsTrue
<1> SUFFICES ASSUME Unhurt, Named = version
             PROVE  StampsTrue
  BY DEF StampsTrue
<1>1. /\ \A k \in 9..27 : Has(Order[k]) => Done(k)
      /\ \A k \in 9..27 : Has(Order[k]) =>
           \A s \in Targets(Order[k]) : Reached(Order[k], s)
      /\ Has("genesis") => Content("genesis") = config[ChainOf(First)] /\ Content("genesis") # 0
      /\ Has("gci") => Content("gci") = Content("genesis")
  BY DEF SetupInv, HostsInv
<1>2. \A j, k \in 9..27 : j < k /\ j # 17 /\ Has(Order[k]) => Has(Order[j])
  BY <1>1, FilesAre DEF Done
<1>3. Has("installed") => Has("genesis") /\ \A s \in Chains : config[s] = Content("genesis")
  <2>1. Has("installed") => Has(Order[14]) /\ Has(Order[12])  BY <1>2, OrderIs
  <2> QED  BY <1>1, <2>1, OrderIs, TargetsAre, ReachedAt
<1>4. Has("service") => Chains \subseteq unit
  <2>1. Has("service") => Has(Order[15])  BY OrderIs
  <2> QED  BY <1>1, <2>1, TargetsAre, ReachedAt
<1>5. Has("started") => Has("installed") /\ \A s \in Chains : running[s] = config[s]
  <2>1. Has("started") => Has(Order[16]) /\ Has(Order[14])  BY <1>2, OrderIs
  <2> QED  BY <1>1, <2>1, OrderIs, TargetsAre, ReachedAt
<1>6. Has("c-installed") => /\ Has("gci") /\ Has("started")
                            /\ config[Solo] = Content("genesis")
                            /\ config[Pserver] = Content("genesis")
  <2>1. Has("c-installed") => Has(Order[22]) /\ Has(Order[20]) /\ Has(Order[16])
    BY <1>2, OrderIs
  <2> QED  BY <1>1, <2>1, OrderIs, TargetsAre, ReachedAt
<1>7. Has("solo-started") => Has("c-installed") /\ running[Solo] = config[Solo]
  <2>1. Has("solo-started") => Has(Order[24]) /\ Has(Order[22])  BY <1>2, OrderIs
  <2> QED  BY <1>1, <2>1, OrderIs, TargetsAre, ReachedAt
<1>8. Has("c-started") => Has("solo-started") /\ running[Pserver] = config[Pserver]
  <2>1. Has("c-started") => Has(Order[27]) /\ Has(Order[24])  BY <1>2, OrderIs
  <2> QED  BY <1>1, <2>1, OrderIs, TargetsAre, ReachedAt
<1>9. Finished => /\ Content("genesis") # 0
                  /\ \A s \in Services : running[s] = Content("genesis")
  BY <1>1, <1>3, <1>5, <1>6, <1>7, <1>8, ServicesAre DEF Finished
<1> QED  BY <1>1, <1>3, <1>4, <1>5, <1>6, <1>7, <1>8, <1>9 DEF StampsTrue

\* The files of the setup and the state of the hosts stay within their types,
\* whatever fails (setup/main.js).
THEOREM SetupTypeCorrect == MCSpec => []TypeOK
<1>1. MCInit => SetupInv  BY SetupStart DEF MCInit
<1>2. SetupInv /\ [MCNext]_mcVars => SetupInv'  BY EachPart, SetupStep
<1>3. SetupInv => TypeOK
  <2> SUFFICES ASSUME SetupTypes
               PROVE  TypeOK
    BY DEF SetupInv
  <2>1. \A f \in DOMAIN disk : disk[f] \in 0..MaxGenesis + MaxVersion
    BY BoundsAssumption DEF SetupTypes
  <2>2. todo \subseteq Services
    <3>1. step # 0 => Targets(Order[step]) \subseteq Services  BY TargetsAre DEF SetupTypes
    <3> QED  BY <3>1 DEF SetupTypes
  <2>3. Len(Order) = 27  BY OrderIs
  <2>4. (doing = "bootstrap") = (step > 0)  BY DEF SetupTypes
  <2> QED  BY <2>1, <2>2, <2>3, <2>4 DEF SetupTypes, TypeOK
<1> QED  BY <1>1, <1>2, <1>3, PTL DEF MCSpec, mcVars

\* For any set of nodes, any number of versions, failed plays, killed runs and
\* destroys: a stamp of the chain's directory is true of the hosts, and a
\* bootstrap that is done has left every service running for the one chain
\* (setup/main.js bootstrap-cosmos, setup/files.js guardFile).  Excepted is
\* what a stop that failed on a running service, or a destroy that was cut short,
\* has left.
THEOREM StampsAreTrue == MCSpec => []StampsTrue
<1>1. MCInit => SetupInv  BY SetupStart DEF MCInit
<1>2. SetupInv /\ [MCNext]_mcVars => SetupInv'  BY EachPart, SetupStep
<1> QED  BY <1>1, <1>2, StampsFollow, PTL DEF MCSpec, mcVars

\* For any number of nodes and failures: a play removes or replaces the files of
\* a service whose process runs only if the stop of a running service failed, or
\* a destroy was cut short, since the machines were last given back (setup/main.js,
\* the stop plays, whose results are not looked at).
THEOREM RunningAreReplacedOnlyWhenHurt ==
    MCSpec => [][\A s \in Services :
                   Unhurt /\ config'[s] # config[s] /\ alive' => running[s] = 0]_vars
<1>1. MCInit => SetupInv  BY SetupStart DEF MCInit
<1>2. SetupInv /\ [MCNext]_mcVars => SetupInv'  BY EachPart, SetupStep
<1> DEFINE Kept == \A s \in Services :
                     Unhurt /\ config'[s] # config[s] /\ alive' => running[s] = 0
<1>3. SetupInv /\ [MCNext]_mcVars => [Kept]_vars
  <2> SUFFICES ASSUME SetupInv, Next, NEW s \in Services,
                      Unhurt, config'[s] # config[s], alive'
               PROVE  running[s] = 0
    BY EachPart
  <2>1. PICK t \in Services : Play(t)
    BY DEF Next, Work, Bootstrap, Skip, Compare, Finish, Wiped, StopService, StopFails,
           RemoveFile, Destroy, Fail, machines
  <2>2. config'[t] # config[t] => running[t] = 0  BY <2>1, PlayHosts
  <2>3. s = t
    <3>1. config \in [Services -> 0..MaxGenesis]  BY DEF SetupInv, SetupTypes
    <3> QED  BY <2>1, <3>1 DEF Play, Effect, Prepare, Install, InstallUnit, StartService
  <2> QED  BY <2>2, <2>3
<1> QED  BY <1>1, <1>2, <1>3, PTL DEF MCSpec, mcVars

-----------------------------------------------------------------------------
(* The vats. *)

Posts == [key : Clients, state : {"asked", "ok", "error"}]
Calls == [call : {"getDemoBundle", "pleaseProvision"}, post : Nat]
Replies == [ok : BOOLEAN, post : Nat, bundle : Nat]
Objects == [is : {"provisioner", "demoProvider", "fetch"}, bundle : Nat]
Presences == [of : {"nobody", "chain", "itself"}, bundle : Nat]

VatsTypes ==
    /\ posts \in Seq(Posts) /\ bundles \in Seq(Vats!Solos)
    /\ egress \in [DOMAIN egress -> Objects]
    /\ toChain \in [Vats!Solos -> Seq(Calls)] /\ fromChain \in [Vats!Solos -> Seq(Replies)]
    /\ presences \in [Vats!Solos -> Presences]
    /\ up \in [Vats!Machines -> {"off", "listening", "running", "thrown"}]

\* The chain has made bundle n for m.
MadeFor(n, m) == n \in DOMAIN bundles /\ bundles[n] = m

Provisioned(k) ==
    /\ k \in remotes /\ k \in DOMAIN egress
    /\ egress[k].is = "fetch" /\ MadeFor(egress[k].bundle, k)

\* Only the controller asks to provision, each time for one of its posts.
CallsInv ==
    \A m \in Vats!Solos : \A i \in DOMAIN toChain[m] :
        IF toChain[m][i].call = "pleaseProvision"
        THEN m = TheController /\ toChain[m][i].post \in DOMAIN posts
        ELSE toChain[m][i].post = 0

\* What is answered is a post, or no request to provision.
RepliesInv ==
    \A m \in Vats!Solos : \A i \in DOMAIN fromChain[m] :
        fromChain[m][i].post \in {0} \cup DOMAIN posts

\* Before its bootstrap the chain has answered nobody.
QuietInv ==
    up[TheChain] \in {"off", "listening"} =>
        /\ \A m \in Vats!Solos : fromChain[m] = <<>> /\ presences[m].of # "chain"
        /\ \A i \in DOMAIN posts : posts[i].state # "ok"
        /\ egress = <<>>

\* What the chain serves, has sent, and what was made of it, is the one's it was
\* made for.
AnswersInv ==
    /\ \A k \in DOMAIN egress : egress[k].is = "fetch" => Provisioned(k)
    /\ \A m \in Vats!Solos \ {TheController} : \A i \in DOMAIN fromChain[m] :
         fromChain[m][i].ok => MadeFor(fromChain[m][i].bundle, m)
    /\ \A i \in DOMAIN fromChain[TheController] :
         fromChain[TheController][i].ok /\ fromChain[TheController][i].post \in DOMAIN posts
         => Provisioned(posts[fromChain[TheController][i].post].key)
    /\ \A i \in DOMAIN posts : posts[i].state = "ok" => Provisioned(posts[i].key)
    /\ \A m \in Vats!Solos : presences[m].of = "chain" => MadeFor(presences[m].bundle, m)

VatsInv == VatsTypes /\ CallsInv /\ RepliesInv /\ QuietInv /\ AnswersInv

\* The places of a queue once its head is taken.
LEMMA Taken ==
    ASSUME NEW S, NEW q \in Seq(S), q # <<>>
    PROVE  /\ Head(q) = q[1] /\ Head(q) \in S /\ 1 \in DOMAIN q
           /\ Tail(q) \in Seq(S)
           /\ \A i \in DOMAIN Tail(q) : i + 1 \in DOMAIN q /\ Tail(q)[i] = q[i + 1]
OBVIOUS

\* The places of a queue to which x was added.
LEMMA Added ==
    ASSUME NEW S, NEW q \in Seq(S), NEW x \in S
    PROVE  /\ Append(q, x) \in Seq(S)
           /\ \A i \in DOMAIN Append(q, x) :
                IF i = Len(q) + 1 THEN Append(q, x)[i] = x
                                  ELSE i \in DOMAIN q /\ Append(q, x)[i] = q[i]
           /\ \A i \in DOMAIN q : i \in DOMAIN Append(q, x) /\ Append(q, x)[i] = q[i]
           /\ Len(q) + 1 \in DOMAIN Append(q, x) /\ Append(q, x)[Len(q) + 1] = x
OBVIOUS

\* A machine that starts says nothing yet.
LEMMA StartKeeps ==
    ASSUME VatsInv, NEW m \in Vats!Machines, Vats!Start(m)
    PROVE  VatsInv'
<1>1. /\ up[m] = "off" /\ up' = [up EXCEPT ![m] = "listening"]
      /\ remotes' = remotes /\ egress' = egress /\ bundles' = bundles /\ posts' = posts
      /\ toChain' = toChain /\ fromChain' = fromChain /\ presences' = presences
  BY DEF Vats!Start
<1>2. VatsTypes'  BY <1>1 DEF VatsInv, VatsTypes
<1>3. CallsInv'  BY <1>1 DEF VatsInv, CallsInv
<1>4. up'[TheChain] \in {"off", "listening"} => up[TheChain] \in {"off", "listening"}
  BY <1>1 DEF VatsInv, VatsTypes, Vats!Machines
<1>5. QuietInv'  BY <1>1, <1>4 DEF VatsInv, QuietInv
<1>6. AnswersInv'  BY <1>1 DEF VatsInv, AnswersInv, Provisioned, MadeFor
<1>7. RepliesInv'  BY <1>1 DEF VatsInv, RepliesInv
<1> QED  BY <1>2, <1>3, <1>5, <1>6, <1>7 DEF VatsInv

\* The chain's bootstrap gives nobody a fetch.
LEMMA ChainBootKeeps ==
    ASSUME VatsInv, Vats!ChainBoot
    PROVE  VatsInv'
<1>1. /\ up[TheChain] = "listening"
      /\ up' \in {[up EXCEPT ![TheChain] = "thrown"], [up EXCEPT ![TheChain] = "running"]}
      /\ bundles' = bundles /\ posts' = posts
      /\ toChain' = toChain /\ fromChain' = fromChain /\ presences' = presences
  BY DEF Vats!ChainBoot
<1>2. /\ egress' \in [DOMAIN egress' -> Objects]
      /\ \A k \in DOMAIN egress' : egress'[k].is # "fetch"
  <2>1. QuietInv /\ egress = <<>>  BY <1>1 DEF VatsInv, QuietInv
  <2>2. /\ Vats!Object("demoProvider", 0) \in Objects
        /\ Vats!Object("provisioner", 0) \in Objects
        /\ Vats!Object("demoProvider", 0).is = "demoProvider"
        /\ Vats!Object("provisioner", 0).is = "provisioner"
    BY DEF Vats!Object, Objects
  <2>3. \E f \in {Vats!Object("demoProvider", 0), Vats!Object("provisioner", 0)} :
           \E D : egress' = [a \in D |-> f]
    <3> DEFINE addrs == Vats!Addresses(argv[TheChain])
    <3>1. \/ egress' = egress
          \/ egress' = [a \in Vats!Range(addrs) |-> Vats!Object("demoProvider", 0)]
          \/ egress' = <<>>
          \/ egress' = [a \in {Head(addrs)} |-> Vats!Object("provisioner", 0)]
      BY Zenon DEF Vats!ChainBoot
    <3>2. <<>> = [a \in {} |-> Vats!Object("demoProvider", 0)]  OBVIOUS
    <3> QED  BY <2>1, <3>1, <3>2
  <2> QED  BY <2>2, <2>3
<1>3. up'[TheChain] \notin {"off", "listening"} /\ up' \in [Vats!Machines -> {"off", "listening", "running", "thrown"}]
  BY <1>1 DEF VatsInv, VatsTypes, Vats!Machines
<1>4. VatsTypes'  BY <1>1, <1>2, <1>3 DEF VatsInv, VatsTypes
<1>5. CallsInv'  BY <1>1 DEF VatsInv, CallsInv
<1>6. QuietInv'  BY <1>3 DEF QuietInv
<1>7. AnswersInv'
  <2>1. /\ \A m \in Vats!Solos : fromChain[m] = <<>> /\ presences[m].of # "chain"
        /\ \A i \in DOMAIN posts : posts[i].state # "ok"
    BY <1>1 DEF VatsInv, QuietInv
  <2>2. TheController \in Vats!Solos  BY DEF Vats!Solos
  <2> QED  BY <1>1, <1>2, <2>1, <2>2 DEF AnswersInv
<1>8. RepliesInv'  BY <1>1 DEF VatsInv, RepliesInv
<1> QED  BY <1>4, <1>5, <1>6, <1>7, <1>8 DEF VatsInv

\* The bootstrap of a solo: a client asks for its bundle.
LEMMA SoloBootKeeps ==
    ASSUME VatsInv, NEW m \in Vats!Solos, Vats!SoloBoot(m)
    PROVE  VatsInv'
<1> DEFINE c == [call |-> "getDemoBundle", post |-> 0]
<1>1. /\ up[m] = "listening"
      /\ up' \in {[up EXCEPT ![m] = "thrown"], [up EXCEPT ![m] = "running"]}
      /\ toChain' \in {toChain, [toChain EXCEPT ![m] = Append(@, c)]}
      /\ presences' \in {presences, [presences EXCEPT ![m] = Vats!OfItsOwn]}
      /\ remotes' = remotes /\ egress' = egress /\ bundles' = bundles /\ posts' = posts
      /\ fromChain' = fromChain
  BY Zenon DEF Vats!SoloBoot
<1>2. c \in Calls /\ c.call = "getDemoBundle" /\ c.post = 0  BY DEF Calls
<1> HIDE DEF c
<1>3. VatsTypes  BY DEF VatsInv
<1>4. /\ toChain' \in [Vats!Solos -> Seq(Calls)]
      /\ \A n \in Vats!Solos : toChain'[n] = toChain[n] \/ (n = m /\ toChain'[n] = Append(toChain[n], c))
  <2>1. toChain[m] \in Seq(Calls)  BY <1>3 DEF VatsTypes
  <2>2. Append(toChain[m], c) \in Seq(Calls)  BY <1>2, <2>1
  <2> QED  BY <1>1, <1>3, <2>2 DEF VatsTypes
<1>5. /\ presences' \in [Vats!Solos -> Presences]
      /\ \A n \in Vats!Solos : presences'[n] = presences[n] \/ presences'[n].of = "itself"
  <2>1. Vats!OfItsOwn \in Presences /\ Vats!OfItsOwn.of = "itself"
    BY DEF Vats!OfItsOwn, Presences
  <2> QED  BY <1>1, <1>3, <2>1 DEF VatsTypes
<1>6. up' \in [Vats!Machines -> {"off", "listening", "running", "thrown"}]
      /\ (up'[TheChain] \in {"off", "listening"} => up[TheChain] \in {"off", "listening"})
  BY <1>1, <1>3 DEF VatsTypes, Vats!Machines
<1>7. VatsTypes'  BY <1>1, <1>3, <1>4, <1>5, <1>6 DEF VatsTypes
<1>8. CallsInv'
  <2> SUFFICES ASSUME NEW n \in Vats!Solos, NEW i \in DOMAIN toChain'[n]
               PROVE  IF toChain'[n][i].call = "pleaseProvision"
                      THEN n = TheController /\ toChain'[n][i].post \in DOMAIN posts
                      ELSE toChain'[n][i].post = 0
    BY <1>1 DEF CallsInv
  <2>1. CASE toChain'[n] = toChain[n]  BY <2>1 DEF VatsInv, CallsInv
  <2>2. CASE toChain'[n] = Append(toChain[n], c)
    <3>1. toChain[n] \in Seq(Calls)  BY <1>3 DEF VatsTypes
    <3>2. \/ toChain'[n][i] = c
          \/ i \in DOMAIN toChain[n] /\ toChain'[n][i] = toChain[n][i]
      BY <1>2, <2>2, <3>1, Added
    <3> QED  BY <1>2, <3>2 DEF VatsInv, CallsInv
  <2> QED  BY <1>4, <2>1, <2>2
<1>9. QuietInv'  BY <1>1, <1>5, <1>6 DEF VatsInv, QuietInv
<1>10. AnswersInv'
  <2>1. \A n, x : MadeFor(n, x)' <=> MadeFor(n, x)  BY <1>1 DEF MadeFor
  <2>2. \A k : Provisioned(k)' <=> Provisioned(k)  BY <1>1 DEF Provisioned, MadeFor
  <2> QED  BY <1>1, <1>5, <2>1, <2>2 DEF VatsInv, AnswersInv
<1>11. RepliesInv'  BY <1>1 DEF VatsInv, RepliesInv
<1> QED  BY <1>7, <1>8, <1>9, <1>10, <1>11 DEF VatsInv

\* A request to provision that no kernel takes is answered at once.
LEMMA PleaseProvisionKeeps ==
    ASSUME VatsInv, NEW k \in Clients, Vats!PleaseProvision(k)
    PROVE  VatsInv'
<1> DEFINE p == [key |-> k, state |-> IF Vats!Provisioning THEN "asked" ELSE "error"]
           c == [call |-> "pleaseProvision", post |-> Len(posts) + 1]
<1>1. /\ posts' = Append(posts, p)
      /\ toChain' \in {toChain, [toChain EXCEPT ![TheController] = Append(@, c)]}
      /\ up' = up /\ remotes' = remotes /\ egress' = egress /\ bundles' = bundles
      /\ fromChain' = fromChain /\ presences' = presences
  BY Zenon DEF Vats!PleaseProvision, Vats!Ask
<1>2. VatsTypes  BY DEF VatsInv
<1>3. p \in Posts /\ p.state # "ok" /\ Len(posts) \in Nat
      /\ c \in Calls /\ c.call = "pleaseProvision" /\ c.post = Len(posts) + 1
  BY <1>2 DEF VatsTypes, Posts, Calls
<1> HIDE DEF p, c
<1>4. /\ posts' \in Seq(Posts)
      /\ \A i \in DOMAIN posts' : posts'[i].state = "ok" => i \in DOMAIN posts /\ posts'[i] = posts[i]
      /\ \A i \in DOMAIN posts : i \in DOMAIN posts' /\ posts'[i] = posts[i]
      /\ Len(posts) + 1 \in DOMAIN posts' /\ posts'[Len(posts) + 1].state # "ok"
      /\ \A i \in DOMAIN posts' : i \notin DOMAIN posts => i = Len(posts) + 1
  BY <1>1, <1>2, <1>3, Added DEF VatsTypes
<1>5. TheController \in Vats!Solos  BY DEF Vats!Solos
<1>6. /\ toChain' \in [Vats!Solos -> Seq(Calls)]
      /\ \A n \in Vats!Solos : \/ toChain'[n] = toChain[n]
                               \/ n = TheController /\ toChain'[n] = Append(toChain[n], c)
  <2>1. Append(toChain[TheController], c) \in Seq(Calls)
    BY <1>2, <1>3, <1>5 DEF VatsTypes
  <2> QED  BY <1>1, <1>2, <2>1 DEF VatsTypes
<1>7. VatsTypes'  BY <1>1, <1>2, <1>4, <1>6 DEF VatsTypes
<1>8. CallsInv'
  <2> SUFFICES ASSUME NEW n \in Vats!Solos, NEW i \in DOMAIN toChain'[n]
               PROVE  IF toChain'[n][i].call = "pleaseProvision"
                      THEN n = TheController /\ toChain'[n][i].post \in DOMAIN posts'
                      ELSE toChain'[n][i].post = 0
    BY DEF CallsInv
  <2>1. CASE toChain'[n] = toChain[n]
    BY <1>4, <2>1 DEF VatsInv, CallsInv
  <2>2. CASE n = TheController /\ toChain'[n] = Append(toChain[n], c)
    <3>1. toChain[n] \in Seq(Calls)  BY <1>2 DEF VatsTypes
    <3>2. \/ toChain'[n][i] = c
          \/ i \in DOMAIN toChain[n] /\ toChain'[n][i] = toChain[n][i]
      BY <1>3, <2>2, <3>1, Added
    <3> QED  BY <1>3, <1>4, <2>2, <3>2 DEF VatsInv, CallsInv
  <2> QED  BY <1>6, <2>1, <2>2
<1>9. QuietInv'  BY <1>1, <1>4 DEF VatsInv, QuietInv
<1>10. AnswersInv'
  <2>1. \A i \in DOMAIN fromChain[TheController] :
          fromChain[TheController][i].post \in DOMAIN posts'
          => fromChain[TheController][i].post \in DOMAIN posts
    <3>1. 0 \notin DOMAIN posts'  BY <1>4
    <3> QED  BY <1>5, <3>1 DEF VatsInv, RepliesInv
  <2>2. \A i \in DOMAIN fromChain'[TheController] :
         fromChain'[TheController][i].ok /\ fromChain'[TheController][i].post \in DOMAIN posts'
         => /\ fromChain[TheController][i].post \in DOMAIN posts
            /\ posts'[fromChain'[TheController][i].post] = posts[fromChain[TheController][i].post]
    BY <1>1, <1>4, <2>1
  <2>3. /\ \A i \in DOMAIN fromChain[TheController] :
             fromChain[TheController][i].ok /\ fromChain[TheController][i].post \in DOMAIN posts
             => Provisioned(posts[fromChain[TheController][i].post].key)
        /\ \A i \in DOMAIN posts : posts[i].state = "ok" => Provisioned(posts[i].key)
    BY DEF VatsInv, AnswersInv
  <2>4. \A x : Provisioned(x)' <=> Provisioned(x)  BY <1>1 DEF Provisioned, MadeFor
  <2>5. \A i \in DOMAIN fromChain'[TheController] :
         (fromChain[TheController][i].ok /\ fromChain[TheController][i].post \in DOMAIN posts
          => Provisioned(posts[fromChain[TheController][i].post].key))'
    <3> SUFFICES ASSUME NEW i \in DOMAIN fromChain'[TheController],
                        fromChain'[TheController][i].ok,
                        fromChain'[TheController][i].post \in DOMAIN posts'
                 PROVE  Provisioned(posts[fromChain[TheController][i].post].key)'
      OBVIOUS
    <3>1. Provisioned(posts[fromChain[TheController][i].post].key)
      BY <1>1, <2>2, <2>3
    <3>2. posts'[fromChain'[TheController][i].post] = posts[fromChain[TheController][i].post]
      BY <2>2
    <3> QED  BY <1>1, <3>1, <3>2 DEF Provisioned, MadeFor
  <2>6. \A i \in DOMAIN posts' : (posts[i].state = "ok" => Provisioned(posts[i].key))'
    BY <1>1, <1>4, <2>3 DEF Provisioned, MadeFor
  <2>7. /\ \A x \in DOMAIN egress' : (egress[x].is = "fetch" => Provisioned(x))'
        /\ \A m \in Vats!Solos \ {TheController} : \A i \in DOMAIN fromChain'[m] :
             (fromChain[m][i].ok => MadeFor(fromChain[m][i].bundle, m))'
        /\ \A m \in Vats!Solos : (presences[m].of = "chain" => MadeFor(presences[m].bundle, m))'
    BY <1>1 DEF VatsInv, AnswersInv, Provisioned, MadeFor
  <2> QED  BY <2>5, <2>6, <2>7 DEF AnswersInv
<1>11. RepliesInv'  BY <1>1, <1>4 DEF VatsInv, RepliesInv
<1> QED  BY <1>7, <1>8, <1>9, <1>10, <1>11 DEF VatsInv

\* A reply r of the chain to m, when nothing that was made is lost, and what r
\* says is so.
LEMMA ReplyKeeps ==
    ASSUME VatsInv, NEW m \in Vats!Solos, NEW r \in Replies, r.post \in {0} \cup DOMAIN posts,
           fromChain' = [fromChain EXCEPT ![m] = Append(@, r)],
           posts' = posts, presences' = presences,
           \A n, x : MadeFor(n, x) => MadeFor(n, x)',
           \A x : Provisioned(x) => Provisioned(x)',
           \A x \in DOMAIN egress' : egress'[x].is = "fetch" => Provisioned(x)',
           m # TheController /\ r.ok => MadeFor(r.bundle, m)',
           \A i \in DOMAIN posts :
             m = TheController /\ r.ok /\ r.post = i => Provisioned(posts[i].key)'
    PROVE  /\ fromChain' \in [Vats!Solos -> Seq(Replies)]
           /\ RepliesInv'
           /\ AnswersInv'
<1>1. VatsTypes  BY DEF VatsInv
<1>2. fromChain[m] \in Seq(Replies)  BY <1>1 DEF VatsTypes
<1>3. \A n \in Vats!Solos : fromChain'[n] = IF n = m THEN Append(fromChain[m], r) ELSE fromChain[n]
  BY <1>1 DEF VatsTypes
<1>4. \A i \in DOMAIN Append(fromChain[m], r) :
        \/ Append(fromChain[m], r)[i] = r
        \/ i \in DOMAIN fromChain[m] /\ Append(fromChain[m], r)[i] = fromChain[m][i]
  BY <1>2, Added
<1>5. \A n \in Vats!Solos : \A i \in DOMAIN fromChain'[n] :
        \/ n = m /\ fromChain'[n][i] = r
        \/ i \in DOMAIN fromChain[n] /\ fromChain'[n][i] = fromChain[n][i]
  BY <1>3, <1>4
<1>6. fromChain' \in [Vats!Solos -> Seq(Replies)]
  <2>1. Append(fromChain[m], r) \in Seq(Replies)  BY <1>2
  <2> QED  BY <1>1, <2>1 DEF VatsTypes
<1>7. RepliesInv'
  BY <1>5 DEF VatsInv, RepliesInv
<1>8. TheController \in Vats!Solos  BY DEF Vats!Solos
<1>9. AnswersInv
  BY DEF VatsInv
<1>10. \A n \in Vats!Solos \ {TheController} : \A i \in DOMAIN fromChain'[n] :
         (fromChain[n][i].ok => MadeFor(fromChain[n][i].bundle, n))'
  <2> SUFFICES ASSUME NEW n \in Vats!Solos \ {TheController}, NEW i \in DOMAIN fromChain'[n],
                      NEW z, z = fromChain'[n][i], z.ok
               PROVE  MadeFor(z.bundle, n)'
    OBVIOUS
  <2>1. CASE n = m /\ z = r  BY <2>1
  <2>2. CASE i \in DOMAIN fromChain[n] /\ z = fromChain[n][i]
    <3>1. MadeFor(z.bundle, n)  BY <1>9, <2>2 DEF AnswersInv
    <3> QED  BY <3>1
  <2> QED  BY <1>5, <2>1, <2>2
<1>11. \A i \in DOMAIN fromChain'[TheController] :
         (fromChain[TheController][i].ok /\ fromChain[TheController][i].post \in DOMAIN posts
          => Provisioned(posts[fromChain[TheController][i].post].key))'
  <2> SUFFICES ASSUME NEW i \in DOMAIN fromChain'[TheController], fromChain'[TheController][i].ok,
                      fromChain'[TheController][i].post \in DOMAIN posts',
                      NEW k, k = posts'[fromChain'[TheController][i].post].key
               PROVE  Provisioned(k)'
    OBVIOUS
  <2>1. CASE TheController = m /\ fromChain'[TheController][i] = r
    BY <2>1
  <2>2. CASE i \in DOMAIN fromChain[TheController]
             /\ fromChain'[TheController][i] = fromChain[TheController][i]
    <3>1. Provisioned(k)  BY <1>9, <2>2 DEF AnswersInv
    <3> QED  BY <3>1
  <2> QED  BY <1>5, <1>8, <2>1, <2>2
<1>12. \A i \in DOMAIN posts' : (posts[i].state = "ok" => Provisioned(posts[i].key))'
  <2> SUFFICES ASSUME NEW i \in DOMAIN posts, posts[i].state = "ok", NEW k, k = posts'[i].key
               PROVE  Provisioned(k)'
    OBVIOUS
  <2>1. Provisioned(k)  BY <1>9 DEF AnswersInv
  <2> QED  BY <2>1
<1>13. \A n \in Vats!Solos : (presences[n].of = "chain" => MadeFor(presences[n].bundle, n))'
  <2> SUFFICES ASSUME NEW n \in Vats!Solos, presences[n].of = "chain",
                      NEW z, z = presences'[n].bundle
               PROVE  MadeFor(z, n)'
    OBVIOUS
  <2>1. MadeFor(z, n)  BY <1>9 DEF AnswersInv
  <2> QED  BY <2>1
<1>14. \A x \in DOMAIN egress' : (egress[x].is = "fetch" => Provisioned(x))'  OBVIOUS
<1>15. AnswersInv'  BY <1>10, <1>11, <1>12, <1>13, <1>14 DEF AnswersInv
<1> QED  BY <1>6, <1>7, <1>15

\* What the chain makes of the first call of m: nothing that was made is lost.
LEMMA ChainAnswers ==
    ASSUME VatsInv, NEW m \in Vats!Solos, NEW c, toChain[m] # <<>>, c = Head(toChain[m]),
           \/ Vats!Ignore(m) \/ Vats!Refuse(m, c.call)
           \/ Vats!Provision(m, c.call) \/ Vats!GetDemoBundle(m, c.call),
           posts' = posts, presences' = presences
    PROVE  /\ bundles' \in Seq(Vats!Solos) /\ egress' \in [DOMAIN egress' -> Objects]
           /\ fromChain' \in [Vats!Solos -> Seq(Replies)]
           /\ RepliesInv' /\ AnswersInv'
<1>1. VatsTypes  BY DEF VatsInv
<1>2. toChain[m] \in Seq(Calls)  BY <1>1 DEF VatsTypes
<1>3. c \in Calls /\ c = toChain[m][1] /\ 1 \in DOMAIN toChain[m]  BY <1>2, Taken
<1>4. /\ c.call \in {"getDemoBundle", "pleaseProvision"} /\ c.post \in Nat
      /\ IF c.call = "pleaseProvision" THEN m = TheController /\ c.post \in DOMAIN posts
                                       ELSE c.post = 0
  BY <1>3 DEF VatsInv, CallsInv, Calls
<1>5. bundles \in Seq(Vats!Solos) /\ Len(bundles) \in Nat  BY <1>1 DEF VatsTypes
<1>6. \A x \in DOMAIN egress : egress[x].is = "fetch" => Provisioned(x)
  BY DEF VatsInv, AnswersInv
<1>7. ASSUME NEW b \in Vats!Solos, bundles' = Append(bundles, b)
      PROVE  /\ bundles' \in Seq(Vats!Solos)
             /\ \A l : l = Len(bundles) + 1 => MadeFor(l, b)'
             /\ \A n, x : MadeFor(n, x) => MadeFor(n, x)'
  <2>1. /\ bundles' \in Seq(Vats!Solos)
        /\ \A i \in DOMAIN bundles : i \in DOMAIN bundles' /\ bundles'[i] = bundles[i]
        /\ \A l : l = Len(bundles) + 1 => l \in DOMAIN bundles' /\ bundles'[l] = b
    BY <1>5, <1>7, Added
  <2> QED  BY <2>1 DEF MadeFor
<1>8. CASE Vats!Ignore(m)
  <2>1. /\ egress' = egress /\ bundles' = bundles /\ fromChain' = fromChain
        /\ \A x \in remotes : x \in remotes'
    BY <1>8 DEF Vats!Ignore
  <2>2. \A n, x : MadeFor(n, x)' <=> MadeFor(n, x)  BY <2>1 DEF MadeFor
  <2>3. \A x : Provisioned(x) => Provisioned(x)'  BY <2>1, <2>2 DEF Provisioned, MadeFor
  <2>4. RepliesInv'  BY <2>1 DEF VatsInv, RepliesInv
  <2>5. AnswersInv'  BY <2>1, ZenonT(30) DEF VatsInv, AnswersInv, Provisioned, MadeFor
  <2> QED  BY <1>1, <2>1, <2>4, <2>5 DEF VatsTypes
<1>9. CASE Vats!Refuse(m, c.call)
  <2> DEFINE r == [ok |-> FALSE, post |-> c.post, bundle |-> 0]
  <2>1. /\ egress' = egress /\ bundles' = bundles /\ remotes' = remotes
        /\ fromChain' = [fromChain EXCEPT ![m] = Append(@, r)]
    BY <1>9 DEF Vats!Refuse, Vats!Reply
  <2>2. r \in Replies /\ r.ok = FALSE /\ r.post \in {0} \cup DOMAIN posts
    BY <1>4 DEF Replies
  <2> HIDE DEF r
  <2>3. \A n, x : MadeFor(n, x) => MadeFor(n, x)'  BY <2>1 DEF MadeFor
  <2>4. \A x : Provisioned(x) => Provisioned(x)'  BY <2>1 DEF Provisioned, MadeFor
  <2>5. \A x \in DOMAIN egress' : egress'[x].is = "fetch" => Provisioned(x)'
    BY <1>6, <2>1, <2>4
  <2>6. fromChain' \in [Vats!Solos -> Seq(Replies)] /\ RepliesInv' /\ AnswersInv'
    BY <2>1, <2>2, <2>3, <2>4, <2>5, ReplyKeeps
  <2> QED  BY <1>1, <2>1, <2>6 DEF VatsTypes
<1>10. CASE Vats!Provision(m, c.call)
  <2> DEFINE k == posts[c.post].key
             f == Vats!Object("fetch", Len(bundles) + 1)
  <2>1. m = TheController /\ c.post \in DOMAIN posts
    BY <1>4, <1>10 DEF Vats!Provision
  <2>2. k \in Clients /\ k \in Vats!Solos
    <3>1. posts[c.post] \in Posts  BY <1>1, <2>1 DEF VatsTypes
    <3> QED  BY <3>1 DEF Posts, Vats!Solos
  <2>3. bundles' = Append(bundles, k)
    BY <1>10 DEF Vats!Provision
  <2>4. f \in Objects /\ f.is = "fetch" /\ f.bundle = Len(bundles) + 1
    BY <1>5 DEF Vats!Object, Objects
  <2>5. \/ /\ remotes' = remotes \cup {k} /\ egress' = Vats!With(egress, k, f)
           /\ fromChain' = [fromChain EXCEPT ![m] =
                              Append(@, [ok |-> TRUE, post |-> c.post, bundle |-> 0])]
        \/ /\ remotes' = remotes /\ egress' = egress
           /\ fromChain' = [fromChain EXCEPT ![m] =
                              Append(@, [ok |-> FALSE, post |-> c.post, bundle |-> 0])]
    BY <1>10 DEF Vats!Provision, Vats!Reply
  <2> HIDE DEF f
  <2>6. PICK kk : kk = k  OBVIOUS
  <2> HIDE DEF k
  <2>7. /\ bundles' \in Seq(Vats!Solos)
        /\ \A l : l = Len(bundles) + 1 => MadeFor(l, kk)'
        /\ \A n, x : MadeFor(n, x) => MadeFor(n, x)'
    BY <1>7, <2>2, <2>3, <2>6
  <2>8. ASSUME remotes' = remotes \cup {k}, egress' = Vats!With(egress, k, f)
        PROVE  /\ egress' \in [DOMAIN egress' -> Objects]
               /\ Provisioned(kk)'
               /\ \A x : Provisioned(x) => Provisioned(x)'
               /\ \A x \in DOMAIN egress' : egress'[x].is = "fetch" => Provisioned(x)'
    <3>1. /\ DOMAIN egress' = DOMAIN egress \cup {kk}
          /\ egress'[kk] = f /\ \A x \in DOMAIN egress : x # kk => egress'[x] = egress[x]
      BY <2>6, <2>8 DEF Vats!With
    <3>2. egress' \in [DOMAIN egress' -> Objects]
      BY <1>1, <2>4, <2>6, <2>8 DEF VatsTypes, Vats!With
    <3>3. Provisioned(kk)'
      <4>1. MadeFor(egress[kk].bundle, kk)'  BY <2>4, <2>7, <3>1 DEF MadeFor
      <4> QED  BY <2>4, <2>6, <2>8, <3>1, <4>1 DEF Provisioned
    <3>4. ASSUME NEW x, Provisioned(x), x # kk  PROVE Provisioned(x)'
      <4>1. x \in remotes /\ x \in DOMAIN egress /\ egress[x].is = "fetch"
            /\ MadeFor(egress[x].bundle, x)
        BY <3>4 DEF Provisioned
      <4>2. egress'[x] = egress[x] /\ x \in DOMAIN egress'  BY <3>1, <3>4, <4>1
      <4>3. MadeFor(egress[x].bundle, x)'  BY <2>7, <4>1, <4>2 DEF MadeFor
      <4> QED  BY <2>8, <4>1, <4>2, <4>3 DEF Provisioned
    <3>5. \A x : Provisioned(x) => Provisioned(x)'  BY <3>3, <3>4
    <3>6. \A x \in DOMAIN egress' : egress'[x].is = "fetch" => Provisioned(x)'
      BY <1>6, <3>1, <3>3, <3>5
    <3> QED  BY <3>2, <3>3, <3>5, <3>6
  <2>9. ASSUME remotes' = remotes, egress' = egress
        PROVE  /\ \A x : Provisioned(x) => Provisioned(x)'
               /\ \A x \in DOMAIN egress' : egress'[x].is = "fetch" => Provisioned(x)'
    <3>1. \A x : Provisioned(x) => Provisioned(x)'
      BY <2>7, <2>9 DEF Provisioned, MadeFor
    <3> QED  BY <1>6, <2>9, <3>1
  <2>10. CASE remotes' = remotes \cup {k} /\ egress' = Vats!With(egress, k, f)
              /\ fromChain' = [fromChain EXCEPT ![m] =
                                 Append(@, [ok |-> TRUE, post |-> c.post, bundle |-> 0])]
    <3> DEFINE r == [ok |-> TRUE, post |-> c.post, bundle |-> 0]
    <3>1. r \in Replies /\ r.post = c.post  BY <1>4 DEF Replies
    <3>2. fromChain' = [fromChain EXCEPT ![m] = Append(@, r)]  BY <2>10
    <3> HIDE DEF r
    <3>3. \A i \in DOMAIN posts : r.post = i => posts'[i].key = kk
      BY <2>6, <3>1 DEF k
    <3>4. \A i \in DOMAIN posts : r.post = i => Provisioned(posts[i].key)'
      <4>1. Provisioned(kk)'  BY <2>8, <2>10
      <4> QED  BY <3>3, <4>1 DEF Provisioned
    <3>5. fromChain' \in [Vats!Solos -> Seq(Replies)] /\ RepliesInv' /\ AnswersInv'
      BY <2>1, <2>7, <2>8, <2>10, <3>1, <3>2, <3>4, ReplyKeeps, ZenonT(30)
    <3> QED  BY <2>7, <2>8, <2>10, <3>5
  <2>11. CASE remotes' = remotes /\ egress' = egress
              /\ fromChain' = [fromChain EXCEPT ![m] =
                                 Append(@, [ok |-> FALSE, post |-> c.post, bundle |-> 0])]
    <3> DEFINE r == [ok |-> FALSE, post |-> c.post, bundle |-> 0]
    <3>1. r \in Replies /\ r.post = c.post /\ r.ok = FALSE  BY <1>4 DEF Replies
    <3>2. fromChain' = [fromChain EXCEPT ![m] = Append(@, r)]  BY <2>11
    <3> HIDE DEF r
    <3>3. fromChain' \in [Vats!Solos -> Seq(Replies)] /\ RepliesInv' /\ AnswersInv'
      BY <2>1, <2>7, <2>9, <2>11, <3>1, <3>2, ReplyKeeps
    <3> QED  BY <1>1, <2>7, <2>11, <3>3 DEF VatsTypes
  <2> QED  BY <2>5, <2>10, <2>11
<1>11. CASE Vats!GetDemoBundle(m, c.call)
  <2>1. /\ m \in DOMAIN egress /\ egress' = egress /\ remotes' = remotes
        /\ c.call = "getDemoBundle"
    BY <1>11 DEF Vats!GetDemoBundle, Vats!HasBundle
  <2>2. c.post = 0 /\ 0 \notin DOMAIN posts
    <3>1. posts \in Seq(Posts)  BY <1>1 DEF VatsTypes
    <3> QED  BY <1>4, <2>1, <3>1
  <2>3. PICK n \in Nat :
          /\ fromChain' = [fromChain EXCEPT ![m] =
                             Append(@, [ok |-> TRUE, post |-> c.post, bundle |-> n])]
          /\ \/ egress[m].is = "fetch" /\ n = egress[m].bundle /\ bundles' = bundles
             \/ n = Len(bundles) + 1 /\ bundles' = Append(bundles, m)
    <3>1. egress[m].bundle \in Nat  BY <1>1, <2>1 DEF VatsTypes, Objects
    <3>2. Len(bundles) + 1 \in Nat  BY <1>5
    <3> QED  BY <1>11, <3>1, <3>2 DEF Vats!GetDemoBundle, Vats!Reply
  <2>4. /\ bundles' \in Seq(Vats!Solos) /\ MadeFor(n, m)'
        /\ \A i, x : MadeFor(i, x) => MadeFor(i, x)'
    <3>1. CASE egress[m].is = "fetch" /\ n = egress[m].bundle /\ bundles' = bundles
      <4>1. MadeFor(n, m)  BY <1>6, <2>1, <3>1 DEF Provisioned
      <4> QED  BY <1>5, <3>1, <4>1 DEF MadeFor
    <3>2. CASE n = Len(bundles) + 1 /\ bundles' = Append(bundles, m)
      BY <1>7, <3>2
    <3> QED  BY <2>3, <3>1, <3>2
  <2>5. \A x : Provisioned(x) => Provisioned(x)'
    BY <2>1, <2>4 DEF Provisioned, MadeFor
  <2>6. \A x \in DOMAIN egress' : egress'[x].is = "fetch" => Provisioned(x)'
    BY <1>6, <2>1, <2>5
  <2> DEFINE r == [ok |-> TRUE, post |-> c.post, bundle |-> n]
  <2>7. r \in Replies /\ r.post = 0 /\ r.bundle = n  BY <2>2 DEF Replies
  <2>8. fromChain' = [fromChain EXCEPT ![m] = Append(@, r)]  BY <2>3
  <2> HIDE DEF r
  <2>9. MadeFor(r.bundle, m)'  BY <2>4, <2>7
  <2>10. \A i \in DOMAIN posts : r.post # i  BY <2>2, <2>7
  <2>11. fromChain' \in [Vats!Solos -> Seq(Replies)] /\ RepliesInv' /\ AnswersInv'
    BY <2>4, <2>5, <2>6, <2>7, <2>8, <2>9, <2>10, ReplyKeeps
  <2> QED  BY <1>1, <2>1, <2>4, <2>11 DEF VatsTypes
<1> QED  BY <1>8, <1>9, <1>10, <1>11

\* The chain hears a solo.
LEMMA ChainHearsKeeps ==
    ASSUME VatsInv, NEW m \in Vats!Solos, Vats!ChainHears(m)
    PROVE  VatsInv'
<1>1. /\ up[TheChain] \in {"running", "thrown"} /\ toChain[m] # <<>>
      /\ \/ Vats!Ignore(m) \/ Vats!Refuse(m, Head(toChain[m]).call)
         \/ Vats!Provision(m, Head(toChain[m]).call)
         \/ Vats!GetDemoBundle(m, Head(toChain[m]).call)
      /\ toChain' = [toChain EXCEPT ![m] = Tail(@)]
      /\ up' = up /\ posts' = posts /\ presences' = presences
  BY DEF Vats!ChainHears
<1>2. /\ bundles' \in Seq(Vats!Solos) /\ egress' \in [DOMAIN egress' -> Objects]
      /\ fromChain' \in [Vats!Solos -> Seq(Replies)]
      /\ RepliesInv' /\ AnswersInv'
  BY <1>1, ChainAnswers
<1>3. VatsTypes  BY DEF VatsInv
<1>4. toChain[m] \in Seq(Calls)  BY <1>3 DEF VatsTypes
<1>5. /\ Tail(toChain[m]) \in Seq(Calls)
      /\ \A i \in DOMAIN Tail(toChain[m]) :
           i + 1 \in DOMAIN toChain[m] /\ Tail(toChain[m])[i] = toChain[m][i + 1]
  BY <1>1, <1>4, Taken
<1>6. /\ toChain' \in [Vats!Solos -> Seq(Calls)]
      /\ \A n \in Vats!Solos : toChain'[n] = IF n = m THEN Tail(toChain[m]) ELSE toChain[n]
  BY <1>1, <1>3, <1>5 DEF VatsTypes
<1>7. VatsTypes'  BY <1>1, <1>2, <1>3, <1>6 DEF VatsTypes
<1>8. CallsInv'
  <2> SUFFICES ASSUME NEW n \in Vats!Solos, NEW i \in DOMAIN toChain'[n]
               PROVE  IF toChain'[n][i].call = "pleaseProvision"
                      THEN n = TheController /\ toChain'[n][i].post \in DOMAIN posts'
                      ELSE toChain'[n][i].post = 0
    BY DEF CallsInv
  <2>1. \E j \in DOMAIN toChain[n] : toChain'[n][i] = toChain[n][j]
    BY <1>5, <1>6
  <2> QED  BY <1>1, <2>1 DEF VatsInv, CallsInv
<1>9. QuietInv'  BY <1>1 DEF QuietInv
<1> QED  BY <1>2, <1>7, <1>8, <1>9 DEF VatsInv

\* The first reply of the chain to m, and what is left of the others.
LEMMA SoloTakes ==
    ASSUME VatsInv, NEW m \in Vats!Solos, fromChain[m] # <<>>,
           fromChain' = [fromChain EXCEPT ![m] = Tail(@)]
    PROVE  /\ Head(fromChain[m]) \in Replies
           /\ 1 \in DOMAIN fromChain[m] /\ Head(fromChain[m]) = fromChain[m][1]
           /\ fromChain' \in [Vats!Solos -> Seq(Replies)]
           /\ \A n \in Vats!Solos : \A i \in DOMAIN fromChain'[n] :
                \E j \in DOMAIN fromChain[n] : fromChain'[n][i] = fromChain[n][j]
<1>1. fromChain \in [Vats!Solos -> Seq(Replies)]  BY DEF VatsInv, VatsTypes
<1>2. fromChain[m] \in Seq(Replies)  BY <1>1
<1>3. /\ Head(fromChain[m]) = fromChain[m][1] /\ Head(fromChain[m]) \in Replies
      /\ 1 \in DOMAIN fromChain[m]
      /\ Tail(fromChain[m]) \in Seq(Replies)
      /\ \A i \in DOMAIN Tail(fromChain[m]) :
           i + 1 \in DOMAIN fromChain[m] /\ Tail(fromChain[m])[i] = fromChain[m][i + 1]
  BY <1>2, Taken
<1>4. /\ fromChain' \in [Vats!Solos -> Seq(Replies)]
      /\ \A n \in Vats!Solos : fromChain'[n] = IF n = m THEN Tail(fromChain[m]) ELSE fromChain[n]
  BY <1>1, <1>3
<1>5. \A n \in Vats!Solos : \A i \in DOMAIN fromChain'[n] :
        \E j \in DOMAIN fromChain[n] : fromChain'[n][i] = fromChain[n][j]
  BY <1>3, <1>4
<1> QED  BY <1>3, <1>4, <1>5

\* A solo hears the chain: its post is answered, or it has its presences.
LEMMA SoloHearsKeeps ==
    ASSUME VatsInv, NEW m \in Vats!Solos, Vats!SoloHears(m)
    PROVE  VatsInv'
<1>1. /\ fromChain[m] # <<>> /\ fromChain' = [fromChain EXCEPT ![m] = Tail(@)]
      /\ up' = up /\ remotes' = remotes /\ egress' = egress /\ bundles' = bundles
      /\ toChain' = toChain
  BY DEF Vats!SoloHears, Vats!SendResponse, Vats!SetPresences
<1>2. /\ Head(fromChain[m]) \in Replies
      /\ 1 \in DOMAIN fromChain[m] /\ Head(fromChain[m]) = fromChain[m][1]
      /\ fromChain' \in [Vats!Solos -> Seq(Replies)]
      /\ \A n \in Vats!Solos : \A i \in DOMAIN fromChain'[n] :
           \E j \in DOMAIN fromChain[n] : fromChain'[n][i] = fromChain[n][j]
  BY <1>1, SoloTakes
<1>3. PICK r \in Replies : r = Head(fromChain[m])  BY <1>2
<1>4. VatsTypes /\ AnswersInv  BY DEF VatsInv
<1>5. up[TheChain] \notin {"off", "listening"}
  BY <1>1 DEF VatsInv, QuietInv
<1>6. QuietInv'  BY <1>1, <1>5 DEF QuietInv
<1>7. TheController \in Vats!Solos  BY DEF Vats!Solos
<1>8. \A n \in Vats!Solos \ {TheController} : \A i \in DOMAIN fromChain'[n] :
        fromChain'[n][i].ok => fromChain'[n][i].bundle \in DOMAIN bundles
                               /\ bundles[fromChain'[n][i].bundle] = n
  BY <1>2, <1>4 DEF AnswersInv, MadeFor
<1>9. \A x \in DOMAIN egress' : (egress[x].is = "fetch" => Provisioned(x))'
  BY <1>1, <1>4 DEF AnswersInv, Provisioned, MadeFor
<1>10. \A n \in Vats!Solos \ {TheController} : \A i \in DOMAIN fromChain'[n] :
         (fromChain[n][i].ok => MadeFor(fromChain[n][i].bundle, n))'
  BY <1>1, <1>8 DEF MadeFor
<1>11. CASE Vats!SendResponse(m)
  <2> DEFINE state == IF r.ok THEN "ok" ELSE "error"
  <2>1. /\ m = TheController /\ presences' = presences
        /\ posts' = [posts EXCEPT ![r.post].state = state]
    BY <1>3, <1>11 DEF Vats!SendResponse
  <2>2. state \in {"ok", "error"} /\ (state = "ok" => r.ok)  OBVIOUS
  <2> HIDE DEF state
  <2>3. posts \in Seq(Posts)  BY <1>4 DEF VatsTypes
  <2>4. /\ DOMAIN posts' = DOMAIN posts
        /\ \A i \in DOMAIN posts : posts[i] \in Posts
        /\ \A i \in DOMAIN posts :
             posts'[i] = IF i = r.post THEN [posts[i] EXCEPT !.state = state] ELSE posts[i]
    BY <2>1, <2>3
  <2>5. \A i \in DOMAIN posts : posts'[i] \in Posts /\ posts'[i].key = posts[i].key
    BY <2>2, <2>4 DEF Posts
  <2>6. \A i \in DOMAIN posts : posts'[i].state = "ok" =>
           posts[i].state = "ok" \/ (i = r.post /\ r.ok)
    BY <2>2, <2>4 DEF Posts
  <2>7. posts' \in Seq(Posts)
    <3>1. posts' = [posts EXCEPT ![r.post] = posts'[r.post]]  BY <2>1, <2>4
    <3>2. Len(posts) \in Nat /\ DOMAIN posts = 1..Len(posts)  BY <2>3
    <3>3. posts' \in [1..Len(posts) -> Posts]
      <4>1. posts' = [i \in DOMAIN posts |-> posts'[i]]  BY <2>1, <2>4
      <4> QED  BY <2>5, <3>2, <4>1
    <3> QED  BY <3>2, <3>3
  <2>8. VatsTypes'  BY <1>1, <1>2, <1>4, <2>1, <2>7 DEF VatsTypes
  <2>9. CallsInv'  BY <1>1, <2>4 DEF VatsInv, CallsInv
  <2>10. RepliesInv'  BY <1>2, <2>4, SMTT(30) DEF VatsInv, RepliesInv
  <2>11. \A x : Provisioned(x)' <=> Provisioned(x)  BY <1>1 DEF Provisioned, MadeFor
  <2>12. \A i \in DOMAIN posts' : (posts[i].state = "ok" => Provisioned(posts[i].key))'
    <3> SUFFICES ASSUME NEW i \in DOMAIN posts, posts'[i].state = "ok",
                        NEW k, k = posts'[i].key
                 PROVE  Provisioned(k)'
      BY <2>4
    <3>1. k = posts[i].key  BY <2>5
    <3>2. CASE posts[i].state = "ok"  BY <1>4, <2>11, <3>1, <3>2 DEF AnswersInv
    <3>3. CASE i = r.post /\ r.ok
      <4>1. Provisioned(k)  BY <1>2, <1>3, <1>4, <2>1, <3>1, <3>3 DEF AnswersInv
      <4> QED  BY <2>11, <4>1
    <3> QED  BY <2>6, <3>2, <3>3
  <2>13. \A i \in DOMAIN fromChain'[TheController] :
         (fromChain[TheController][i].ok /\ fromChain[TheController][i].post \in DOMAIN posts
          => Provisioned(posts[fromChain[TheController][i].post].key))'
    <3> SUFFICES ASSUME NEW i \in DOMAIN fromChain'[TheController], NEW z,
                        z = fromChain'[TheController][i], z.ok, z.post \in DOMAIN posts,
                        NEW k, k = posts'[z.post].key
                 PROVE  Provisioned(k)'
      BY <2>4
    <3>1. k = posts[z.post].key  BY <2>5
    <3>2. \E j \in DOMAIN fromChain[TheController] : z = fromChain[TheController][j]
      BY <1>2, <1>7
    <3>3. Provisioned(k)  BY <1>4, <3>1, <3>2 DEF AnswersInv
    <3> QED  BY <2>11, <3>3
  <2>14. \A n \in Vats!Solos : (presences[n].of = "chain" => MadeFor(presences[n].bundle, n))'
    BY <1>1, <1>4, <2>1 DEF AnswersInv, MadeFor
  <2>15. AnswersInv'  BY <1>9, <1>10, <2>12, <2>13, <2>14 DEF AnswersInv
  <2> QED  BY <1>6, <2>8, <2>9, <2>10, <2>15 DEF VatsInv
<1>12. CASE Vats!SetPresences(m)
  <2>1. /\ m # TheController /\ posts' = posts
        /\ presences' = IF r.ok THEN [presences EXCEPT ![m] = Vats!OfChain(r.bundle)]
                                ELSE presences
    BY <1>3, <1>12 DEF Vats!SetPresences
  <2>2. /\ presences' \in [Vats!Solos -> Presences]
        /\ \A n \in Vats!Solos : \/ presences'[n] = presences[n]
                                 \/ n = m /\ r.ok /\ presences'[n].bundle = r.bundle
    <3>1. Vats!OfChain(r.bundle) \in Presences /\ Vats!OfChain(r.bundle).bundle = r.bundle
      BY DEF Vats!OfChain, Presences, Replies
    <3> QED  BY <1>4, <2>1, <3>1 DEF VatsTypes
  <2>3. VatsTypes'  BY <1>1, <1>2, <1>4, <2>1, <2>2 DEF VatsTypes
  <2>4. CallsInv'  BY <1>1, <2>1 DEF VatsInv, CallsInv
  <2>5. RepliesInv'  BY <1>2, <2>1 DEF VatsInv, RepliesInv
  <2>6. r.ok => r.bundle \in DOMAIN bundles /\ bundles[r.bundle] = m
    BY <1>2, <1>3, <1>4, <2>1 DEF AnswersInv, MadeFor
  <2>7. \A n \in Vats!Solos : presences'[n].of = "chain" =>
          presences'[n].bundle \in DOMAIN bundles /\ bundles[presences'[n].bundle] = n
    BY <1>4, <2>2, <2>6 DEF AnswersInv, MadeFor
  <2>8. \A i \in DOMAIN fromChain'[TheController] :
          \E j \in DOMAIN fromChain[TheController] :
            fromChain'[TheController][i] = fromChain[TheController][j]
    BY <1>2, <1>7
  <2>9. \A n \in Vats!Solos : (presences[n].of = "chain" => MadeFor(presences[n].bundle, n))'
    BY <1>1, <2>7 DEF MadeFor
  <2>10. \A i \in DOMAIN posts' : (posts[i].state = "ok" => Provisioned(posts[i].key))'
    BY <1>1, <1>4, <2>1 DEF AnswersInv, Provisioned, MadeFor
  <2>11. \A i \in DOMAIN fromChain'[TheController] :
         (fromChain[TheController][i].ok /\ fromChain[TheController][i].post \in DOMAIN posts
          => Provisioned(posts[fromChain[TheController][i].post].key))'
    <3> SUFFICES ASSUME NEW i \in DOMAIN fromChain'[TheController], NEW z,
                        z = fromChain'[TheController][i], z.ok, z.post \in DOMAIN posts,
                        NEW k, k = posts[z.post].key
                 PROVE  Provisioned(k)'
      BY <2>1
    <3>1. Provisioned(k)  BY <1>4, <2>8 DEF AnswersInv
    <3> QED  BY <1>1, <3>1 DEF Provisioned, MadeFor
  <2>12. AnswersInv'  BY <1>9, <1>10, <2>9, <2>10, <2>11 DEF AnswersInv
  <2> QED  BY <1>6, <2>3, <2>4, <2>5, <2>12 DEF VatsInv
<1> QED  BY <1>11, <1>12 DEF Vats!SoloHears

-----------------------------------------------------------------------------
(* The theorem about the vats. *)

\* Every step keeps the invariant.
LEMMA VatsStep ==
    ASSUME VatsInv, [Vats!Next]_vatVars
    PROVE  VatsInv'
<1>1. ASSUME NEW m \in Vats!Machines, Vats!Start(m)  PROVE VatsInv'  BY <1>1, StartKeeps
<1>2. CASE Vats!ChainBoot  BY <1>2, ChainBootKeeps
<1>3. ASSUME NEW m \in Vats!Solos, Vats!SoloBoot(m)  PROVE VatsInv'  BY <1>3, SoloBootKeeps
<1>4. ASSUME NEW m \in Vats!Solos, Vats!ChainHears(m)  PROVE VatsInv'
  BY <1>4, ChainHearsKeeps
<1>5. ASSUME NEW m \in Vats!Solos, Vats!SoloHears(m)  PROVE VatsInv'
  BY <1>5, SoloHearsKeeps
<1>6. ASSUME NEW k \in Clients, Vats!PleaseProvision(k)  PROVE VatsInv'
  BY <1>6, PleaseProvisionKeeps
<1>7. CASE UNCHANGED vatVars
  <2>1. /\ up' = up /\ remotes' = remotes /\ egress' = egress /\ bundles' = bundles
        /\ posts' = posts /\ toChain' = toChain /\ fromChain' = fromChain
        /\ presences' = presences
    BY <1>7 DEF vatVars
  <2>2. VatsTypes'  BY <2>1 DEF VatsInv, VatsTypes
  <2>3. CallsInv' /\ RepliesInv'  BY <2>1 DEF VatsInv, CallsInv, RepliesInv
  <2>4. QuietInv'  BY <2>1 DEF VatsInv, QuietInv
  <2>5. \A n, m : MadeFor(n, m)' <=> MadeFor(n, m)  BY <2>1 DEF MadeFor
  <2>6. \A k : Provisioned(k)' <=> Provisioned(k)  BY <2>1 DEF Provisioned, MadeFor
  <2>7. AnswersInv'  BY <2>1, <2>5, <2>6 DEF VatsInv, AnswersInv
  <2> QED  BY <2>2, <2>3, <2>4, <2>7 DEF VatsInv
<1> QED  BY <1>1, <1>2, <1>3, <1>4, <1>5, <1>6, <1>7 DEF Vats!Next

\* Initially nobody has asked or answered.
LEMMA VatsStart ==
    ASSUME Vats!Init
    PROVE  VatsInv
<1>1. /\ up = [m \in Vats!Machines |-> "off"]
      /\ remotes = {} /\ egress = <<>> /\ bundles = <<>> /\ posts = <<>>
      /\ toChain = [m \in Vats!Solos |-> <<>>] /\ fromChain = [m \in Vats!Solos |-> <<>>]
      /\ presences = [m \in Vats!Solos |-> Vats!LOADING]
  BY DEF Vats!Init
<1>2. Vats!LOADING \in Presences /\ Vats!LOADING.of = "nobody"
  BY DEF Vats!LOADING, Presences
<1>3. TheController \in Vats!Solos  BY DEF Vats!Solos
<1>4. VatsTypes  BY <1>1, <1>2 DEF VatsTypes
<1>5. CallsInv /\ RepliesInv  BY <1>1 DEF CallsInv, RepliesInv
<1>6. QuietInv  BY <1>1, <1>2 DEF QuietInv
<1>7. AnswersInv  BY <1>1, <1>2, <1>3 DEF AnswersInv
<1> QED  BY <1>4, <1>5, <1>6, <1>7 DEF VatsInv

\* For any clients, command lines and requests, started in any order: a request
\* to provision that is answered has its key served by the chain, and nobody gets
\* a bundle that was made for another (vat-http.js pleaseProvision,
\* vat-provisioning.js, bootstrap.js).
THEOREM AnswersAreTrue == MCSpec => []AnsweredIsProvisioned
<1>1. MCInit => VatsInv  BY VatsStart DEF MCInit
<1>2. VatsInv /\ [MCNext]_mcVars => VatsInv'  BY EachPart, VatsStep
<1>3. VatsInv => AnsweredIsProvisioned
  BY DEF VatsInv, AnswersInv, Provisioned, MadeFor, AnsweredIsProvisioned,
         Vats!AnsweredIsProvisioned
<1> QED  BY <1>1, <1>2, <1>3, PTL DEF MCSpec, mcVars

=============================================================================
