-------------------------- MODULE Deployment_proofs --------------------------
(***************************************************************************)
(* What the deployment scripts keep, for any tokens, pools, controllers    *)
(* and scripts that are in order (OrderAssumption), however often a run    *)
(* fails, is killed and is started again, and however many releases there  *)
(* are; and, last, that runs which nothing disturbs reach their end.       *)
(*                                                                         *)
(* None of the properties is inductive alone.  A record's address is       *)
(* stable because it is one of the chain's, the core's addresses follow    *)
(* the records because a plan is made before its list is sent and its      *)
(* three writes come after, and a complete run is consistent because every *)
(* step it passed has had its effect and none undoes another's.            *)
(* DeploymentInv says so of the data (DataInv) and of the place of the run *)
(* (PlaceInv); each step of the scripts has a lemma ...Inv.                *)
(***************************************************************************)
EXTENDS Deployment, TLAPS, FiniteSetTheorems, SequenceTheorems

Steps == Programs[network]

\* The step the run is at: those before it have had their effect, in this run.
Reach == IF pc # 0 THEN pc ELSE IF complete THEN Len(Steps) + 1 ELSE 1

OnlyRecorded(n) == \E i \in DOMAIN Steps : Does(Steps, i, "external", n)
Replacing == {"forget", "rewrite", "drop"}
Saved == {"deploy", "upgraded", "proxy", "beacon", "fund", "pool"}

Plannable  == Tokens \cup Controllers("local") \cup {"WSTETHOracle"}
LinkMaps   == UNION {[S -> Nat] : S \in SUBSET Names}
Instances  == [impl : Nat, links : LinkMaps]
RecordType == [id : Nat, abi : 0..version]

DataTypes ==
  /\ records \in [Names -> RecordType] /\ newRecords \in [Names -> RecordType]
  /\ chain \in [Names -> Seq(Instances)]
  /\ \A n \in Names : \A i \in DOMAIN chain[n] : chain[n][i].impl \in 1..version
  /\ core \in [controllers : [Controllers("local") -> Nat], listed : SUBSET FeedTokens,
               feeds : [Tokens -> Nat], valueTokens : SUBSET ValueTokens, minDeposit : Nat]
  /\ deposits \in [Pools -> [queued : Nat, settled : Nat]]
ControlTypes ==
  /\ network \in Deployed /\ version \in 1..MaxVersion /\ faults \in 0..MaxFaults[network]
  /\ pc \in 0..Len(Steps) /\ phase \in {"send", "save"}
  /\ step = IF pc = 0 THEN NoStep ELSE Steps[pc]
  /\ failures \in Nat /\ failures < step.attempts
  /\ complete \in BOOLEAN /\ (complete => pc = 0)
  /\ plan \in [list : SUBSET Plannable, update : SUBSET Plannable, old : RecordType]
  /\ pc = 0 => phase = "send" /\ failures = 0
  /\ phase = "save" => Op \in Saved

\* A new contract is linked to nothing.
LEMMA NoLinks == <<>> \in LinkMaps
<1>1. <<>> \in [{} -> Nat]
  OBVIOUS
<1>. QED BY <1>1 DEF LinkMaps

\* What a step makes has a record of its own.
LEMMA NamesMade ==
  ASSUME NEW env \in Deployed, NEW i \in DOMAIN Programs[env], Programs[env][i].op \in Making
  PROVE  Programs[env][i].name \in Names
BY DEF Names, ToSet

\* ... and so has all that was made before a step.
LEMMA MadeAreNames ==
  ASSUME NEW env \in Deployed, NEW i \in Nat, i <= Len(Programs[env]) + 1
  PROVE  MadeBefore(Programs[env], i) \subseteq Names
<1>1. Len(Programs[env]) \in Nat /\ DOMAIN Programs[env] = 1..Len(Programs[env])
  BY OrderAssumption
<1>. QED BY <1>1, NamesMade DEF MadeBefore

\* The next step finds made what this one makes too.
LEMMA MadeNext ==
  ASSUME NEW program, NEW i \in Nat \ {0}
  PROVE  MadeBefore(program, i + 1)
           = MadeBefore(program, i) \cup (IF program[i].op \in Making THEN {program[i].name} ELSE {})
BY DEF MadeBefore

\* The local environment has every controller, so every record that is replaced.
LEMMA ControllersOfEnv ==
  ASSUME NEW env \in Environments
  PROVE  Controllers(env) \subseteq Controllers("local") /\ Replaceable(env) \subseteq Replaceable("local")
BY DEF Environments, Controllers, ControllerNames, IsTestnet, Replaceable, ToSet

-----------------------------------------------------------------------------
(* Where a run goes                                                        *)

Stays ==
  /\ failures' = failures + 1 /\ failures' < step.attempts
  /\ UNCHANGED <<pc, step, phase, plan, complete>>
Saves == phase' = "save" /\ UNCHANGED <<pc, step, failures, plan, complete>>
Passes ==
  /\ IF Op \in Saved THEN Saves ELSE Advance
  /\ UNCHANGED plan

\* What a transaction does to the run; it does nothing to the records.
Sending ==
  /\ pc # 0 /\ phase = "send" /\ (Needed \/ failures > 0)
  /\ UNCHANGED <<network, version, records, newRecords>>
  /\ faults' \in 0..MaxFaults[network]

\* Between the runs there is no step, and nothing to retry.
LEMMA NoStepOp == NoStep.attempts = 1 /\ NoStep.op = "none"
BY DEF NoStep

\* During a run the step is one of the script's, and the run is not complete.
LEMMA AtStep ==
  ASSUME ControlTypes, pc # 0
  PROVE  /\ pc \in DOMAIN Steps /\ pc \in Nat /\ step = Steps[pc] /\ ~complete
         /\ DOMAIN Steps = 1..Len(Steps) /\ Len(Steps) \in Nat
BY OrderAssumption DEF ControlTypes, Steps

\* The types after a run that failed or was killed.
LEMMA EndTypes ==
  ASSUME ControlTypes, network' = network, version' = version, faults' \in 0..MaxFaults[network],
         Abort
  PROVE  ControlTypes'
<1>1. pc' = 0 /\ step' = NoStep /\ phase' = "send" /\ failures' = 0 /\ plan' = NoPlan
  BY DEF Abort
<1>2. complete' = complete /\ complete \in BOOLEAN
  BY DEF Abort, ControlTypes
<1>3. Steps' = Steps /\ RecordType' = RecordType /\ 0 \in 0..Len(Steps)
  <2>1. Len(Steps) \in Nat
    BY OrderAssumption DEF ControlTypes, Steps
  <2>. QED BY <2>1 DEF Steps, RecordType
<1>4. NoPlan \in [list : SUBSET Plannable, update : SUBSET Plannable, old : RecordType]
  <2>1. NoRecord \in RecordType
    BY DEF NoRecord, RecordType, ControlTypes
  <2>. QED BY <2>1 DEF NoPlan
<1>5. failures' < step'.attempts
  BY <1>1, NoStepOp
<1>6. network' \in Deployed /\ version' \in 1..MaxVersion /\ faults' \in 0..MaxFaults[network']
  BY DEF ControlTypes
<1>. QED BY <1>1, <1>2, <1>3, <1>4, <1>5, <1>6 DEF ControlTypes

\* The types after a step forward: to a step of the script, or to its end.
LEMMA AdvanceTypes ==
  ASSUME ControlTypes, network' = network, version' = version, faults' \in 0..MaxFaults[network],
         plan' \in [list : SUBSET Plannable, update : SUBSET Plannable, old : RecordType],
         pc # 0, NEW n \in Nat \ {0}, AdvanceBy(n)
  PROVE  ControlTypes'
<1>1. \A i \in 1..Len(Steps) : Steps[i].attempts \in Nat \ {0}
  BY OrderAssumption DEF ControlTypes, Steps
<1>2. /\ pc \in Nat /\ DOMAIN Steps = 1..Len(Steps) /\ Len(Steps) \in Nat
      /\ Steps' = Steps /\ RecordType' = RecordType
  BY AtStep DEF Steps, RecordType
<1>3. /\ network' \in Deployed /\ version' \in 1..MaxVersion /\ faults' \in 0..MaxFaults[network']
      /\ phase' = "send" /\ failures' = 0
  BY DEF ControlTypes, AdvanceBy
<1>4. CASE pc + n <= Len(Steps)
  <2>1. pc' = pc + n /\ step' = Steps[pc + n] /\ complete' = FALSE
    BY <1>4 DEF AdvanceBy, Steps
  <2>2. pc + n \in 1..Len(Steps)
    BY <1>2, <1>4
  <2>3. step'.attempts \in Nat \ {0}
    BY <1>1, <2>1, <2>2
  <2>4. /\ pc' \in 0..Len(Steps') /\ pc' # 0
        /\ step' = Steps'[pc'] /\ failures' \in Nat /\ failures' < step'.attempts
    BY <1>2, <1>3, <2>1, <2>2, <2>3
  <2>5. plan' \in [list : SUBSET Plannable, update : SUBSET Plannable, old : RecordType']
    BY <1>2
  <2>6. complete' \in BOOLEAN /\ ~complete' /\ phase' \in {"send", "save"} /\ phase' # "save"
    BY <1>3, <2>1
  <2>. QED BY <1>3, <2>4, <2>5, <2>6 DEF ControlTypes
<1>5. CASE ~(pc + n <= Len(Steps))
  <2>1. pc' = 0 /\ step' = NoStep /\ complete' = TRUE
    BY <1>5 DEF AdvanceBy, Steps
  <2>2. failures' < step'.attempts
    BY <1>3, <2>1, NoStepOp
  <2>. QED BY <1>2, <1>3, <2>1, <2>2 DEF ControlTypes
<1>. QED BY <1>4, <1>5

\* The types after a transaction, whether it failed, ended the run or passed.
LEMMA AttemptTypes ==
  ASSUME ControlTypes, Sending, Stays \/ Abort \/ Passes
  PROVE  ControlTypes'
<1>1. CASE Stays
  BY <1>1 DEF ControlTypes, Sending, Stays, Steps, Op, RecordType
<1>2. CASE Abort
  BY <1>2, EndTypes DEF Sending
<1>3. CASE Passes /\ Op \in Saved
  BY <1>3 DEF ControlTypes, Sending, Passes, Saves, Steps, Op, RecordType
<1>4. CASE Passes /\ Op \notin Saved
  <2>1. plan' \in [list : SUBSET Plannable, update : SUBSET Plannable, old : RecordType]
    BY <1>4 DEF ControlTypes, Passes
  <2>. QED BY <1>4, <2>1, AdvanceTypes DEF Sending, Passes, Advance
<1>. QED BY <1>1, <1>2, <1>3, <1>4

-----------------------------------------------------------------------------
(* The invariant: what is on the chain and on the disk                     *)

SoundRecord(n, r) == r.id \in DOMAIN chain[n] /\ r.abi = chain[n][r.id].impl

\* New code is given to beacons, and to proxies that are initialized.
UpgradedInPlace(n) ==
  \E i \in DOMAIN Steps : Does(Steps, i, "beacon", n) \/ (Does(Steps, i, "proxy", n) /\ Initialized(n))

RecordsInv ==
  \A n \in Names :
    /\ OnlyRecorded(n) =>
         chain[n] = <<>> /\ newRecords[n] = NoRecord /\ (Recorded(n) => records[n].id = 1)
    /\ ~OnlyRecorded(n) /\ Recorded(n) =>
         /\ records[n].id \in DOMAIN chain[n]
         /\ records[n].abi = RecordedInstance(n).impl \/ UpgradedInPlace(n)
    /\ newRecords[n] # NoRecord =>
         SoundRecord(n, newRecords[n]) /\ \E i \in DOMAIN Steps : Does(Steps, i, "upgraded", n)

\* Links to what is recorded, and never replaced.
SoundLinks(links) ==
  \A l \in DOMAIN links :
    l \in Names /\ l \notin Replaceable(network) /\ Recorded(l) /\ links[l] = records[l].id
WiringInv == \A n \in Names : \A i \in DOMAIN chain[n] : SoundLinks(chain[n][i].links)

FeedsInv ==
  \A t \in core.listed : /\ Aggregator(t) \in Names
                         /\ core.feeds[t] = records[Aggregator(t)].id /\ core.feeds[t] # 0

QueuedInv ==
  \A p \in Pools : deposits[p].queued # 0 => \E i \in DOMAIN Steps : Does(Steps, i, "answer", p)

DataInv ==
  DataTypes /\ RecordsInv /\ WiringInv /\ FeedsInv /\ ControllerIsRecorded /\ QueuedInv

-----------------------------------------------------------------------------
(* ... and where the run is                                                *)

\* A step that makes something goes on as it was decided; what it made, or
\* gave new code, is of this release.
DecidedInv ==
  /\ (phase = "save" \/ failures > 0) /\ Op \in Making => Needed
  /\ phase = "save" =>
       /\ chain[Name] # <<>>
       /\ IF Op \in {"proxy", "beacon"} /\ Recorded(Name) THEN RecordedInstance(Name).impl = version
          ELSE chain[Name][Len(chain[Name])].impl = version

Universe(what) ==
  CASE what = "tokens" -> FeedTokens [] what = "valueTokens" -> ValueTokens
    [] what = "controllers" -> Controllers(network)
Told(what) ==
  CASE what = "tokens" -> core.listed [] what = "valueTokens" -> core.valueTokens
    [] what = "controllers" -> {c \in Controllers(network) : core.controllers[c] # 0}

PlanInv ==
  /\ Op = "list" => /\ plan.list \subseteq Universe(Name)
                    /\ Universe(Name) \ Told(Name) \subseteq plan.list
  /\ Op \in {"list", "update"} /\ Name = "controllers" =>
       /\ plan.update \subseteq Controllers(network)
       /\ \A c \in plan.update : newRecords[c] # NoRecord
  /\ Op \in Replacing /\ Name \in Controllers(network) =>
       \A c \in plan.update \cap Controllers(network) :
         newRecords[c] # NoRecord => core.controllers[c] = newRecords[c].id
  /\ Op \in Replacing /\ Name = "WSTETHOracle" /\ Name \in plan.update => "WSTETH" \notin core.listed
  /\ Op = "rewrite" /\ Needed => records[Name] = NoRecord
  /\ Op = "drop" /\ Needed => records[Name] = newRecords[Name]
  /\ Op \in {"rewrite", "drop"} /\ Needed => plan.old # NoRecord /\ SoundRecord(Name, plan.old)

\* Between the deletion of a record and its replacement.
Between(n) == Op = "rewrite" /\ Name = n /\ Needed

PassedMade == \A n \in MadeBefore(Steps, Reach) : Recorded(n) \/ Between(n)
\* What the steps before this one have had the effect of, in this run.
PassedCode(i) ==
  Steps[i].op \in {"proxy", "beacon"} =>
    records[Steps[i].name].abi = RecordedInstance(Steps[i].name).impl
PassedCore(i)  == Does(Steps, i, "initialize", "UFarmCore") => CoreReady
PassedLists(i) == Steps[i].op = "list" => Universe(Steps[i].name) \subseteq Told(Steps[i].name)
PassedSeeds(i) == Steps[i].op = "answer" => deposits[Steps[i].name].queued = 0
Passed(i) == PassedCode(i) /\ PassedCore(i) /\ PassedLists(i) /\ PassedSeeds(i)
PassedInv == \A i \in DOMAIN Steps : i < Reach => Passed(i)

PlaceInv ==
  DecidedInv /\ PlanInv /\ PassedMade /\ PassedInv

DeploymentInv == ControlTypes /\ DataInv /\ PlaceInv

\* No two steps make the same contract: a record has one maker.
LEMMA MadeOnce ==
  ASSUME ControlTypes, NEW i \in DOMAIN Steps, NEW j \in DOMAIN Steps,
         Steps[i].op \in Making, Steps[j].op \in Making, Steps[i].name = Steps[j].name
  PROVE  i = j
<1>1. DOMAIN Steps = 1..Len(Steps) /\ Len(Steps) \in Nat
      /\ \A k \in DOMAIN Steps : MakesInOrder(network, Steps, k)
  BY OrderAssumption DEF ControlTypes, Steps
<1>2. \A k \in DOMAIN Steps : Steps[k].op \in Making => Steps[k].name \notin MadeBefore(Steps, k)
  BY <1>1 DEF MakesInOrder
<1>3. \A k, l \in DOMAIN Steps :
        k < l /\ Steps[k].op \in Making => Steps[k].name \in MadeBefore(Steps, l)
  BY <1>1 DEF MadeBefore
<1>. QED BY <1>1, <1>2, <1>3

\* A run that ends begins anew.
LEMMA EndPlaces ==
  ASSUME ControlTypes, pc # 0, Abort, network' = network
  PROVE  PlaceInv'
<1>1. ~complete' /\ pc' = 0 /\ phase' = "send" /\ failures' = 0 /\ step' = NoStep
  BY AtStep DEF Abort
<1>2. Reach' = 1 /\ Op' = "none" /\ Steps' = Steps
  BY <1>1, NoStepOp DEF Reach, Op, Steps
<1>3. DOMAIN Steps = 1..Len(Steps) /\ Len(Steps) \in Nat
  BY AtStep
<1>4. MadeBefore(Steps, 1) = {}
  BY DEF MadeBefore
<1>5. PassedMade' /\ PassedInv'
  BY <1>2, <1>3, <1>4 DEF PassedMade, PassedInv
<1>6. DecidedInv' /\ PlanInv'
  BY <1>1, <1>2 DEF DecidedInv, PlanInv, Making, Replacing
<1>. QED BY <1>5, <1>6 DEF PlaceInv

\* What a step can rely on.
LEMMA MadeByNow ==
  ASSUME DeploymentInv, pc # 0, Op # "rewrite"
  PROVE  \A n \in MadeBefore(Steps, pc) : Recorded(n)
BY DEF DeploymentInv, PlaceInv, PassedMade, Reach, Between

-----------------------------------------------------------------------------
(* New contracts and new code                                              *)

NewContract ==
  /\ Op \in {"proxy", "beacon"} => ~Recorded(Name)
  /\ \E links \in LinkMaps : SoundLinks(links) /\ NewInstance(Name, links)
  /\ UNCHANGED <<core, facts, deposits>>
NewVersion ==
  /\ Op \in {"proxy", "beacon"} /\ Recorded(Name)
  /\ NewCode(Name)
  /\ UNCHANGED <<core, facts, deposits>>
Builds ==
  /\ Sending /\ Op \in Saved /\ Needed
  /\ \/ (Stays \/ Abort) /\ (NewContract \/ NewVersion \/ UNCHANGED world)
     \/ Saves /\ (NewContract \/ NewVersion)

\* A failed attempt is retried, or ends the run (retryOperation).
LEMMA Attempts ==
  ASSUME ControlTypes, FailedAttempt
  PROVE  Stays \/ Abort
BY DEF ControlTypes, FailedAttempt, Stays

\* A fault uses up one of those that are left.
LEMMA Faults ==
  ASSUME ControlTypes, Fault
  PROVE  faults' \in 0..MaxFaults[network]
BY DeploymentAssumption DEF ControlTypes, Fault

\* The addresses a constructor or initializer is given are recorded and never
\* replaced.
LEMMA RecordedLinks ==
  ASSUME DeploymentInv, pc # 0, Op \in {"deploy", "upgraded", "initialize"}
  PROVE  /\ Links(step.args) \in LinkMaps /\ SoundLinks(Links(step.args))
         /\ DOMAIN Links(step.args) = step.args
<1>1. pc \in DOMAIN Steps /\ step = Steps[pc] /\ MakesInOrder(network, Steps, pc) /\ pc \in Nat
      /\ pc <= Len(Steps) + 1 /\ network \in Deployed
  BY AtStep, OrderAssumption DEF DeploymentInv, ControlTypes, Steps
<1>2. step.args \subseteq MadeBefore(Steps, pc) /\ step.args \cap Replaceable(network) = {}
  BY <1>1 DEF MakesInOrder, Op
<1>3. step.args \subseteq Names
  BY <1>1, <1>2, MadeAreNames DEF Steps
<1>4. \A n \in step.args : Recorded(n)
  BY <1>2, MadeByNow
<1>5. \A n \in step.args : records[n].id \in Nat
  BY <1>3 DEF DeploymentInv, DataInv, DataTypes, RecordType
<1>6. Links(step.args) \in [step.args -> Nat]
  BY <1>5 DEF Links
<1>. QED BY <1>2, <1>3, <1>4, <1>6 DEF LinkMaps, SoundLinks, Links

\* deployContract makes an instance linked to recorded contracts.
LEMMA ContractBuilds ==
  ASSUME DeploymentInv, DeployContract
  PROVE  Builds
<1>. USE DEF DeploymentInv
<1>1. /\ pc # 0 /\ Op \in {"deploy", "upgraded"} /\ phase = "send" /\ (Needed \/ failures > 0)
      /\ UNCHANGED <<network, version, records, newRecords>>
  BY DEF DeployContract, Running, Transact
<1>2. Needed
  BY <1>1 DEF PlaceInv, DecidedInv, Making, ControlTypes
<1> DEFINE effect == NewInstance(Name, Links(step.args)) /\ UNCHANGED <<core, facts, deposits>>
<1>3. effect => NewContract
  BY <1>1, RecordedLinks DEF NewContract
<1>4. \/ effect /\ Confirmed
      \/ effect /\ Fault /\ FailedAttempt
      \/ Fault /\ FailedAttempt /\ UNCHANGED world
  BY DEF DeployContract, Transact
<1>5. Confirmed => Saves /\ faults' = faults
  BY <1>1 DEF Confirmed, Saves
<1>6. faults \in 0..MaxFaults[network]
  BY DEF ControlTypes
<1>. HIDE DEF effect, DeploymentInv
<1>7. ControlTypes
  BY DEF DeploymentInv
<1>8. faults' \in 0..MaxFaults[network]
  BY <1>4, <1>5, <1>6, <1>7, Faults
<1>9. FailedAttempt => Stays \/ Abort
  BY <1>7, Attempts
<1>. QED BY <1>1, <1>2, <1>3, <1>4, <1>5, <1>8, <1>9 DEF Builds, Sending, Saved

\* deployProxy and deployBeacon make a contract, or give the recorded one code.
LEMMA ProxyBuilds ==
  ASSUME DeploymentInv, DeployProxy
  PROVE  Builds
<1>1. ControlTypes /\ PlaceInv
  BY DEF DeploymentInv
<1>2. /\ pc # 0 /\ Op \in {"proxy", "beacon"} /\ phase = "send" /\ (Needed \/ failures > 0)
      /\ UNCHANGED <<network, version, records, newRecords>>
  BY DEF DeployProxy, Running, Transact
<1>3. Needed
  BY <1>1, <1>2 DEF PlaceInv, DecidedInv, Making, ControlTypes
<1> DEFINE effect == /\ IF Recorded(Name) THEN NewCode(Name) ELSE NewInstance(Name, <<>>)
                     /\ UNCHANGED <<core, facts, deposits>>
<1>4. effect => NewContract \/ NewVersion
  <2>1. SoundLinks(<<>>)
    BY DEF SoundLinks
  <2>. QED BY <1>2, <2>1, NoLinks DEF NewContract, NewVersion
<1>5. \/ effect /\ Confirmed
      \/ effect /\ Fault /\ FailedAttempt
      \/ Fault /\ FailedAttempt /\ UNCHANGED world
  BY DEF DeployProxy, Transact
<1>6. Confirmed => Saves /\ faults' = faults
  BY <1>2 DEF Confirmed, Saves
<1>7. faults \in 0..MaxFaults[network]
  BY <1>1 DEF ControlTypes
<1>. HIDE DEF effect
<1>8. faults' \in 0..MaxFaults[network]
  BY <1>1, <1>5, <1>6, <1>7, Faults
<1>9. FailedAttempt => Stays \/ Abort
  BY <1>1, Attempts
<1>. QED BY <1>2, <1>3, <1>4, <1>5, <1>6, <1>8, <1>9 DEF Builds, Sending, Saved

\* A fund or a pool is made by the core, with nothing to link to.
LEMMA FactoryBuilds ==
  ASSUME DeploymentInv, CreateFund \/ CreatePool
  PROVE  Builds
<1>1. ControlTypes /\ PlaceInv
  BY DEF DeploymentInv
<1>2. /\ pc # 0 /\ Op \in {"fund", "pool"} /\ phase = "send" /\ (Needed \/ failures > 0)
      /\ UNCHANGED <<network, version, records, newRecords>>
  BY DEF CreateFund, CreatePool, Running, Transact
<1>3. Needed
  BY <1>1, <1>2 DEF PlaceInv, DecidedInv, Making, ControlTypes
<1> DEFINE effect == NewInstance(Name, <<>>) /\ UNCHANGED <<core, facts, deposits>>
<1>4. effect => NewContract
  <2>1. SoundLinks(<<>>)
    BY DEF SoundLinks
  <2>. QED BY <1>2, <2>1, NoLinks DEF NewContract
<1>5. \/ effect /\ Confirmed
      \/ effect /\ Fault /\ FailedAttempt
      \/ Abort /\ UNCHANGED <<world, faults>>
      \/ Fault /\ FailedAttempt /\ UNCHANGED world
  BY DEF CreateFund, CreatePool, Transact
<1>6. Confirmed => Saves /\ faults' = faults
  BY <1>2 DEF Confirmed, Saves
<1>7. faults \in 0..MaxFaults[network]
  BY <1>1 DEF ControlTypes
<1>. HIDE DEF effect
<1>8. faults' \in 0..MaxFaults[network]
  BY <1>1, <1>5, <1>6, <1>7, Faults
<1>9. FailedAttempt => Stays \/ Abort
  BY <1>1, Attempts
<1>. QED BY <1>2, <1>3, <1>4, <1>5, <1>6, <1>8, <1>9 DEF Builds, Sending, Saved

\* What is on the chain and on the disk stays sound when nothing changes.
LEMMA SameData ==
  ASSUME DataInv, UNCHANGED <<network, version, records, newRecords, chain, core, deposits>>
  PROVE  DataInv'
<1>. USE DEF DataInv
<1>1. Steps' = Steps /\ (\A n : OnlyRecorded(n)' = OnlyRecorded(n)) /\ RecordType' = RecordType
  BY DEF Steps, OnlyRecorded, RecordType
<1>2. DataTypes'
  BY <1>1 DEF DataTypes
<1>3. \A n : /\ Recorded(n)' = Recorded(n) /\ Initialized(n)' = Initialized(n)
             /\ RecordedInstance(n)' = RecordedInstance(n)
             /\ UpgradedInPlace(n)' = UpgradedInPlace(n)
             /\ SoundRecord(n, newRecords[n])' = SoundRecord(n, newRecords[n])
  BY <1>1 DEF Recorded, Initialized, RecordedInstance, UpgradedInPlace, SoundRecord
<1>4. RecordsInv'
  BY <1>1, <1>3 DEF RecordsInv
<1>5. WiringInv'
  BY <1>3 DEF WiringInv, SoundLinks
<1>6. FeedsInv' /\ QueuedInv' /\ ControllerIsRecorded'
  BY <1>1 DEF FeedsInv, QueuedInv, ControllerIsRecorded
<1>. QED BY <1>2, <1>4, <1>5, <1>6

\* The contract a step makes has a record.
LEMMA BuilderName ==
  ASSUME ControlTypes, pc # 0, Op \in Making
  PROVE  Name \in Names
<1>. QED BY AtStep, NamesMade DEF Op, Name, Steps, ControlTypes

\* The step that makes a contract is the only one that does.
LEMMA BuilderMakes ==
  ASSUME ControlTypes, pc # 0, Op \in Making, NEW i \in DOMAIN Steps, Steps[i].op \in Making,
         Steps[i].name = Name
  PROVE  Steps[i].op = Op /\ i = pc
BY AtStep, MadeOnce DEF Op, Name

\* One more instance: those there were stay as they are.
Appended ==
  /\ Len(chain'[Name]) = Len(chain[Name]) + 1
  /\ \A n \in Names : \A i \in DOMAIN chain[n] :
       i \in DOMAIN chain'[n] /\ chain'[n][i] = chain[n][i]
  /\ \A n \in Names \ {Name} : chain'[n] = chain[n]
  /\ chain'[Name][Len(chain[Name]) + 1].impl = version
  /\ SoundLinks(chain'[Name][Len(chain[Name]) + 1].links)
  /\ DOMAIN chain[Name] = 1..Len(chain[Name]) /\ Len(chain[Name]) \in Nat
  /\ DOMAIN chain'[Name] = 1..Len(chain'[Name])
  /\ chain' \in [Names -> Seq(Instances)]

\* A new contract comes after those of its name.
LEMMA NewContractAppends ==
  ASSUME ControlTypes, DataTypes, pc # 0, Op \in Saved, NewContract
  PROVE  Appended
<1>1. Name \in Names
  BY BuilderName DEF Saved, Making
<1>2. PICK links \in LinkMaps : SoundLinks(links) /\ NewInstance(Name, links)
  BY DEF NewContract
<1> DEFINE e == [impl |-> version, links |-> links]
<1>3. e \in Instances /\ e.impl = version /\ e.links = links
  BY DEF Instances, ControlTypes
<1>4. chain[Name] \in Seq(Instances) /\ chain \in [Names -> Seq(Instances)]
  BY <1>1 DEF DataTypes
<1>. HIDE DEF e
<1>5. chain' = [chain EXCEPT ![Name] = Append(chain[Name], e)]
  BY <1>2 DEF NewInstance, e
<1>6. /\ Append(chain[Name], e) \in Seq(Instances)
      /\ Len(Append(chain[Name], e)) = Len(chain[Name]) + 1
      /\ DOMAIN Append(chain[Name], e) = 1..(Len(chain[Name]) + 1)
      /\ \A i \in 1..Len(chain[Name]) : Append(chain[Name], e)[i] = chain[Name][i]
      /\ Append(chain[Name], e)[Len(chain[Name]) + 1] = e
      /\ Len(chain[Name]) \in Nat /\ DOMAIN chain[Name] = 1..Len(chain[Name])
  BY <1>3, <1>4, AppendProperties
<1>7. /\ chain'[Name] = Append(chain[Name], e)
      /\ \A n \in Names \ {Name} : chain'[n] = chain[n]
      /\ chain' \in [Names -> Seq(Instances)]
  BY <1>1, <1>4, <1>5, <1>6
<1>8. \A n \in Names : \A i \in DOMAIN chain[n] :
        i \in DOMAIN chain'[n] /\ chain'[n][i] = chain[n][i]
  <2> SUFFICES ASSUME NEW n \in Names, NEW i \in DOMAIN chain[n]
               PROVE  i \in DOMAIN chain'[n] /\ chain'[n][i] = chain[n][i]
    OBVIOUS
  <2>1. CASE n = Name
    BY <1>6, <1>7, <2>1
  <2>2. CASE n # Name
    BY <1>7, <2>2
  <2>. QED BY <2>1, <2>2
<1>. QED BY <1>2, <1>3, <1>6, <1>7, <1>8 DEF Appended

\* What instances keep, and what follows for the records.
LEMMA KeptRecords ==
  ASSUME ControlTypes, DataInv, UNCHANGED <<network, version, records, newRecords>>,
         \A n \in Names : \A i \in DOMAIN chain[n] :
            /\ i \in DOMAIN chain'[n]
            /\ chain'[n][i].impl = chain[n][i].impl
            /\ chain[n][i].links # <<>> => chain'[n][i].links # <<>>,
         \A n \in Names : OnlyRecorded(n) => chain'[n] = chain[n]
  PROVE  RecordsInv'
<1>1. Steps' = Steps /\ (\A n : OnlyRecorded(n)' = OnlyRecorded(n)) /\ (\A n : Recorded(n)' = Recorded(n))
  BY DEF Steps, OnlyRecorded, Recorded
<1> SUFFICES ASSUME NEW n \in Names
             PROVE  /\ OnlyRecorded(n) =>
                         /\ chain'[n] = <<>> /\ newRecords[n] = NoRecord
                         /\ Recorded(n) => records[n].id = 1
                    /\ ~OnlyRecorded(n) /\ Recorded(n) =>
                         /\ records[n].id \in DOMAIN chain'[n]
                         /\ records[n].abi = chain'[n][records[n].id].impl \/ UpgradedInPlace(n)'
                    /\ newRecords[n] # NoRecord =>
                         /\ SoundRecord(n, newRecords[n])'
                         /\ \E i \in DOMAIN Steps : Does(Steps, i, "upgraded", n)
  BY <1>1 DEF RecordsInv, RecordedInstance
<1>2. RecordsInv
  BY DEF DataInv
<1>3. CASE OnlyRecorded(n)
  BY <1>2, <1>3 DEF RecordsInv
<1>4. CASE ~OnlyRecorded(n)
  <2>1. Recorded(n) => /\ records[n].id \in DOMAIN chain[n]
                       /\ records[n].abi = chain[n][records[n].id].impl \/ UpgradedInPlace(n)
    BY <1>2, <1>4 DEF RecordsInv, RecordedInstance
  <2>2. Initialized(n) => Initialized(n)'
    BY <1>1, <2>1 DEF Initialized, RecordedInstance
  <2>3. UpgradedInPlace(n) => UpgradedInPlace(n)'
    BY <1>1, <2>2 DEF UpgradedInPlace
  <2>4. newRecords[n] # NoRecord => /\ SoundRecord(n, newRecords[n])
                                    /\ \E i \in DOMAIN Steps : Does(Steps, i, "upgraded", n)
    BY <1>2 DEF RecordsInv
  <2>5. SoundRecord(n, newRecords[n]) => SoundRecord(n, newRecords[n])'
    BY DEF SoundRecord
  <2>. QED BY <1>4, <2>1, <2>3, <2>4, <2>5
<1>. QED BY <1>3, <1>4

\* What the core was told follows the records as long as neither changes.
LEMMA SameFeeds ==
  ASSUME DataInv, UNCHANGED <<network, core, records, newRecords, deposits>>
  PROVE  FeedsInv' /\ ControllerIsRecorded' /\ QueuedInv'
BY DEF DataInv, FeedsInv, ControllerIsRecorded, QueuedInv, Steps

\* A new contract leaves the chain and the records sound: it is not recorded
\* yet.
LEMMA NewContractData ==
  ASSUME ControlTypes, DataInv, Sending, Op \in Saved, NewContract
  PROVE  DataInv' /\ Appended
<1>1. Appended /\ Name \in Names
  BY NewContractAppends, BuilderName DEF Sending, DataInv, Saved, Making
<1>2. UNCHANGED <<network, version, records, newRecords, core, deposits>> /\ pc # 0
  BY DEF Sending, NewContract
<1>3. ~OnlyRecorded(Name)
  BY <1>2, BuilderMakes DEF OnlyRecorded, Does, Saved, Making
<1>4. RecordsInv'
  <2>1. \A n \in Names : OnlyRecorded(n) => chain'[n] = chain[n]
    BY <1>1, <1>3 DEF Appended
  <2>2. \A n \in Names : \A i \in DOMAIN chain[n] :
            /\ i \in DOMAIN chain'[n]
            /\ chain'[n][i].impl = chain[n][i].impl
            /\ chain[n][i].links # <<>> => chain'[n][i].links # <<>>
    BY <1>1 DEF Appended
  <2>. QED BY <1>2, <2>1, <2>2, KeptRecords
<1>5. ASSUME NEW n \in Names, NEW i \in DOMAIN chain'[n]
      PROVE  \/ i \in DOMAIN chain[n] /\ chain'[n][i] = chain[n][i]
             \/ n = Name /\ i = Len(chain[Name]) + 1
  BY <1>1, <1>5 DEF Appended
<1>6. \A n \in Names : \A i \in DOMAIN chain'[n] : chain'[n][i].impl \in 1..version
  <2>1. version \in 1..version
    BY DEF ControlTypes
  <2>. QED BY <1>1, <1>5, <2>1 DEF Appended, DataInv, DataTypes
<1>7. \A n \in Names : \A i \in DOMAIN chain'[n] : SoundLinks(chain'[n][i].links)
  BY <1>1, <1>5 DEF Appended, DataInv, WiringInv
<1>8. WiringInv'
  BY <1>2, <1>7 DEF WiringInv, SoundLinks, Recorded
<1>9. DataTypes'
  BY <1>1, <1>2, <1>6 DEF DataInv, DataTypes, RecordType, Appended
<1>. QED BY <1>1, <1>2, <1>4, <1>8, <1>9, SameFeeds DEF DataInv

\* An instance of the contract that the step names is another one, at its place.
Altered(instance) ==
  LET id == records[Name].id
  IN /\ chain' \in [Names -> Seq(Instances)]
     /\ id \in DOMAIN chain[Name] /\ chain'[Name][id] = instance
     /\ \A n \in Names : DOMAIN chain'[n] = DOMAIN chain[n] /\ Len(chain'[n]) = Len(chain[n])
     /\ \A n \in Names : \A i \in DOMAIN chain[n] :
          n # Name \/ i # id => chain'[n][i] = chain[n][i]
     /\ \A n \in Names \ {Name} : chain'[n] = chain[n]

\* A write to the recorded instance touches no other.
LEMMA ExceptAlters ==
  ASSUME DataTypes, Name \in Names, records[Name].id \in DOMAIN chain[Name],
         NEW instance \in Instances,
         chain' = [chain EXCEPT ![Name] = [@ EXCEPT ![records[Name].id] = instance]]
  PROVE  Altered(instance)
<1> DEFINE id == records[Name].id
           instances == [chain[Name] EXCEPT ![id] = instance]
<1>1. chain[Name] \in Seq(Instances) /\ chain \in [Names -> Seq(Instances)]
  BY DEF DataTypes
<1>2. id \in 1..Len(chain[Name]) /\ DOMAIN chain[Name] = 1..Len(chain[Name])
  BY <1>1
<1>3. /\ instances \in Seq(Instances) /\ Len(instances) = Len(chain[Name])
      /\ DOMAIN instances = DOMAIN chain[Name]
      /\ instances[id] = instance
      /\ \A i \in DOMAIN chain[Name] : i # id => instances[i] = chain[Name][i]
  BY <1>1, <1>2
<1>4. chain' = [chain EXCEPT ![Name] = instances]
  OBVIOUS
<1>. HIDE DEF instances
<1>5. /\ chain'[Name] = instances /\ chain' \in [Names -> Seq(Instances)]
      /\ \A n \in Names \ {Name} : chain'[n] = chain[n]
  BY <1>1, <1>3, <1>4
<1>6. \A n \in Names : DOMAIN chain'[n] = DOMAIN chain[n] /\ Len(chain'[n]) = Len(chain[n])
  BY <1>3, <1>5
<1>7. \A n \in Names : \A i \in DOMAIN chain[n] :
        n # Name \/ i # id => chain'[n][i] = chain[n][i]
  BY <1>3, <1>5
<1>. QED BY <1>3, <1>5, <1>6, <1>7 DEF Altered

\* A contract that is recorded when its step comes is on the chain.
LEMMA BuilderRecord ==
  ASSUME ControlTypes, DataInv, pc # 0, Op \in Saved, Recorded(Name)
  PROVE  /\ Name \in Names /\ ~OnlyRecorded(Name)
         /\ records[Name].id \in DOMAIN chain[Name] /\ RecordedInstance(Name) \in Instances
<1>1. Name \in Names /\ ~OnlyRecorded(Name)
  BY BuilderName, BuilderMakes DEF OnlyRecorded, Does, Saved, Making
<1>2. records[Name].id \in DOMAIN chain[Name] /\ chain[Name] \in Seq(Instances)
  BY <1>1 DEF DataInv, DataTypes, RecordsInv
<1>. QED BY <1>1, <1>2 DEF RecordedInstance

\* New code keeps the links the contract has.
LEMMA NewVersionAlters ==
  ASSUME ControlTypes, DataInv, pc # 0, NewVersion
  PROVE  /\ Name \in Names /\ ~OnlyRecorded(Name)
         /\ Altered([impl |-> version, links |-> RecordedInstance(Name).links])
<1> DEFINE old == RecordedInstance(Name)
           new == [impl |-> version, links |-> old.links]
<1>1. Name \in Names /\ ~OnlyRecorded(Name) /\ old \in Instances
      /\ records[Name].id \in DOMAIN chain[Name]
  BY BuilderRecord DEF NewVersion, Saved
<1>2. new \in Instances
  BY <1>1 DEF Instances, ControlTypes
<1>3. [old EXCEPT !.impl = version] = new
  BY <1>1 DEF Instances
<1>4. chain' = [chain EXCEPT ![Name] = [@ EXCEPT ![records[Name].id] = [old EXCEPT !.impl = version]]]
  BY DEF NewVersion, NewCode, RecordedInstance
<1>. HIDE DEF new
<1>5. chain' = [chain EXCEPT ![Name] = [@ EXCEPT ![records[Name].id] = new]]
  BY <1>3, <1>4
<1>6. Altered(new)
  BY <1>1, <1>2, <1>5, ExceptAlters DEF DataInv
<1>. QED BY <1>1, <1>6 DEF new

\* New code leaves the chain and the records sound, though the record's
\* interface is old until it is saved: the contract is upgraded in place.
LEMMA NewVersionData ==
  ASSUME ControlTypes, DataInv, Sending, Needed, NewVersion
  PROVE  /\ DataInv'
         /\ chain'[Name][records[Name].id].impl = version
         /\ \A n \in Names \ {Name} : chain'[n] = chain[n]
         /\ \A n \in Names : Initialized(n) => Initialized(n)'
<1> DEFINE id  == records[Name].id
           new == [impl |-> version, links |-> RecordedInstance(Name).links]
<1>1. pc # 0 /\ UNCHANGED <<network, version, records, newRecords, core, deposits>>
  BY DEF Sending, NewVersion
<1>2. Name \in Names /\ ~OnlyRecorded(Name) /\ Altered(new)
  BY <1>1, NewVersionAlters
<1>3. new.impl = version /\ new.links = chain[Name][id].links
  BY DEF RecordedInstance
<1>. HIDE DEF new
<1>4. /\ id \in DOMAIN chain[Name] /\ chain'[Name][id].impl = version
      /\ \A n \in Names \ {Name} : chain'[n] = chain[n]
      /\ \A n \in Names : \A i \in DOMAIN chain'[n] :
           i \in DOMAIN chain[n] /\ chain'[n][i].links = chain[n][i].links
      /\ \A n \in Names : DOMAIN chain'[n] = DOMAIN chain[n]
  BY <1>2, <1>3 DEF Altered
<1>5. \A n \in Names : \A i \in DOMAIN chain[n] : n # Name \/ i # id => chain'[n][i] = chain[n][i]
  BY <1>2 DEF Altered
<1>6. Steps' = Steps /\ (\A n : OnlyRecorded(n)' = OnlyRecorded(n)) /\ (\A n : Recorded(n)' = Recorded(n))
  BY <1>1 DEF Steps, OnlyRecorded, Recorded
<1>7. \A n \in Names : Recorded(n) /\ ~OnlyRecorded(n) => records[n].id \in DOMAIN chain[n]
  BY DEF DataInv, RecordsInv
<1>8. \A n \in Names : Initialized(n) => Initialized(n)'
  <2> SUFFICES ASSUME NEW n \in Names, Initialized(n) PROVE Initialized(n)'
    OBVIOUS
  <2>1. CASE n = Name
    BY <1>1, <1>4, <1>6, <2>1 DEF Initialized, RecordedInstance
  <2>2. CASE n # Name
    BY <1>1, <1>4, <1>6, <2>2 DEF Initialized, RecordedInstance
  <2>. QED BY <2>1, <2>2
<1>9. \A n \in Names : UpgradedInPlace(n) => UpgradedInPlace(n)'
  BY <1>6, <1>8 DEF UpgradedInPlace
<1>10. \A n \in Names : n = Name => UpgradedInPlace(n)'
  <2>1. pc \in DOMAIN Steps /\ Steps[pc].op = Op /\ Steps[pc].name = Name
    BY <1>1, AtStep DEF Op, Name
  <2>2. Op = "proxy" => Initialized(Name)
    BY DEF Needed, NewVersion
  <2>3. Op \in {"proxy", "beacon"}
    BY DEF NewVersion
  <2>4. Does(Steps, pc, "beacon", Name) \/ (Does(Steps, pc, "proxy", Name) /\ Initialized(Name))
    BY <2>1, <2>2, <2>3 DEF Does
  <2>5. UpgradedInPlace(Name)
    BY <2>1, <2>4 DEF UpgradedInPlace
  <2>. QED BY <1>2, <1>9, <2>5
<1>11. newRecords[Name] = NoRecord
  <2>1. newRecords[Name] # NoRecord => \E i \in DOMAIN Steps : Does(Steps, i, "upgraded", Name)
    BY <1>2 DEF DataInv, RecordsInv
  <2>. QED BY <1>1, <2>1, BuilderMakes DEF Does, Making, NewVersion
<1>12. RecordsInv'
  <2> SUFFICES ASSUME NEW n \in Names
             PROVE  /\ OnlyRecorded(n) =>
                         /\ chain'[n] = <<>> /\ newRecords[n] = NoRecord
                         /\ Recorded(n) => records[n].id = 1
                    /\ ~OnlyRecorded(n) /\ Recorded(n) =>
                         /\ records[n].id \in DOMAIN chain'[n]
                         /\ records[n].abi = chain'[n][records[n].id].impl \/ UpgradedInPlace(n)'
                    /\ newRecords[n] # NoRecord =>
                         /\ SoundRecord(n, newRecords[n])'
                         /\ \E i \in DOMAIN Steps : Does(Steps, i, "upgraded", n)
    BY <1>1, <1>6 DEF RecordsInv, RecordedInstance
  <2>1. CASE n = Name
    BY <1>1, <1>2, <1>4, <1>10, <1>11, <2>1
  <2>2. CASE n # Name
    <3>1. chain'[n] = chain[n]
      BY <1>4, <2>2
    <3>. QED BY <1>1, <1>9, <3>1 DEF DataInv, RecordsInv, RecordedInstance, SoundRecord
  <2>. QED BY <2>1, <2>2
<1>13. WiringInv'
  <2>1. \A n \in Names : \A i \in DOMAIN chain'[n] : SoundLinks(chain'[n][i].links)
    BY <1>4 DEF DataInv, WiringInv
  <2>. QED BY <1>1, <2>1 DEF WiringInv, SoundLinks, Recorded
<1>14. DataTypes'
  <2>1. \A n \in Names : \A i \in DOMAIN chain'[n] : chain'[n][i].impl \in 1..version
    <3>1. version \in 1..version
      BY DEF ControlTypes
    <3>2. \A n \in Names : \A i \in DOMAIN chain[n] : chain[n][i].impl \in 1..version
      BY DEF DataInv, DataTypes
    <3>. QED BY <1>4, <1>5, <3>1, <3>2
  <2>2. chain' \in [Names -> Seq(Instances)]
    BY <1>2 DEF Altered
  <2>. QED BY <1>1, <2>1, <2>2 DEF DataInv, DataTypes, RecordType
<1>. QED BY <1>1, <1>4, <1>8, <1>12, <1>13, <1>14, SameFeeds DEF DataInv

\* What stays passed.
LEMMA PassedStays ==
  ASSUME ControlTypes, PlaceInv, pc # 0, Op # "rewrite", pc' = pc, step' = step,
         UNCHANGED <<network, records>>,
         \A i \in DOMAIN Steps : i < pc => Passed(i)'
  PROVE  PassedMade' /\ PassedInv'
<1>1. Reach = pc /\ Reach' = pc /\ Steps' = Steps
  BY DEF Reach, Steps
<1>2. \A n \in MadeBefore(Steps, pc) : Recorded(n)
  BY <1>1 DEF PlaceInv, PassedMade, Between
<1>. QED BY <1>1, <1>2 DEF PassedMade, PassedInv, Recorded

\* A contract stays initialized as long as the links of its instances stay.
LEMMA InitializedKept ==
  ASSUME ControlTypes, DataInv, UNCHANGED <<network, records>>,
         NEW n \in Names, ~OnlyRecorded(n), Initialized(n),
         \A i \in DOMAIN chain[n] : chain[n][i].links # <<>> => chain'[n][i].links # <<>>
  PROVE  Initialized(n)'
BY DEF DataInv, RecordsInv, Initialized, Recorded, RecordedInstance

\* What is initialized is a proxy, never replaced.
LEMMA InitializedName ==
  ASSUME ControlTypes, NEW i \in DOMAIN Steps, Steps[i].op = "initialize"
  PROVE  Steps[i].name \in Names /\ ~OnlyRecorded(Steps[i].name)
<1>1. PICK j \in DOMAIN Steps : Does(Steps, j, "proxy", Steps[i].name)
  BY OrderAssumption DEF ControlTypes, Steps, MakesInOrder, Does
<1>2. Steps[i].name \in Names
  BY <1>1, NamesMade DEF Does, Making, ControlTypes, Steps
<1>3. ASSUME NEW k \in DOMAIN Steps, Does(Steps, k, "external", Steps[i].name)
      PROVE  FALSE
  BY <1>1, <1>3, MadeOnce DEF Does, Making
<1>. QED BY <1>2, <1>3 DEF OnlyRecorded

\* ... and the core stays ready.
LEMMA CoreKept ==
  ASSUME ControlTypes, DataInv, PlaceInv, pc # 0, UNCHANGED <<network, records>>,
         \A n \in Names : \A i \in DOMAIN chain[n] :
           chain[n][i].links # <<>> => chain'[n][i].links # <<>>
  PROVE  \A i \in DOMAIN Steps : i < pc => PassedCore(i)'
<1> SUFFICES ASSUME NEW i \in DOMAIN Steps, i < pc PROVE PassedCore(i)'
  OBVIOUS
<1>1. CASE Does(Steps, i, "initialize", "UFarmCore")
  <2>1. CoreReady
    BY <1>1 DEF PlaceInv, PassedInv, Passed, PassedCore, Reach
  <2>2. "UFarmCore" \in Names /\ ~OnlyRecorded("UFarmCore")
    BY <1>1, InitializedName DEF Does
  <2>3. \A k \in DOMAIN chain["UFarmCore"] :
          chain["UFarmCore"][k].links # <<>> => chain'["UFarmCore"][k].links # <<>>
    BY <2>2
  <2>4. Initialized("UFarmCore")'
    BY <2>1, <2>2, <2>3, InitializedKept DEF CoreReady
  <2>. QED BY <2>4 DEF PassedCore, CoreReady
<1>2. CASE ~Does(Steps, i, "initialize", "UFarmCore")
  BY <1>2 DEF PassedCore, Steps
<1>. QED BY <1>1, <1>2

\* What building does to the chain, in either way.
BuiltOnce ==
  /\ \A n \in Names \ {Name} : chain'[n] = chain[n]
  /\ \A n \in Names : \A i \in DOMAIN chain[n] :
       chain[n][i].links # <<>> => chain'[n][i].links # <<>>
  /\ UNCHANGED <<core, facts, deposits>>

\* A step that makes something leaves the chain and the records sound, and puts
\* the code of this release there.
LEMMA BuildsData ==
  ASSUME ControlTypes, DataInv, Sending, Op \in Saved, Needed, NewContract \/ NewVersion
  PROVE  /\ DataInv' /\ BuiltOnce
         /\ Name \in Names
         /\ IF Op \in {"proxy", "beacon"} /\ Recorded(Name)
              THEN chain'[Name][records[Name].id].impl = version /\ records[Name].id \in DOMAIN chain'[Name]
              ELSE chain'[Name][Len(chain'[Name])].impl = version /\ Len(chain'[Name]) \in Nat \ {0}
<1>1. pc # 0
  BY DEF Sending
<1>2. Name \in Names
  BY <1>1, BuilderName DEF Saved, Making
<1>3. CASE NewContract
  <2>1. DataInv' /\ Appended
    BY <1>3, NewContractData
  <2>2. ~(Op \in {"proxy", "beacon"} /\ Recorded(Name))
    BY <1>3 DEF NewContract
  <2>3. chain'[Name][Len(chain'[Name])].impl = version /\ Len(chain'[Name]) \in Nat \ {0}
    BY <2>1 DEF Appended
  <2>4. BuiltOnce
    BY <2>1, <1>3 DEF Appended, BuiltOnce, NewContract
  <2>. QED BY <1>2, <2>1, <2>2, <2>3, <2>4
<1>4. CASE NewVersion
  <2>1. DataInv' /\ Altered([impl |-> version, links |-> RecordedInstance(Name).links])
    BY <1>1, <1>4, NewVersionData, NewVersionAlters
  <2>2. Op \in {"proxy", "beacon"} /\ Recorded(Name)
    BY <1>4 DEF NewVersion
  <2>3. /\ chain'[Name][records[Name].id].impl = version
        /\ chain'[Name][records[Name].id].links = chain[Name][records[Name].id].links
        /\ records[Name].id \in DOMAIN chain'[Name]
    BY <1>2, <2>1 DEF Altered, RecordedInstance
  <2>4. BuiltOnce
    <3>1. \A n \in Names : \A i \in DOMAIN chain[n] : chain'[n][i].links = chain[n][i].links
      BY <2>1, <2>3 DEF Altered
    <3>. QED BY <1>4, <2>1, <3>1 DEF Altered, BuiltOnce, NewVersion
  <2>. QED BY <1>2, <2>1, <2>2, <2>3, <2>4
<1>. QED BY <1>3, <1>4

\* What is decided stays decided.
LEMMA NeededStays ==
  ASSUME ControlTypes, DataInv, Sending, Op \in Saved, Needed,
         BuiltOnce \/ UNCHANGED chain, step' = step
  PROVE  Needed'
<1>1. UNCHANGED <<records, newRecords>> /\ pc # 0 /\ Name \in Names
  BY BuilderName DEF Sending, Saved, Making
<1>2. CASE Op = "proxy" /\ Recorded(Name)
  <2>1. Initialized(Name) /\ ~OnlyRecorded(Name) /\ records[Name].id \in DOMAIN chain[Name]
    BY <1>1, <1>2, BuilderRecord DEF Needed
  <2>2. RecordedInstance(Name).links # <<>> => chain'[Name][records[Name].id].links # <<>>
    BY <1>1, <2>1 DEF BuiltOnce, RecordedInstance
  <2>3. Op' = "proxy" /\ (Recorded(Name)' => Initialized(Name)')
    BY <1>1, <1>2, <2>1, <2>2 DEF Initialized, Recorded, RecordedInstance, Name, Op
  <2>. QED BY <2>3 DEF Needed
<1>3. CASE Op = "proxy" /\ ~Recorded(Name)
  BY <1>1, <1>3 DEF Needed, Recorded, Op, Name
<1>4. CASE Op = "beacon"
  BY <1>4 DEF Needed, Op
<1>5. CASE Op \in {"deploy", "fund", "pool"}
  BY <1>1, <1>5 DEF Needed, Recorded, Op, Name
<1>6. CASE Op = "upgraded"
  BY <1>1, <1>6 DEF Needed, Recorded, Op, Name
<1>. QED BY <1>2, <1>3, <1>4, <1>5, <1>6 DEF Saved

\* No step that was passed is undone by one that makes something.
LEMMA BuildsPassed ==
  ASSUME ControlTypes, DataInv, PlaceInv, Sending, Op \in Saved, BuiltOnce
  PROVE  \A i \in DOMAIN Steps : i < pc => Passed(i)'
<1>1. pc # 0 /\ UNCHANGED <<network, records, core, deposits>> /\ Steps' = Steps
  BY DEF Sending, BuiltOnce, Steps
<1>2. \A i \in DOMAIN Steps : i < pc => PassedCore(i)'
  BY <1>1, CoreKept DEF BuiltOnce
<1>3. \A i \in DOMAIN Steps : i < pc => Passed(i)
  BY <1>1 DEF PlaceInv, PassedInv, Reach
<1>4. \A i \in DOMAIN Steps : i < pc => PassedLists(i)' /\ PassedSeeds(i)'
  BY <1>1, <1>3 DEF Passed, PassedLists, PassedSeeds, Told, Universe
<1>5. ASSUME NEW i \in DOMAIN Steps, i < pc, Steps[i].op \in {"proxy", "beacon"}
      PROVE  chain'[Steps[i].name] = chain[Steps[i].name]
  <2>1. Steps[i].name # Name
    BY <1>1, <1>5, BuilderMakes, AtStep DEF Saved, Making
  <2>2. Steps[i].name \in Names
    BY <1>5, NamesMade DEF Making, Steps, ControlTypes
  <2>. QED BY <2>1, <2>2 DEF BuiltOnce
<1>6. \A i \in DOMAIN Steps : i < pc => PassedCode(i)'
  BY <1>1, <1>3, <1>5 DEF Passed, PassedCode, RecordedInstance
<1>. QED BY <1>2, <1>4, <1>6 DEF Passed

\* The transactions that make something keep the invariant.
LEMMA BuildsInv ==
  ASSUME DeploymentInv, Builds
  PROVE  DeploymentInv'
<1>1. /\ ControlTypes /\ DataInv /\ PlaceInv /\ Sending /\ Op \in Saved /\ Needed /\ pc # 0
      /\ UNCHANGED <<network, version, records, newRecords>> /\ phase = "send"
  BY DEF DeploymentInv, Builds, Sending
<1>2. ControlTypes'
  <2>1. Saves => Passes
    BY <1>1 DEF Passes, Saves
  <2>. QED BY <1>1, <2>1, AttemptTypes DEF Builds
<1>3. NewContract \/ NewVersion \/ UNCHANGED world
  BY DEF Builds
<1>4. DataInv'
  <2>1. CASE UNCHANGED world
    BY <1>1, <2>1, SameData DEF world
  <2>2. CASE NewContract \/ NewVersion
    BY <1>1, <2>2, BuildsData
  <2>. QED BY <1>3, <2>1, <2>2
<1>5. CASE Abort
  BY <1>1, <1>2, <1>4, <1>5, EndPlaces DEF DeploymentInv
<1>6. CASE Stays \/ Saves
  <2>1. pc' = pc /\ step' = step /\ Op' = Op /\ Name' = Name
    BY <1>6 DEF Stays, Saves, Op, Name
  <2>2. BuiltOnce
    <3>1. CASE UNCHANGED world
      BY <3>1 DEF BuiltOnce, world
    <3>2. CASE NewContract \/ NewVersion
      BY <1>1, <3>2, BuildsData
    <3>. QED BY <1>3, <3>1, <3>2
  <2>3. Needed'
    BY <1>1, <2>1, <2>2, NeededStays
  <2>4. PassedMade' /\ PassedInv'
    <3>1. \A i \in DOMAIN Steps : i < pc => Passed(i)'
      BY <1>1, <2>2, BuildsPassed
    <3>2. Op # "rewrite"
      BY <1>1 DEF Saved
    <3>. QED BY <1>1, <2>1, <3>1, <3>2, PassedStays
  <2>5. PlanInv'
    BY <1>1, <2>1 DEF PlanInv, Saved, Replacing
  <2>6. phase' = "save" =>
          /\ chain'[Name] # <<>>
          /\ IF Op \in {"proxy", "beacon"} /\ Recorded(Name)
               THEN chain'[Name][records[Name].id].impl = version
               ELSE chain'[Name][Len(chain'[Name])].impl = version
    <3>1. CASE Stays
      BY <1>1, <3>1 DEF Stays
    <3>2. CASE Saves
      <4>1. NewContract \/ NewVersion
        BY <1>1, <3>2 DEF Builds, Saves, Stays, Abort
      <4>2. /\ Name \in Names
            /\ IF Op \in {"proxy", "beacon"} /\ Recorded(Name)
              THEN chain'[Name][records[Name].id].impl = version /\ records[Name].id \in DOMAIN chain'[Name]
              ELSE chain'[Name][Len(chain'[Name])].impl = version /\ Len(chain'[Name]) \in Nat \ {0}
        BY <1>1, <4>1, BuildsData
      <4>3. DOMAIN <<>> = {} /\ Len(<<>>) = 0
        OBVIOUS
      <4>4. chain'[Name] # <<>>
        BY <4>2, <4>3
      <4>. QED BY <4>2, <4>4
    <3>. QED BY <1>6, <3>1, <3>2
  <2>7. DecidedInv'
    BY <1>1, <2>1, <2>3, <2>6 DEF DecidedInv, Recorded, RecordedInstance
  <2>. QED BY <1>2, <1>4, <2>4, <2>5, <2>7 DEF DeploymentInv, PlaceInv
<1>. QED BY <1>5, <1>6 DEF Builds

-----------------------------------------------------------------------------
(* To the next step                                                        *)

\* The replaced oracle is not one of the replaced controllers.
LEMMA OracleIsNoController ==
  ASSUME ControlTypes
  PROVE  "WSTETHOracle" \notin Controllers(network)
BY DeploymentAssumption DEF ControlTypes, Environments, Controllers, ControllerNames, IsTestnet, ToSet

\* What comes before the steps that rely on it.
LEMMA StepBefore ==
  ASSUME ControlTypes, NEW j \in DOMAIN Steps, NEW op, NEW name, Does(Steps, j, op, name)
  PROVE  /\ op = "list" => Does(Steps, j - 1, "survey", name)
         /\ op = "update" => Does(Steps, j - 1, "survey", name) \/ Does(Steps, j - 1, "list", name)
         /\ op = "forget" =>
              /\ name \in Replaceable(network)
              /\ name = "WSTETHOracle" => Does(Steps, j - 1, "update", "feed")
              /\ name # "WSTETHOracle" =>
                   \/ Does(Steps, j - 1, "update", "controllers")
                   \/ \E c \in Controllers(network) : Does(Steps, j - 1, "drop", c)
         /\ op = "rewrite" => Does(Steps, j - 1, "forget", name)
         /\ op = "drop" => Does(Steps, j - 1, "rewrite", name)
<1>1. ListsInOrder(network, Steps, j) /\ ReplacesInOrder(network, Steps, j)
  BY OrderAssumption DEF ControlTypes, Steps
<1>. QED BY <1>1 DEF ListsInOrder, ReplacesInOrder, Does

\* Where a run is after n steps.
LEMMA Advanced ==
  ASSUME ControlTypes, pc # 0, NEW n \in Nat \ {0}, AdvanceBy(n), network' = network,
         pc + n <= Len(Steps) + 1
  PROVE  /\ Reach' = pc + n /\ phase' = "send" /\ failures' = 0 /\ Steps' = Steps
         /\ \/ Op' = "none"
            \/ pc + n \in DOMAIN Steps /\ Does(Steps, pc + n, Op', Name')
<1>1. pc \in Nat /\ DOMAIN Steps = 1..Len(Steps) /\ Len(Steps) \in Nat /\ Steps' = Steps
  BY AtStep DEF Steps
<1>2. CASE pc + n <= Len(Steps)
  <2>1. pc' = pc + n /\ step' = Steps[pc + n] /\ pc + n \in DOMAIN Steps /\ pc' # 0
    BY <1>1, <1>2 DEF AdvanceBy, Steps
  <2>. QED BY <1>1, <2>1 DEF AdvanceBy, Reach, Op, Name, Does
<1>3. CASE ~(pc + n <= Len(Steps))
  <2>1. pc' = 0 /\ step' = NoStep /\ complete' /\ pc + n = Len(Steps) + 1
    BY <1>1, <1>3 DEF AdvanceBy, Steps
  <2>. QED BY <1>1, <2>1, NoStepOp DEF AdvanceBy, Reach, Op
<1>. QED BY <1>2, <1>3

\* Where one step forward leads.
LEMMA AdvancedOnce ==
  ASSUME ControlTypes, pc # 0, Advance, network' = network
  PROVE  /\ Reach' = pc + 1 /\ phase' = "send" /\ failures' = 0 /\ Steps' = Steps
         /\ pc \in DOMAIN Steps /\ pc \in Nat /\ Does(Steps, pc, Op, Name)
         /\ \/ Op' = "none"
            \/ pc + 1 \in DOMAIN Steps /\ Does(Steps, pc + 1, Op', Name')
<1>1. pc \in DOMAIN Steps /\ pc \in Nat /\ pc + 1 <= Len(Steps) + 1 /\ Does(Steps, pc, Op, Name)
  BY AtStep DEF Does, Op, Name
<1>. QED BY <1>1, Advanced DEF Advance

\* The places of an invariant after a step: all but the plan.
LEMMA AdvancePassed ==
  ASSUME ControlTypes, pc # 0, NEW n \in Nat \ {0}, pc + n <= Len(Steps) + 1, AdvanceBy(n),
         network' = network, PlanInv',
         \A i \in DOMAIN Steps : i < pc + n => Passed(i)',
         \A k \in MadeBefore(Steps, pc + n) : Recorded(k)' \/ Between(k)'
  PROVE  PlaceInv'
<1>1. Reach' = pc + n /\ phase' = "send" /\ failures' = 0 /\ Steps' = Steps
  BY Advanced
<1>2. DecidedInv'
  BY <1>1 DEF DecidedInv
<1>. QED BY <1>1, <1>2 DEF PlaceInv, PassedMade, PassedInv

\* After most steps comes none of those that need a plan.
LEMMA PlainAdvance ==
  ASSUME ControlTypes, pc # 0, Advance, network' = network,
         Op \notin {"survey", "list", "update"} \cup Replacing
  PROVE  PlanInv'
<1>1. Op' \notin {"list", "update"} \cup Replacing
  <2>1. CASE Op' = "none"
    BY <2>1 DEF Replacing
  <2>2. CASE pc + 1 \in DOMAIN Steps /\ Does(Steps, pc + 1, Op', Name')
    <3>1. pc \in Nat /\ (pc + 1) - 1 = pc /\ Does(Steps, pc, Op, Name)
      BY AdvancedOnce
    <3> DEFINE op == Op'
               name == Name'
    <3>2. Does(Steps, pc + 1, op, name)
      BY <2>2
    <3>. HIDE DEF op, name
    <3>3. /\ op = "list" => Does(Steps, pc, "survey", name)
          /\ op = "update" => Does(Steps, pc, "survey", name) \/ Does(Steps, pc, "list", name)
          /\ op = "forget" =>
              /\ name = "WSTETHOracle" => Does(Steps, pc, "update", "feed")
              /\ name # "WSTETHOracle" =>
                   \/ Does(Steps, pc, "update", "controllers")
                   \/ \E c \in Controllers(network) : Does(Steps, pc, "drop", c)
          /\ op = "rewrite" => Does(Steps, pc, "forget", name)
          /\ op = "drop" => Does(Steps, pc, "rewrite", name)
      BY <2>2, <3>1, <3>2, StepBefore
    <3>4. op \notin {"list", "update"} \cup Replacing
      BY <3>1, <3>3 DEF Does, Replacing
    <3>. QED BY <3>4 DEF op
  <2>. QED BY <2>1, <2>2, AdvancedOnce
<1>. QED BY <1>1 DEF PlanInv, Replacing

-----------------------------------------------------------------------------
(* Other transactions                                                      *)

\* Any other transaction keeps the invariant when it keeps the data sound, undoes
\* no passed step, and has had its own effect when the run goes on.
LEMMA CommandInv ==
  ASSUME DeploymentInv, Sending, Op \notin Making \cup {"survey"} \cup Replacing,
         DataInv', \A i \in DOMAIN Steps : i < pc => Passed(i)',
         \/ Abort
         \/ Stays /\ PlanInv'
         \/ Advance /\ UNCHANGED plan /\ PlanInv' /\ (\A i \in DOMAIN Steps : i = pc => Passed(i)')
  PROVE  DeploymentInv'
<1>1. /\ ControlTypes /\ DataInv /\ PlaceInv /\ pc # 0 /\ UNCHANGED <<network, version, records, newRecords>>
      /\ phase = "send"
  BY DEF DeploymentInv, Sending
<1>2. Op # "rewrite" /\ Op \notin Saved
  BY DEF Replacing, Saved, Making
<1>3. ControlTypes'
  BY <1>1, <1>2, AttemptTypes DEF Passes
<1>4. CASE Abort
  BY <1>1, <1>3, <1>4, EndPlaces DEF DeploymentInv
<1>5. CASE Stays /\ PlanInv'
  <2>1. pc' = pc /\ step' = step /\ phase' = "send"
    BY <1>1, <1>5 DEF Stays
  <2>2. PassedMade' /\ PassedInv'
    BY <1>1, <1>2, <2>1, PassedStays
  <2>3. DecidedInv'
    BY <2>1 DEF DecidedInv, Op
  <2>. QED BY <1>3, <1>5, <2>2, <2>3 DEF DeploymentInv, PlaceInv
<1>6. CASE /\ Advance /\ UNCHANGED plan /\ PlanInv'
           /\ \A i \in DOMAIN Steps : i = pc => Passed(i)'
  <2>1. pc \in DOMAIN Steps /\ pc \in Nat /\ DOMAIN Steps = 1..Len(Steps) /\ Len(Steps) \in Nat
        /\ Steps[pc].op \notin Making
    BY <1>1, AtStep DEF Op
  <2>2. MadeBefore(Steps, pc + 1) = MadeBefore(Steps, pc)
    <3>1. pc \in Nat \ {0}
      BY <1>1, <2>1
    <3>2. MadeBefore(Steps, pc + 1)
            = MadeBefore(Steps, pc) \cup (IF Steps[pc].op \in Making THEN {Steps[pc].name} ELSE {})
      BY <3>1, MadeNext
    <3>. QED BY <2>1, <3>2
  <2>3. \A k \in MadeBefore(Steps, pc + 1) : Recorded(k)'
    BY <1>1, <1>2, <2>2, MadeByNow DEF Recorded
  <2>4. \A i \in DOMAIN Steps : i < pc + 1 => Passed(i)'
    BY <1>6, <2>1
  <2>5. PlaceInv'
    BY <1>1, <1>6, <2>1, <2>3, <2>4, AdvancePassed DEF Advance
  <2>. QED BY <1>3, <2>5 DEF DeploymentInv
<1>. QED BY <1>4, <1>5, <1>6

\* ... which for a step before none of the lists leaves nothing to say of the plan.
LEMMA PlainCommand ==
  ASSUME DeploymentInv, Sending, Op \notin Making \cup {"survey", "list", "update"} \cup Replacing,
         DataInv', \A i \in DOMAIN Steps : i < pc => Passed(i)',
         \/ Abort \/ Stays
         \/ Advance /\ UNCHANGED plan /\ (\A i \in DOMAIN Steps : i = pc => Passed(i)')
  PROVE  DeploymentInv'
<1>1. Stays => PlanInv'
  BY DEF Stays, PlanInv, Op, Replacing
<1>2. Advance => PlanInv'
  BY PlainAdvance DEF DeploymentInv, Sending
<1>. QED BY <1>1, <1>2, CommandInv

\* Passed steps stay passed when the lists, the records and the chain stay.
LEMMA PassedSame ==
  ASSUME DeploymentInv, pc # 0, UNCHANGED <<network, records, chain, deposits>>,
         core'.listed = core.listed, core'.valueTokens = core.valueTokens,
         core'.controllers = core.controllers
  PROVE  \A i \in DOMAIN Steps : i < pc => Passed(i)'
<1>1. \A i \in DOMAIN Steps : i < pc => Passed(i)
  BY DEF DeploymentInv, PlaceInv, PassedInv, Reach
<1>2. Steps' = Steps /\ CoreReady' = CoreReady
  BY DEF Steps, CoreReady, Initialized, Recorded, RecordedInstance
<1>. QED BY <1>1, <1>2 DEF Passed, PassedCode, PassedCore, PassedLists, PassedSeeds, RecordedInstance, Universe, Told

\* Most steps leave nothing behind that a later one relies on.
LEMMA PassedVacuous ==
  ASSUME ControlTypes, pc # 0, network' = network,
         Op \notin {"proxy", "beacon", "initialize", "list", "answer"}
  PROVE  \A i \in DOMAIN Steps : i = pc => Passed(i)'
BY AtStep DEF Passed, PassedCode, PassedCore, PassedLists, PassedSeeds, Steps, Does, Op

\* Permissions, links and activations keep the invariant.
LEMMA FactsInv ==
  ASSUME DeploymentInv, EnsureFact \/ ActivatePool
  PROVE  DeploymentInv'
<1>1. ControlTypes /\ DataInv
  BY DEF DeploymentInv
<1>2. /\ pc # 0 /\ Op \in {"ensure", "activate"} /\ phase = "send" /\ (Needed \/ failures > 0)
      /\ UNCHANGED <<network, version, records, newRecords, chain, core, deposits>>
  BY DEF EnsureFact, ActivatePool, Running, Transact, world
<1>3. \/ Confirmed \/ (Fault /\ FailedAttempt)
      \/ Abort /\ UNCHANGED faults
  BY DEF EnsureFact, ActivatePool, Transact
<1>4. Confirmed => Advance /\ UNCHANGED <<plan, faults>>
  BY <1>2 DEF Confirmed
<1>5. faults \in 0..MaxFaults[network]
  BY <1>1 DEF ControlTypes
<1>6. Sending
  BY <1>1, <1>2, <1>3, <1>4, <1>5, Faults DEF Sending
<1>7. DataInv'
  BY <1>1, <1>2, SameData
<1>8. \A i \in DOMAIN Steps : i < pc => Passed(i)'
  BY <1>2, PassedSame
<1>9. \A i \in DOMAIN Steps : i = pc => Passed(i)'
  BY <1>1, <1>2, PassedVacuous
<1>10. Abort \/ Stays \/ (Advance /\ UNCHANGED plan)
  BY <1>1, <1>3, <1>4, Attempts
<1>11. Op \notin Making \cup {"survey", "list", "update"} \cup Replacing
  BY <1>2 DEF Making, Replacing
<1>. QED BY <1>6, <1>7, <1>8, <1>9, <1>10, <1>11, PlainCommand

\* A transaction that makes nothing goes on to the next step, or is tried again.
LEMMA CommandSteps ==
  ASSUME ControlTypes, pc # 0, phase = "send", Needed \/ failures > 0, Op \notin Saved,
         UNCHANGED <<network, version, records, newRecords>>,
         Confirmed \/ (Fault /\ FailedAttempt) \/ UNCHANGED faults
  PROVE  /\ Sending
         /\ Confirmed => Advance /\ UNCHANGED plan
         /\ FailedAttempt => Stays \/ Abort
<1>1. faults \in 0..MaxFaults[network]
  BY DEF ControlTypes
<1>2. faults' \in 0..MaxFaults[network]
  BY <1>1, Faults DEF Confirmed
<1>. QED BY <1>2, Attempts DEF Sending, Confirmed, Saved

\* Records and links stay sound when a transaction only tells the core something.
LEMMA SameChain ==
  ASSUME DataInv, UNCHANGED <<network, version, records, newRecords, chain>>
  PROVE  /\ RecordsInv' /\ WiringInv'
         /\ /\ core' \in [controllers : [Controllers("local") -> Nat], listed : SUBSET FeedTokens,
                           feeds : [Tokens -> Nat], valueTokens : SUBSET ValueTokens, minDeposit : Nat]
            /\ deposits' \in [Pools -> [queued : Nat, settled : Nat]]
            => DataTypes'
<1>1. Steps' = Steps /\ (\A n : OnlyRecorded(n)' = OnlyRecorded(n)) /\ RecordType' = RecordType
  BY DEF Steps, OnlyRecorded, RecordType
<1>2. \A n : /\ Recorded(n)' = Recorded(n) /\ Initialized(n)' = Initialized(n)
             /\ RecordedInstance(n)' = RecordedInstance(n)
             /\ UpgradedInPlace(n)' = UpgradedInPlace(n)
             /\ SoundRecord(n, newRecords[n])' = SoundRecord(n, newRecords[n])
  BY <1>1 DEF Recorded, Initialized, RecordedInstance, UpgradedInPlace, SoundRecord
<1>3. RecordsInv'
  BY <1>1, <1>2 DEF RecordsInv, DataInv
<1>4. WiringInv'
  BY <1>2 DEF WiringInv, SoundLinks, DataInv
<1>. QED BY <1>1, <1>3, <1>4 DEF DataInv, DataTypes

\* setMinimumFundDeposit keeps the invariant.
LEMMA MinDepositInv ==
  ASSUME DeploymentInv, SetMinDeposit
  PROVE  DeploymentInv'
<1>1. ControlTypes /\ DataInv
  BY DEF DeploymentInv
<1>2. /\ pc # 0 /\ Op = "minDeposit" /\ phase = "send" /\ (Needed \/ failures > 0)
      /\ UNCHANGED <<network, version, records, newRecords, chain, deposits>>
      /\ core' = [core EXCEPT !.minDeposit = step.args] \/ core' = core
  BY DEF SetMinDeposit, Running, Transact, world
<1>3. \/ Confirmed \/ (Fault /\ FailedAttempt)
      \/ Abort /\ UNCHANGED faults
  BY DEF SetMinDeposit, Transact
<1>4. Sending /\ (Abort \/ Stays \/ (Advance /\ UNCHANGED plan))
  BY <1>1, <1>2, <1>3, CommandSteps DEF Saved
<1>5. step.args \in Nat
  BY <1>1, <1>2, AtStep, OrderAssumption DEF ControlTypes, Steps, Op
<1>6. /\ core'.listed = core.listed /\ core'.valueTokens = core.valueTokens
      /\ core'.controllers = core.controllers /\ core'.feeds = core.feeds
      /\ core' \in [controllers : [Controllers("local") -> Nat], listed : SUBSET FeedTokens,
                     feeds : [Tokens -> Nat], valueTokens : SUBSET ValueTokens, minDeposit : Nat]
  BY <1>1, <1>2, <1>5 DEF DataInv, DataTypes
<1>7. DataInv'
  <2>1. RecordsInv' /\ WiringInv' /\ DataTypes'
    BY <1>1, <1>2, <1>6, SameChain DEF DataInv, DataTypes
  <2>2. FeedsInv' /\ QueuedInv' /\ ControllerIsRecorded'
    BY <1>1, <1>2, <1>6 DEF DataInv, FeedsInv, QueuedInv, ControllerIsRecorded, Steps
  <2>. QED BY <2>1, <2>2 DEF DataInv
<1>8. \A i \in DOMAIN Steps : i < pc => Passed(i)'
  BY <1>2, <1>6, PassedSame
<1>9. \A i \in DOMAIN Steps : i = pc => Passed(i)'
  BY <1>1, <1>2, PassedVacuous
<1>10. Op \notin Making \cup {"survey", "list", "update"} \cup Replacing
  BY <1>2 DEF Making, Replacing
<1>. QED BY <1>4, <1>7, <1>8, <1>9, <1>10, PlainCommand

\* Demonstration money goes to pools that are answered, and not before it.
LEMMA SeedPools ==
  ASSUME ControlTypes, pc # 0, Op \in {"deposit", "answer"}
  PROVE  /\ Name \in Pools
         /\ \E i \in DOMAIN Steps : Does(Steps, i, "answer", Name)
         /\ Op = "deposit" => \A i \in DOMAIN Steps : i < pc => ~Does(Steps, i, "answer", Name)
         /\ \A i \in DOMAIN Steps : Steps[i].op = "answer" => Steps[i].name \in Pools
<1>1. pc \in DOMAIN Steps /\ Steps[pc].op = Op /\ Steps[pc].name = Name
      /\ DOMAIN Steps = 1..Len(Steps) /\ Len(Steps) \in Nat
      /\ \A i \in DOMAIN Steps : SeedsInOrder(Steps, i)
  BY AtStep, OrderAssumption DEF ControlTypes, Steps, Op, Name
<1>2. \A i \in DOMAIN Steps : i < pc => i \in 1..(pc - 1)
  BY <1>1
<1>. QED BY <1>1, <1>2 DEF SeedsInOrder, Does

\* The deposits of demonstration money and the oracle's answers keep the invariant.
LEMMA SeedsInv ==
  ASSUME DeploymentInv, DepositSeed \/ AnswerSeed
  PROVE  DeploymentInv'
<1>1. ControlTypes /\ DataInv
  BY DEF DeploymentInv
<1> DEFINE queues  == deposits' = [deposits EXCEPT ![Name].queued = @ + 1]
           settles == deposits' = [deposits EXCEPT ![Name] =
                                     [queued |-> 0, settled |-> @.settled + @.queued]]
<1>2. /\ pc # 0 /\ Op \in {"deposit", "answer"} /\ phase = "send" /\ (Needed \/ failures > 0)
      /\ UNCHANGED <<network, version, records, newRecords, chain, core>>
      /\ (Op = "deposit" /\ queues) \/ (Op = "answer" /\ settles) \/ deposits' = deposits
  BY DEF DepositSeed, AnswerSeed, Running, Transact, world
<1>3. \/ Confirmed /\ (Op = "answer" => settles)
      \/ Fault /\ FailedAttempt
      \/ Abort /\ UNCHANGED faults
  BY DEF DepositSeed, AnswerSeed, Transact, Running
<1>4. Sending /\ (Abort \/ Stays \/ (Advance /\ UNCHANGED plan /\ (Op = "answer" => settles)))
  BY <1>1, <1>2, <1>3, CommandSteps DEF Saved
<1>5. /\ Name \in Pools /\ \E i \in DOMAIN Steps : Does(Steps, i, "answer", Name)
      /\ Op = "deposit" => \A i \in DOMAIN Steps : i < pc => ~Does(Steps, i, "answer", Name)
      /\ \A i \in DOMAIN Steps : Steps[i].op = "answer" => Steps[i].name \in Pools
  BY <1>1, <1>2, SeedPools
<1>6. deposits \in [Pools -> [queued : Nat, settled : Nat]]
  BY <1>1 DEF DataInv, DataTypes
<1>7. /\ deposits' \in [Pools -> [queued : Nat, settled : Nat]]
      /\ \A p \in Pools \ {Name} : deposits'[p] = deposits[p]
      /\ settles => deposits'[Name].queued = 0
  BY <1>2, <1>5, <1>6
<1>8. DataInv'
  <2>1. RecordsInv' /\ WiringInv' /\ DataTypes'
    BY <1>1, <1>2, <1>7, SameChain DEF DataInv, DataTypes
  <2>2. QueuedInv'
    BY <1>1, <1>2, <1>5, <1>7 DEF DataInv, QueuedInv, Steps
  <2>3. FeedsInv' /\ ControllerIsRecorded'
    BY <1>1, <1>2 DEF DataInv, FeedsInv, ControllerIsRecorded
  <2>. QED BY <2>1, <2>2, <2>3 DEF DataInv
<1>9. \A i \in DOMAIN Steps : i < pc => Passed(i)'
  <2> SUFFICES ASSUME NEW i \in DOMAIN Steps, i < pc PROVE Passed(i)'
    OBVIOUS
  <2>1. Passed(i)
    BY <1>2 DEF DeploymentInv, PlaceInv, PassedInv, Reach
  <2>2. Steps' = Steps /\ CoreReady' = CoreReady
    BY <1>2 DEF Steps, CoreReady, Initialized, Recorded, RecordedInstance
  <2>3. PassedSeeds(i)'
    <3>1. CASE Steps[i].op = "answer" /\ Steps[i].name = Name /\ Op = "answer"
      BY <1>2, <1>7, <2>1, <2>2, <3>1 DEF Passed, PassedSeeds
    <3>2. CASE Steps[i].op = "answer" /\ Steps[i].name # Name
      BY <1>5, <1>7, <2>1, <2>2, <3>2 DEF Passed, PassedSeeds
    <3>3. Steps[i].op = "answer" /\ Steps[i].name = Name => Op = "answer"
      BY <1>2, <1>5 DEF Does
    <3>4. CASE Steps[i].op # "answer"
      BY <2>2, <3>4 DEF PassedSeeds
    <3>. QED BY <3>1, <3>2, <3>3, <3>4
  <2>. QED BY <1>2, <2>1, <2>2, <2>3
       DEF Passed, PassedCode, PassedCore, PassedLists, RecordedInstance, Universe, Told
<1>10. Advance /\ (Op = "answer" => settles) => \A i \in DOMAIN Steps : i = pc => Passed(i)'
  <2>1. CASE Op = "deposit"
    BY <1>1, <1>2, <2>1, PassedVacuous
  <2>2. CASE Op = "answer" /\ settles
    BY <1>1, <1>2, <1>7, <2>2, AtStep
       DEF Passed, PassedCode, PassedCore, PassedLists, PassedSeeds, Steps, Does, Op, Name
  <2>. QED BY <1>2, <2>1, <2>2
<1>11. Op \notin Making \cup {"survey", "list", "update"} \cup Replacing
  BY <1>2 DEF Making, Replacing
<1>. HIDE DEF settles, queues
<1>. QED BY <1>4, <1>8, <1>9, <1>10, <1>11, PlainCommand

\* initialize keeps the invariant: it is sent to a proxy with no links, and the
\* links it writes are recorded ones.
LEMMA InitializeInv ==
  ASSUME DeploymentInv, InitializeContract
  PROVE  DeploymentInv'
<1>1. ControlTypes /\ DataInv /\ PlaceInv
  BY DEF DeploymentInv
<1> DEFINE id     == records[Name].id
           old    == RecordedInstance(Name)
           new    == [impl |-> old.impl, links |-> Links(step.args)]
           effect == /\ chain' = [chain EXCEPT ![Name][id].links = Links(step.args)]
                     /\ UNCHANGED <<core, facts, deposits>>
<1>2. /\ pc # 0 /\ Op = "initialize" /\ phase = "send" /\ (Needed \/ failures > 0)
      /\ UNCHANGED <<network, version, records, newRecords, core, deposits>>
  BY DEF InitializeContract, Running, Transact, world
<1>3. \/ effect /\ Confirmed
      \/ effect /\ Fault /\ FailedAttempt
      \/ Abort /\ UNCHANGED <<world, faults>>
      \/ Fault /\ FailedAttempt /\ UNCHANGED world
  BY DEF InitializeContract, Transact
<1>4. Sending /\ (Abort \/ Stays \/ (Advance /\ UNCHANGED plan /\ effect)) /\ (effect \/ UNCHANGED chain)
  BY <1>1, <1>2, <1>3, CommandSteps DEF Saved, world
<1>5. pc \in DOMAIN Steps /\ step = Steps[pc] /\ Steps[pc].op = "initialize" /\ Steps[pc].name = Name
  BY <1>1, <1>2, AtStep DEF Op, Name
<1>6. Name \in Names /\ ~OnlyRecorded(Name)
  BY <1>1, <1>5, InitializedName
<1>7. Recorded(Name) /\ step.args # {}
  <2>1. MakesInOrder(network, Steps, pc)
    BY <1>1, <1>5, OrderAssumption DEF ControlTypes, Steps
  <2>2. PICK j \in 1..(pc - 1) : Does(Steps, j, "proxy", Name)
    BY <1>5, <2>1 DEF MakesInOrder
  <2>3. Name \in MadeBefore(Steps, pc)
    BY <2>2 DEF MadeBefore, Does, Making
  <2>4. Op # "rewrite"
    BY <1>2
  <2>. QED BY <1>2, <1>5, <2>1, <2>3, <2>4, MadeByNow DEF MakesInOrder
<1>8. id \in DOMAIN chain[Name] /\ chain[Name] \in Seq(Instances) /\ old \in Instances
  BY <1>1, <1>6, <1>7 DEF DataInv, DataTypes, RecordsInv, RecordedInstance
<1>9. Links(step.args) \in LinkMaps /\ SoundLinks(Links(step.args)) /\ Links(step.args) # <<>>
  <2>1. DOMAIN <<>> = {}
    OBVIOUS
  <2>. QED BY <1>2, <1>7, <2>1, RecordedLinks
<1>10. effect => Altered(new)
  <2>1. new \in Instances /\ [old EXCEPT !.links = Links(step.args)] = new
    BY <1>8, <1>9 DEF Instances
  <2>2. effect => chain' = [chain EXCEPT ![Name] =
                              [@ EXCEPT ![id] = [old EXCEPT !.links = Links(step.args)]]]
    BY DEF RecordedInstance
  <2>. HIDE DEF new, effect
  <2>3. effect => chain' = [chain EXCEPT ![Name] = [@ EXCEPT ![id] = new]]
    BY <2>1, <2>2
  <2>. QED BY <1>1, <1>6, <1>8, <2>1, <2>3, ExceptAlters DEF DataInv
<1>11. new.impl = chain[Name][id].impl /\ new.links = Links(step.args)
  BY DEF RecordedInstance
<1>. HIDE DEF new, effect
<1>12. /\ chain' \in [Names -> Seq(Instances)]
       /\ \A n \in Names : DOMAIN chain'[n] = DOMAIN chain[n]
       /\ \A n \in Names : \A i \in DOMAIN chain[n] :
            /\ chain'[n][i].impl = chain[n][i].impl
            /\ chain'[n][i].links \in {chain[n][i].links, Links(step.args)}
       /\ \A n \in Names \ {Name} : chain'[n] = chain[n]
       /\ effect => chain'[Name][id].links = Links(step.args)
  <2>1. CASE effect
    <3>1. /\ chain' \in [Names -> Seq(Instances)] /\ chain'[Name][id] = new
          /\ \A n \in Names : DOMAIN chain'[n] = DOMAIN chain[n]
          /\ \A n \in Names : \A i \in DOMAIN chain[n] :
               n # Name \/ i # id => chain'[n][i] = chain[n][i]
          /\ \A n \in Names \ {Name} : chain'[n] = chain[n]
      BY <1>10, <2>1 DEF Altered
    <3>. QED BY <1>11, <3>1
  <2>2. CASE UNCHANGED chain /\ ~effect
    BY <1>1, <2>2 DEF DataInv, DataTypes
  <2>. QED BY <1>4, <2>1, <2>2
<1>13. DataInv'
  <2>1. RecordsInv'
    <3>1. \A n \in Names : OnlyRecorded(n) => chain'[n] = chain[n]
      BY <1>6, <1>12
    <3>2. \A n \in Names : \A i \in DOMAIN chain[n] :
            /\ i \in DOMAIN chain'[n]
            /\ chain'[n][i].impl = chain[n][i].impl
            /\ chain[n][i].links # <<>> => chain'[n][i].links # <<>>
      BY <1>9, <1>12
    <3>. QED BY <1>1, <1>2, <3>1, <3>2, KeptRecords
  <2>2. WiringInv'
    <3>1. \A n \in Names : \A i \in DOMAIN chain'[n] : SoundLinks(chain'[n][i].links)
      BY <1>1, <1>9, <1>12 DEF DataInv, WiringInv
    <3>. QED BY <1>2, <3>1 DEF WiringInv, SoundLinks, Recorded
  <2>3. DataTypes'
    BY <1>1, <1>2, <1>12 DEF DataInv, DataTypes, RecordType
  <2>. QED BY <1>1, <1>2, <2>1, <2>2, <2>3, SameFeeds DEF DataInv
<1>14. \A i \in DOMAIN Steps : i < pc => Passed(i)'
  <2> SUFFICES ASSUME NEW i \in DOMAIN Steps, i < pc PROVE Passed(i)'
    OBVIOUS
  <2>1. Passed(i) /\ Steps' = Steps
    BY <1>1, <1>2 DEF PlaceInv, PassedInv, Reach, Steps
  <2>2. PassedCore(i)'
    <3>1. \A n \in Names : \A k \in DOMAIN chain[n] :
            chain[n][k].links # <<>> => chain'[n][k].links # <<>>
      BY <1>9, <1>12
    <3>. QED BY <1>1, <1>2, <3>1, CoreKept
  <2>3. PassedCode(i)'
    <3> DEFINE n == Steps[i].name
    <3>1. CASE Steps[i].op \in {"proxy", "beacon"}
      <4>1. n \in Names /\ ~OnlyRecorded(n)
        <5>1. n \in Names
          BY <1>1, <3>1, NamesMade DEF Making, Steps, ControlTypes
        <5>2. \A j \in DOMAIN Steps : Steps[j].op = "external" => Steps[j].name # n
          BY <1>1, <3>1, MadeOnce DEF Making
        <5>. QED BY <5>1, <5>2 DEF OnlyRecorded, Does
      <4>2. Recorded(n)
        <5>1. n \in MadeBefore(Steps, pc)
          BY <1>1, <1>2, <3>1, AtStep DEF MadeBefore, Making
        <5>2. Op # "rewrite"
          BY <1>2
        <5>. QED BY <1>2, <5>1, <5>2, MadeByNow
      <4>3. records[n].id \in DOMAIN chain[n]
        BY <1>1, <4>1, <4>2 DEF DataInv, RecordsInv
      <4>4. chain'[n][records[n].id].impl = chain[n][records[n].id].impl
        BY <1>12, <4>1, <4>3
      <4>5. records[n].abi = chain[n][records[n].id].impl
        BY <2>1, <3>1 DEF Passed, PassedCode, RecordedInstance
      <4>. HIDE DEF n
      <4>6. records'[n].abi = chain'[n][records'[n].id].impl
        BY <1>2, <4>4, <4>5
      <4>. QED BY <2>1, <4>6 DEF PassedCode, RecordedInstance, n
    <3>2. CASE Steps[i].op \notin {"proxy", "beacon"}
      BY <2>1, <3>2 DEF PassedCode
    <3>. QED BY <3>1, <3>2
  <2>. QED BY <1>2, <2>1, <2>2, <2>3 DEF Passed, PassedLists, PassedSeeds, Universe, Told
<1>15. effect => \A i \in DOMAIN Steps : i = pc => Passed(i)'
  <2>1. effect /\ Name = "UFarmCore" => CoreReady'
    BY <1>2, <1>7, <1>9, <1>12 DEF CoreReady, Initialized, Recorded, RecordedInstance
  <2>2. Steps' = Steps
    BY <1>2 DEF Steps
  <2>. QED BY <1>5, <2>1, <2>2 DEF Passed, PassedCode, PassedCore, PassedLists, PassedSeeds, Does
<1>16. Op \notin Making \cup {"survey", "list", "update"} \cup Replacing
  BY <1>2 DEF Making, Replacing
<1>. QED BY <1>4, <1>13, <1>14, <1>15, <1>16, PlainCommand

-----------------------------------------------------------------------------
(* The lists                                                               *)

\* The address of a recorded contract is not zero.
LEMMA RecordedId ==
  ASSUME ControlTypes, DataInv, NEW n \in Names, Recorded(n)
  PROVE  records[n].id \in Nat \ {0}
<1>1. records[n].id \in Nat /\ chain[n] \in Seq(Instances)
  BY DEF DataInv, DataTypes, RecordType
<1>2. OnlyRecorded(n) => records[n].id = 1
  BY DEF DataInv, RecordsInv
<1>3. ~OnlyRecorded(n) => records[n].id \in DOMAIN chain[n]
  BY DEF DataInv, RecordsInv
<1>. QED BY <1>1, <1>2, <1>3

\* Every controller of the network has a record.
LEMMA ControllersAreNames ==
  ASSUME ControlTypes
  PROVE  Controllers(network) \subseteq Names /\ Controllers(network) \subseteq Controllers("local")
<1>1. PICK i \in DOMAIN Steps : Does(Steps, i, "list", "controllers")
  BY OrderAssumption DEF ControlTypes, Steps, ReachesItsEnd
<1>2. Controllers(network) \subseteq MadeBefore(Steps, i) /\ i \in Nat /\ i <= Len(Steps) + 1
  BY <1>1, OrderAssumption DEF ControlTypes, Steps, ListsInOrder, Does
<1>3. MadeBefore(Steps, i) \subseteq Names
  BY <1>2, MadeAreNames DEF ControlTypes, Steps
<1>. QED BY <1>2, <1>3, ControllersOfEnv, DeploymentAssumption DEF ControlTypes

\* What the steps with lists are about, and what was made before them.
LEMMA ListNames ==
  ASSUME ControlTypes, pc # 0, Op \in {"list", "update"}
  PROVE  /\ Name \in {"tokens", "valueTokens", "controllers", "feed"}
         /\ Op = "list" => Name # "feed"
         /\ Op = "list" /\ Name = "tokens" =>
              {Aggregator(t) : t \in FeedTokens} \subseteq MadeBefore(Steps, pc) \cap Names
         /\ Op = "list" /\ Name = "controllers" => Controllers(network) \subseteq MadeBefore(Steps, pc)
         /\ Op = "update" /\ Name = "feed" =>
              \A i \in DOMAIN Steps : i < pc => ~Does(Steps, i, "list", "tokens")
<1>1. pc \in DOMAIN Steps /\ Does(Steps, pc, Op, Name) /\ ListsInOrder(network, Steps, pc)
      /\ DOMAIN Steps = 1..Len(Steps) /\ Len(Steps) \in Nat /\ pc \in Nat /\ pc <= Len(Steps) + 1
  BY AtStep, OrderAssumption DEF ControlTypes, Steps, Op, Name, Does
<1>2. MadeBefore(Steps, pc) \subseteq Names
  BY <1>1, MadeAreNames DEF ControlTypes, Steps
<1>3. \A i \in DOMAIN Steps : i < pc => i \in 1..(pc - 1)
  BY <1>1
<1>4. Steps[pc].op = Op /\ Steps[pc].name = Name
  BY <1>1 DEF Does
<1>. QED BY <1>1, <1>2, <1>3, <1>4 DEF ListsInOrder

\* What sending a list does.
LEMMA ListedData ==
  ASSUME DeploymentInv, pc # 0, Op = "list", core' = Listed,
         UNCHANGED <<network, version, records, newRecords, chain, deposits>>
  PROVE  /\ DataInv'
         /\ \A what \in {"tokens", "valueTokens", "controllers"} :
              /\ Told(what) \subseteq Told(what)'
              /\ what = Name => Universe(what) \subseteq Told(what)'
<1>1. ControlTypes /\ DataInv
  BY DEF DeploymentInv
<1>2. /\ plan.list \subseteq Universe(Name) /\ Universe(Name) \ Told(Name) \subseteq plan.list
      /\ Name \in {"tokens", "valueTokens", "controllers"}
  BY <1>1, ListNames DEF DeploymentInv, PlaceInv, PlanInv
<1>3. /\ core \in [controllers : [Controllers("local") -> Nat], listed : SUBSET FeedTokens,
                   feeds : [Tokens -> Nat], valueTokens : SUBSET ValueTokens, minDeposit : Nat]
      /\ deposits \in [Pools -> [queued : Nat, settled : Nat]]
  BY <1>1 DEF DataInv, DataTypes
<1>4. \A n \in MadeBefore(Steps, pc) : Recorded(n)
  BY MadeByNow
<1>5. QueuedInv'
  BY <1>1 DEF DataInv, QueuedInv, Steps
<1>6. Controllers(network) \subseteq Names /\ Controllers(network) \subseteq Controllers("local")
  BY <1>1, ControllersAreNames
<1>7. CASE Name = "tokens"
  <2>1. plan.list \subseteq FeedTokens /\ FeedTokens \ core.listed \subseteq plan.list
    BY <1>2, <1>7 DEF Universe, Told
  <2>2. \A t \in FeedTokens : /\ Aggregator(t) \in Names /\ Recorded(Aggregator(t))
                              /\ records[Aggregator(t)].id \in Nat \ {0} /\ t \in Tokens
    <3>1. {Aggregator(t) : t \in FeedTokens} \subseteq MadeBefore(Steps, pc) \cap Names
      BY <1>1, <1>7, ListNames
    <3>. QED BY <1>1, <1>4, <3>1, RecordedId DEF FeedTokens
  <2>3. core' = [core EXCEPT !.listed = @ \cup plan.list,
                             !.feeds = [t \in Tokens |-> IF t \in plan.list THEN records[Aggregator(t)].id
                                                                            ELSE @[t]]]
    BY <1>7 DEF Listed
  <2>4. /\ core'.listed = core.listed \cup plan.list /\ core'.valueTokens = core.valueTokens
        /\ core'.controllers = core.controllers /\ core'.minDeposit = core.minDeposit
        /\ \A t \in Tokens : core'.feeds[t] = IF t \in plan.list THEN records[Aggregator(t)].id
                                                                 ELSE core.feeds[t]
        /\ core' \in [controllers : [Controllers("local") -> Nat], listed : SUBSET FeedTokens,
                      feeds : [Tokens -> Nat], valueTokens : SUBSET ValueTokens, minDeposit : Nat]
    <3> DEFINE feeds == [t \in Tokens |-> IF t \in plan.list THEN records[Aggregator(t)].id
                                                             ELSE core.feeds[t]]
    <3>1. /\ \A t \in Tokens : feeds[t] = IF t \in plan.list THEN records[Aggregator(t)].id
                                                            ELSE core.feeds[t]
          /\ feeds \in [Tokens -> Nat]
      BY <1>3, <2>1, <2>2
    <3>2. core' = [core EXCEPT !.listed = core.listed \cup plan.list, !.feeds = feeds]
      BY <2>3
    <3>. HIDE DEF feeds
    <3>3. core.listed \cup plan.list \subseteq FeedTokens
      BY <1>3, <2>1
    <3>4. /\ core'.listed = core.listed \cup plan.list /\ core'.valueTokens = core.valueTokens
          /\ core'.controllers = core.controllers /\ core'.minDeposit = core.minDeposit
          /\ core'.feeds = feeds
          /\ core' \in [controllers : [Controllers("local") -> Nat], listed : SUBSET FeedTokens,
                        feeds : [Tokens -> Nat], valueTokens : SUBSET ValueTokens, minDeposit : Nat]
      BY <1>3, <3>1, <3>2, <3>3
    <3>. QED BY <3>1, <3>4
  <2>5. RecordsInv' /\ WiringInv' /\ DataTypes'
    BY <1>1, <1>3, <2>4, SameChain
  <2>6. FeedsInv'
    <3> SUFFICES ASSUME NEW t \in core'.listed
                 PROVE  /\ Aggregator(t) \in Names /\ core'.feeds[t] = records[Aggregator(t)].id
                        /\ core'.feeds[t] # 0
      BY DEF FeedsInv
    <3>1. CASE t \in plan.list
      BY <2>1, <2>2, <2>4, <3>1
    <3>2. CASE t \in core.listed /\ t \notin plan.list
      BY <1>1, <1>3, <2>2, <2>4, <3>2 DEF DataInv, FeedsInv
    <3>. QED BY <2>4, <3>1, <3>2
  <2>7. ControllerIsRecorded'
    BY <1>1, <2>4 DEF DataInv, ControllerIsRecorded
  <2>. QED BY <1>5, <1>7, <2>1, <2>4, <2>5, <2>6, <2>7 DEF DataInv, Universe, Told
<1>8. CASE Name = "valueTokens"
  <2>1. plan.list \subseteq ValueTokens /\ ValueTokens \ core.valueTokens \subseteq plan.list
    BY <1>2, <1>8 DEF Universe, Told
  <2>2. core' = [core EXCEPT !.valueTokens = @ \cup plan.list]
    BY <1>8 DEF Listed
  <2>3. /\ core'.valueTokens = core.valueTokens \cup plan.list /\ core'.listed = core.listed
        /\ core'.controllers = core.controllers /\ core'.feeds = core.feeds
        /\ core' \in [controllers : [Controllers("local") -> Nat], listed : SUBSET FeedTokens,
                      feeds : [Tokens -> Nat], valueTokens : SUBSET ValueTokens, minDeposit : Nat]
    BY <1>3, <2>1, <2>2
  <2>4. RecordsInv' /\ WiringInv' /\ DataTypes'
    BY <1>1, <1>3, <2>3, SameChain
  <2>5. FeedsInv' /\ ControllerIsRecorded'
    BY <1>1, <2>3 DEF DataInv, FeedsInv, ControllerIsRecorded
  <2>. QED BY <1>5, <1>8, <2>1, <2>3, <2>4, <2>5 DEF DataInv, Universe, Told
<1>9. CASE Name = "controllers"
  <2>1. /\ plan.list \subseteq Controllers(network)
        /\ \A c \in Controllers(network) : core.controllers[c] = 0 => c \in plan.list
    BY <1>2, <1>9 DEF Universe, Told
  <2>2. \A c \in Controllers(network) : records[c].id \in Nat \ {0}
    <3>1. Controllers(network) \subseteq MadeBefore(Steps, pc)
      BY <1>1, <1>9, ListNames
    <3>. QED BY <1>1, <1>4, <1>6, <3>1, RecordedId
  <2>3. core' = [core EXCEPT !.controllers =
                   [c \in DOMAIN @ |-> IF c \in plan.list THEN records[c].id ELSE @[c]]]
    BY <1>9 DEF Listed
  <2>4. /\ core'.valueTokens = core.valueTokens /\ core'.listed = core.listed
        /\ core'.feeds = core.feeds
        /\ \A c \in Controllers("local") :
             core'.controllers[c] = IF c \in plan.list THEN records[c].id ELSE core.controllers[c]
        /\ core' \in [controllers : [Controllers("local") -> Nat], listed : SUBSET FeedTokens,
                      feeds : [Tokens -> Nat], valueTokens : SUBSET ValueTokens, minDeposit : Nat]
    BY <1>3, <1>6, <2>1, <2>2, <2>3
  <2>5. RecordsInv' /\ WiringInv' /\ DataTypes'
    BY <1>1, <1>3, <2>4, SameChain
  <2>6. FeedsInv'
    BY <1>1, <2>4 DEF DataInv, FeedsInv
  <2>7. ControllerIsRecorded'
    BY <1>1, <1>6, <2>4 DEF DataInv, ControllerIsRecorded
  <2>8. \A c \in Controllers(network) : core'.controllers[c] # 0
    BY <1>6, <2>1, <2>2, <2>4
  <2>9. Controllers(network)' = Controllers(network)
    OBVIOUS
  <2>. QED BY <1>5, <1>9, <2>4, <2>5, <2>6, <2>7, <2>8, <2>9 DEF DataInv, Universe, Told
<1>. QED BY <1>2, <1>7, <1>8, <1>9

\* Passed steps stay passed when the core's lists keep what they hold.
LEMMA PassedGrows ==
  ASSUME DeploymentInv, pc # 0, UNCHANGED <<network, records, chain, deposits>>,
         \A i \in DOMAIN Steps : i < pc => PassedLists(i)'
  PROVE  \A i \in DOMAIN Steps : i < pc => Passed(i)'
<1>1. \A i \in DOMAIN Steps : i < pc => Passed(i)
  BY DEF DeploymentInv, PlaceInv, PassedInv, Reach
<1>2. Steps' = Steps /\ CoreReady' = CoreReady
  BY DEF Steps, CoreReady, Initialized, Recorded, RecordedInstance
<1>. QED BY <1>1, <1>2 DEF Passed, PassedCode, PassedCore, PassedSeeds, RecordedInstance

\* The lists there are.
LEMMA ListedNames ==
  ASSUME ControlTypes, NEW i \in DOMAIN Steps, Steps[i].op = "list"
  PROVE  Steps[i].name \in {"tokens", "valueTokens", "controllers"}
BY OrderAssumption DEF ControlTypes, Steps, ListsInOrder

\* What comes after the steps that plan something.
LEMMA AfterListing ==
  ASSUME ControlTypes, pc # 0, Advance, network' = network
  PROVE  /\ Op' = "list" => Op = "survey" /\ Name = Name'
         /\ Op' = "update" => Op \in {"survey", "list"} /\ Name = Name'
         /\ Op' = "forget" =>
              /\ Name' \in Replaceable(network)
              /\ Name' = "WSTETHOracle" => Op = "update" /\ Name = "feed"
              /\ Name' # "WSTETHOracle" => \/ Op = "update" /\ Name = "controllers"
                                           \/ Op = "drop" /\ Name \in Controllers(network)
         /\ Op' = "rewrite" => Op = "forget" /\ Name = Name'
         /\ Op' = "drop" => Op = "rewrite" /\ Name = Name'
<1>1. CASE Op' = "none"
  BY <1>1
<1>2. CASE pc + 1 \in DOMAIN Steps /\ Does(Steps, pc + 1, Op', Name')
  <2>1. pc \in Nat /\ (pc + 1) - 1 = pc /\ Does(Steps, pc, Op, Name)
    BY AdvancedOnce
  <2>2. PICK op, name : op = Op' /\ name = Name' /\ Does(Steps, pc + 1, op, name)
    BY <1>2
  <2>3. /\ op = "list" => Does(Steps, pc, "survey", name)
        /\ op = "update" => Does(Steps, pc, "survey", name) \/ Does(Steps, pc, "list", name)
        /\ op = "forget" =>
            /\ name \in Replaceable(network)
            /\ name = "WSTETHOracle" => Does(Steps, pc, "update", "feed")
            /\ name # "WSTETHOracle" =>
                 \/ Does(Steps, pc, "update", "controllers")
                 \/ \E c \in Controllers(network) : Does(Steps, pc, "drop", c)
        /\ op = "rewrite" => Does(Steps, pc, "forget", name)
        /\ op = "drop" => Does(Steps, pc, "rewrite", name)
    BY <1>2, <2>1, <2>2, StepBefore
  <2>4. \A o, n : Does(Steps, pc, o, n) => o = Op /\ n = Name
    BY <2>1 DEF Does
  <2>5. /\ op = "list" => Op = "survey" /\ Name = name
        /\ op = "update" => Op \in {"survey", "list"} /\ Name = name
        /\ op = "forget" =>
             /\ name \in Replaceable(network)
             /\ name = "WSTETHOracle" => Op = "update" /\ Name = "feed"
             /\ name # "WSTETHOracle" => \/ Op = "update" /\ Name = "controllers"
                                         \/ Op = "drop" /\ Name \in Controllers(network)
        /\ op = "rewrite" => Op = "forget" /\ Name = name
        /\ op = "drop" => Op = "rewrite" /\ Name = name
    BY <2>3, <2>4
  <2>. QED BY <2>2, <2>5
<1>. QED BY <1>1, <1>2, AdvancedOnce

\* Whitelisting keeps the invariant: what is listed was surveyed as not listed, at
\* the addresses that are recorded.
LEMMA ListInv ==
  ASSUME DeploymentInv, SendPlannedList
  PROVE  DeploymentInv'
<1>1. ControlTypes /\ DataInv /\ PlaceInv
  BY DEF DeploymentInv
<1> DEFINE effect == core' = Listed /\ UNCHANGED <<chain, facts, deposits>>
<1>2. /\ pc # 0 /\ Op = "list" /\ phase = "send" /\ (Needed \/ failures > 0)
      /\ UNCHANGED <<network, version, records, newRecords, chain, deposits>>
  BY DEF SendPlannedList, Running, Transact, world
<1>3. \/ effect /\ Confirmed
      \/ effect /\ Fault /\ FailedAttempt
      \/ Abort /\ UNCHANGED <<world, faults>>
      \/ Fault /\ FailedAttempt /\ UNCHANGED world
  BY DEF SendPlannedList, Transact
<1>4. Sending /\ (Abort \/ Stays \/ (Advance /\ UNCHANGED plan /\ effect)) /\ (effect \/ UNCHANGED core)
  BY <1>1, <1>2, <1>3, CommandSteps DEF Saved, world
<1>5. effect =>
        /\ DataInv'
        /\ \A what \in {"tokens", "valueTokens", "controllers"} :
             /\ Told(what) \subseteq Told(what)'
             /\ what = Name => Universe(what) \subseteq Told(what)'
  BY <1>2, ListedData
<1>6. UNCHANGED core =>
        /\ DataInv'
        /\ \A what \in {"tokens", "valueTokens", "controllers"} : Told(what) \subseteq Told(what)'
  <2>1. UNCHANGED core => DataInv'
    BY <1>1, <1>2, SameData
  <2>. QED BY <1>2, <2>1 DEF Told
<1>. HIDE DEF effect
<1>7. Name \in {"tokens", "valueTokens", "controllers"}
  BY <1>1, <1>2, ListNames
<1>8. Steps' = Steps /\ \A what : Universe(what)' = Universe(what)
  BY <1>2 DEF Steps, Universe
<1>9. \A what \in {"tokens", "valueTokens", "controllers"} : Told(what) \subseteq Told(what)'
  BY <1>4, <1>5, <1>6
<1>10. \A i \in DOMAIN Steps : i < pc => Passed(i)'
  <2>1. ASSUME NEW i \in DOMAIN Steps, i < pc PROVE PassedLists(i)'
    <3>1. PassedLists(i)
      BY <1>1, <1>2, <2>1 DEF PlaceInv, PassedInv, Passed, Reach
    <3>2. Steps[i].op = "list" => Steps[i].name \in {"tokens", "valueTokens", "controllers"}
      BY <1>1, ListedNames
    <3>3. ASSUME Steps[i].op = "list", NEW what, what = Steps[i].name
          PROVE  Universe(what)' \subseteq Told(what)'
      BY <1>8, <1>9, <3>1, <3>2, <3>3 DEF PassedLists
    <3>. QED BY <1>8, <3>3 DEF PassedLists
  <2>. QED BY <1>2, <2>1, PassedGrows
<1>11. effect => \A i \in DOMAIN Steps : i = pc => Passed(i)'
  <2> SUFFICES ASSUME effect, NEW i \in DOMAIN Steps, i = pc PROVE Passed(i)'
    OBVIOUS
  <2>1. Steps[i].op = "list" /\ Steps[i].name = Name
    BY <1>1, <1>2, AtStep DEF Op, Name
  <2>2. ASSUME NEW what, what = Name
        PROVE  Universe(what)' \subseteq Told(what)'
    BY <1>5, <1>7, <1>8, <2>2
  <2>3. PassedLists(i)'
    BY <1>8, <2>1, <2>2 DEF PassedLists
  <2>4. Steps'[i].op = "list"
    BY <1>8, <2>1
  <2>. QED BY <2>3, <2>4 DEF Passed, PassedCode, PassedCore, PassedSeeds, Does
<1>12. Stays => PlanInv'
  <2> SUFFICES ASSUME Stays PROVE PlanInv'
    OBVIOUS
  <2>1. Op' = Op /\ Name' = Name /\ plan' = plan
    BY DEF Stays, Op, Name
  <2>2. plan.list \subseteq Universe(Name) /\ Universe(Name) \ Told(Name) \subseteq plan.list
    BY <1>1, <1>2 DEF PlaceInv, PlanInv
  <2>3. ASSUME NEW what, what = Name
        PROVE  plan'.list \subseteq Universe(what)' /\ Universe(what)' \ Told(what)' \subseteq plan'.list
    BY <1>7, <1>8, <1>9, <2>1, <2>2, <2>3
  <2>4. Name = "controllers" => /\ plan.update \subseteq Controllers(network)
                                /\ \A c \in plan.update : newRecords[c] # NoRecord
    BY <1>1, <1>2 DEF PlaceInv, PlanInv
  <2>. QED BY <1>2, <2>1, <2>3, <2>4 DEF PlanInv, Replacing
<1>13. Advance /\ UNCHANGED plan => PlanInv'
  <2> SUFFICES ASSUME Advance, UNCHANGED plan PROVE PlanInv'
    OBVIOUS
  <2>1. Op' \notin {"list"} \cup Replacing
    <3>1. Op' \notin {"list", "forget", "rewrite", "drop"}
      BY <1>1, <1>2, AfterListing
    <3>. QED BY <3>1 DEF Replacing
  <2>2. Op' = "update" => Name' = Name
    BY <1>1, <1>2, AfterListing
  <2>3. Name = "controllers" => /\ plan.update \subseteq Controllers(network)
                                /\ \A c \in plan.update : newRecords[c] # NoRecord
    BY <1>1, <1>2 DEF PlaceInv, PlanInv
  <2>. QED BY <1>2, <2>1, <2>2, <2>3 DEF PlanInv, Replacing
<1>14. Op \notin Making \cup {"survey"} \cup Replacing
  BY <1>2 DEF Making, Replacing
<1>15. DataInv'
  BY <1>4, <1>5, <1>6
<1>. QED BY <1>4, <1>10, <1>11, <1>12, <1>13, <1>14, <1>15, CommandInv

\* The address of a new version that is recorded is not zero.
LEMMA NewRecordId ==
  ASSUME ControlTypes, DataInv, NEW n \in Names, newRecords[n] # NoRecord
  PROVE  newRecords[n].id \in Nat \ {0}
<1>1. newRecords[n].id \in DOMAIN chain[n] /\ chain[n] \in Seq(Instances)
  BY DEF DataInv, DataTypes, RecordsInv, SoundRecord
<1>. QED BY <1>1

\* What sending an update does: only the token the oracle is for is delisted.
LEMMA UpdatedData ==
  ASSUME DeploymentInv, pc # 0, Op = "update", UpdateAccepted, core' = Updated,
         UNCHANGED <<network, version, records, newRecords, chain, deposits>>
  PROVE  /\ DataInv' /\ Name \in {"feed", "controllers"}
         /\ \A what \in {"tokens", "valueTokens", "controllers"} :
              Told(what) \subseteq Told(what)' \/ (Name = "feed" /\ what = "tokens")
         /\ Name = "feed" => "WSTETH" \notin core'.listed
         /\ Name = "controllers" =>
              \A c \in plan.update : newRecords[c] # NoRecord => core'.controllers[c] = newRecords[c].id
<1>1. ControlTypes /\ DataInv
  BY DEF DeploymentInv
<1>2. Name \in {"feed", "controllers"}
  BY DEF UpdateAccepted
<1>3. /\ core \in [controllers : [Controllers("local") -> Nat], listed : SUBSET FeedTokens,
                   feeds : [Tokens -> Nat], valueTokens : SUBSET ValueTokens, minDeposit : Nat]
      /\ deposits \in [Pools -> [queued : Nat, settled : Nat]]
  BY <1>1 DEF DataInv, DataTypes
<1>4. QueuedInv'
  BY <1>1 DEF DataInv, QueuedInv, Steps
<1>5. Controllers(network) \subseteq Names /\ Controllers(network) \subseteq Controllers("local")
  BY <1>1, ControllersAreNames
<1>6. CASE Name = "feed"
  <2>1. core' = [core EXCEPT !.listed = @ \ {"WSTETH"}]
    BY <1>6 DEF Updated
  <2>2. /\ core'.listed = core.listed \ {"WSTETH"} /\ core'.valueTokens = core.valueTokens
        /\ core'.controllers = core.controllers /\ core'.feeds = core.feeds
        /\ core' \in [controllers : [Controllers("local") -> Nat], listed : SUBSET FeedTokens,
                      feeds : [Tokens -> Nat], valueTokens : SUBSET ValueTokens, minDeposit : Nat]
    BY <1>3, <2>1
  <2>3. RecordsInv' /\ WiringInv' /\ DataTypes'
    BY <1>1, <1>3, <2>2, SameChain
  <2>4. FeedsInv' /\ ControllerIsRecorded'
    BY <1>1, <2>2 DEF DataInv, FeedsInv, ControllerIsRecorded
  <2>. QED BY <1>4, <1>6, <2>2, <2>3, <2>4 DEF DataInv, Told
<1>7. CASE Name = "controllers"
  <2>1. plan.update \subseteq Controllers(network) /\ \A c \in plan.update : newRecords[c] # NoRecord
    BY <1>7 DEF DeploymentInv, PlaceInv, PlanInv
  <2>2. \A c \in plan.update : newRecords[c].id \in Nat \ {0}
    BY <1>1, <1>5, <2>1, NewRecordId
  <2>3. core' = [core EXCEPT !.controllers =
                   [c \in DOMAIN @ |-> IF c \in plan.update THEN newRecords[c].id ELSE @[c]]]
    BY <1>7 DEF Updated
  <2>4. /\ core'.valueTokens = core.valueTokens /\ core'.listed = core.listed
        /\ core'.feeds = core.feeds
        /\ \A c \in Controllers("local") :
             core'.controllers[c] = IF c \in plan.update THEN newRecords[c].id ELSE core.controllers[c]
        /\ core' \in [controllers : [Controllers("local") -> Nat], listed : SUBSET FeedTokens,
                      feeds : [Tokens -> Nat], valueTokens : SUBSET ValueTokens, minDeposit : Nat]
    BY <1>3, <1>5, <2>1, <2>2, <2>3
  <2>5. RecordsInv' /\ WiringInv' /\ DataTypes'
    BY <1>1, <1>3, <2>4, SameChain
  <2>6. FeedsInv'
    BY <1>1, <2>4 DEF DataInv, FeedsInv
  <2>7. ControllerIsRecorded'
    BY <1>1, <1>5, <2>4 DEF DataInv, ControllerIsRecorded
  <2>8. \A c \in Controllers(network) : core.controllers[c] # 0 => core'.controllers[c] # 0
    BY <1>5, <2>2, <2>4
  <2>. QED BY <1>4, <1>5, <1>7, <2>1, <2>4, <2>5, <2>6, <2>7, <2>8 DEF DataInv, Told
<1>. QED BY <1>2, <1>6, <1>7

\* Telling the core of replacements keeps the invariant: a controller's new
\* address is that of the record that will replace the old.
LEMMA UpdateInv ==
  ASSUME DeploymentInv, SendPlannedUpdate
  PROVE  DeploymentInv'
<1>1. ControlTypes /\ DataInv /\ PlaceInv
  BY DEF DeploymentInv
<1> DEFINE effect == UpdateAccepted /\ core' = Updated /\ UNCHANGED <<chain, facts, deposits>>
<1>2. /\ pc # 0 /\ Op = "update" /\ phase = "send" /\ (Needed \/ failures > 0)
      /\ UNCHANGED <<network, version, records, newRecords, chain, deposits>>
  BY DEF SendPlannedUpdate, Running, Transact, world
<1>3. \/ effect /\ Confirmed
      \/ effect /\ Fault /\ FailedAttempt
      \/ Abort /\ UNCHANGED <<world, faults>>
      \/ Fault /\ FailedAttempt /\ UNCHANGED world
  BY DEF SendPlannedUpdate, Transact
<1>4. Sending /\ (Abort \/ Stays \/ (Advance /\ UNCHANGED plan /\ effect)) /\ (effect \/ UNCHANGED core)
  BY <1>1, <1>2, <1>3, CommandSteps DEF Saved, world
<1>5. effect =>
        /\ DataInv' /\ Name \in {"feed", "controllers"}
        /\ \A what \in {"tokens", "valueTokens", "controllers"} :
             Told(what) \subseteq Told(what)' \/ (Name = "feed" /\ what = "tokens")
        /\ Name = "feed" => "WSTETH" \notin core'.listed
        /\ Name = "controllers" =>
             \A c \in plan.update : newRecords[c] # NoRecord => core'.controllers[c] = newRecords[c].id
  BY <1>2, UpdatedData
<1>6. UNCHANGED core =>
        /\ DataInv'
        /\ \A what \in {"tokens", "valueTokens", "controllers"} : Told(what) \subseteq Told(what)'
  <2>1. UNCHANGED core => DataInv'
    BY <1>1, <1>2, SameData
  <2>. QED BY <1>2, <2>1 DEF Told
<1>. HIDE DEF effect
<1>7. Steps' = Steps /\ \A what : Universe(what)' = Universe(what)
  BY <1>2 DEF Steps, Universe
<1>8. \A what \in {"tokens", "valueTokens", "controllers"} :
        Told(what) \subseteq Told(what)' \/ (Name = "feed" /\ what = "tokens")
  BY <1>4, <1>5, <1>6
<1>9. \A i \in DOMAIN Steps : i < pc => Passed(i)'
  <2>1. ASSUME NEW i \in DOMAIN Steps, i < pc PROVE PassedLists(i)'
    <3>1. PassedLists(i)
      BY <1>1, <1>2, <2>1 DEF PlaceInv, PassedInv, Passed, Reach
    <3>2. Steps[i].op = "list" => Steps[i].name \in {"tokens", "valueTokens", "controllers"}
      BY <1>1, ListedNames
    <3>3. Name = "feed" => ~(Steps[i].op = "list" /\ Steps[i].name = "tokens")
      BY <1>1, <1>2, <2>1, ListNames DEF Does
    <3>4. ASSUME Steps[i].op = "list", NEW what, what = Steps[i].name
          PROVE  Universe(what)' \subseteq Told(what)'
      BY <1>7, <1>8, <3>1, <3>2, <3>3, <3>4 DEF PassedLists
    <3>. QED BY <1>7, <3>4 DEF PassedLists
  <2>. QED BY <1>2, <2>1, PassedGrows
<1>10. \A i \in DOMAIN Steps : i = pc => Passed(i)'
  BY <1>1, <1>2, PassedVacuous
<1>11. Name = "controllers" => /\ plan.update \subseteq Controllers(network)
                               /\ \A c \in plan.update : newRecords[c] # NoRecord
  BY <1>1, <1>2 DEF PlaceInv, PlanInv
<1>12. Stays => PlanInv'
  BY <1>2, <1>11 DEF PlanInv, Stays, Op, Name, Replacing
<1>13. Advance /\ UNCHANGED plan /\ effect => PlanInv'
  <2> SUFFICES ASSUME Advance, UNCHANGED plan, effect PROVE PlanInv'
    OBVIOUS
  <2>1. Op' \notin {"list", "update", "rewrite", "drop"}
    BY <1>1, <1>2, AfterListing
  <2>2. Op' = "forget" =>
          /\ Name' = "WSTETHOracle" => Name = "feed"
          /\ Name' # "WSTETHOracle" => Name = "controllers"
    BY <1>1, <1>2, AfterListing
  <2>3. Name' \in Controllers(network) => Name' # "WSTETHOracle"
    BY <1>1, OracleIsNoController
  <2>. QED BY <1>2, <1>5, <2>1, <2>2, <2>3 DEF PlanInv, Replacing
<1>14. Op \notin Making \cup {"survey"} \cup Replacing
  BY <1>2 DEF Making, Replacing
<1>15. DataInv'
  BY <1>4, <1>5, <1>6
<1>. QED BY <1>4, <1>9, <1>10, <1>12, <1>13, <1>14, <1>15, CommandInv

-----------------------------------------------------------------------------
(* The records                                                             *)

\* When one record is written the data stays sound if the new record is sound,
\* and if a change of address is to a replaceable contract the core has been
\* told of.
LEMMA RecordChanged ==
  ASSUME ControlTypes, DataInv, Name \in Names, NEW r \in RecordType,
         UNCHANGED <<network, version, newRecords, chain, core, deposits>>,
         records' = [records EXCEPT ![Name] = r],
         r # NoRecord => IF OnlyRecorded(Name) THEN r.id = 1 ELSE SoundRecord(Name, r),
         Recorded(Name) /\ r.id # records[Name].id =>
           /\ Name \in Replaceable(network)
           /\ \A t \in core.listed : Aggregator(t) # Name
           /\ Name \in Controllers(network) /\ core.controllers[Name] # 0 =>
                core.controllers[Name] = newRecords[Name].id
  PROVE  DataInv'
<1>1. /\ records \in [Names -> RecordType] /\ Steps' = Steps /\ (\A n : OnlyRecorded(n)' = OnlyRecorded(n))
      /\ RecordType' = RecordType
  BY DEF DataInv, DataTypes, Steps, OnlyRecorded, RecordType
<1>2. /\ records'[Name] = r /\ \A n \in Names : n # Name => records'[n] = records[n]
      /\ records' \in [Names -> RecordType]
  BY <1>1
<1>3. ~Recorded(Name) => records[Name].id = 0
  BY DEF Recorded, NoRecord
<1>4. r.id # 0 => r # NoRecord
  BY DEF NoRecord
<1>5. Recorded(Name) => records[Name].id # 0
  BY RecordedId
<1>6. DataTypes'
  BY <1>1, <1>2 DEF DataInv, DataTypes
<1>7. RecordsInv'
  <2> SUFFICES ASSUME NEW n \in Names
             PROVE  /\ OnlyRecorded(n) =>
                         /\ chain[n] = <<>> /\ newRecords[n] = NoRecord
                         /\ records'[n] # NoRecord => records'[n].id = 1
                    /\ ~OnlyRecorded(n) /\ records'[n] # NoRecord =>
                         /\ records'[n].id \in DOMAIN chain[n]
                         /\ records'[n].abi = chain[n][records'[n].id].impl \/ UpgradedInPlace(n)'
                    /\ newRecords[n] # NoRecord =>
                         /\ SoundRecord(n, newRecords[n])
                         /\ \E i \in DOMAIN Steps : Does(Steps, i, "upgraded", n)
    BY <1>1 DEF RecordsInv, RecordedInstance, SoundRecord, Recorded
  <2>1. CASE n = Name
    BY <1>2, <2>1 DEF DataInv, RecordsInv, SoundRecord
  <2>2. CASE n # Name
    <3>1. records'[n] = records[n]
      BY <1>2, <2>2
    <3>2. UpgradedInPlace(n)' = UpgradedInPlace(n)
      BY <1>1, <3>1 DEF UpgradedInPlace, Initialized, Recorded, RecordedInstance
    <3>. QED BY <3>1, <3>2 DEF DataInv, RecordsInv, Recorded, RecordedInstance
  <2>. QED BY <2>1, <2>2
<1>8. WiringInv'
  <2> SUFFICES ASSUME NEW n \in Names, NEW i \in DOMAIN chain[n], NEW l \in DOMAIN chain[n][i].links
               PROVE  /\ l \in Names /\ l \notin Replaceable(network)
                      /\ records'[l] # NoRecord /\ chain[n][i].links[l] = records'[l].id
    BY DEF WiringInv, SoundLinks, Recorded
  <2>1. l \in Names /\ l \notin Replaceable(network) /\ Recorded(l) /\ chain[n][i].links[l] = records[l].id
    BY DEF DataInv, WiringInv, SoundLinks
  <2>2. CASE l = Name
    BY <1>2, <1>4, <1>5, <2>1, <2>2
  <2>3. CASE l # Name
    BY <1>2, <2>1, <2>3 DEF Recorded
  <2>. QED BY <2>2, <2>3
<1>9. FeedsInv'
  <2> SUFFICES ASSUME NEW t \in core.listed
               PROVE  /\ Aggregator(t) \in Names /\ core.feeds[t] = records'[Aggregator(t)].id
                      /\ core.feeds[t] # 0
    BY DEF FeedsInv
  <2>1. /\ Aggregator(t) \in Names /\ core.feeds[t] = records[Aggregator(t)].id
        /\ core.feeds[t] # 0
    BY DEF DataInv, FeedsInv
  <2>2. CASE Aggregator(t) = Name
    BY <1>2, <1>3, <2>1, <2>2
  <2>3. CASE Aggregator(t) # Name
    BY <1>2, <2>1, <2>3
  <2>. QED BY <2>2, <2>3
<1>10. ControllerIsRecorded'
  <2> SUFFICES ASSUME NEW c \in Controllers(network), core.controllers[c] # 0
               PROVE  core.controllers[c] \in {records'[c].id, newRecords[c].id}
    BY DEF ControllerIsRecorded
  <2>1. core.controllers[c] \in {records[c].id, newRecords[c].id} /\ c \in Names
    BY ControllersAreNames DEF DataInv, ControllerIsRecorded
  <2>2. CASE c = Name
    BY <1>2, <1>3, <2>1, <2>2
  <2>3. CASE c # Name
    BY <1>2, <2>1, <2>3
  <2>. QED BY <2>2, <2>3
<1>11. QueuedInv'
  BY <1>1 DEF DataInv, QueuedInv
<1>. QED BY <1>6, <1>7, <1>8, <1>9, <1>10, <1>11 DEF DataInv

\* Writing the record of a contract that is no proxy undoes no passed step.
LEMMA RecordPassed ==
  ASSUME DeploymentInv, pc # 0, Name \in Names, NEW r,
         UNCHANGED <<network, chain, core, deposits>>,
         records' = [records EXCEPT ![Name] = r],
         Recorded(Name) /\ r.id # records[Name].id => Name # "UFarmCore",
         \A i \in DOMAIN Steps : i < pc /\ Steps[i].op \in {"proxy", "beacon"} => Steps[i].name # Name
  PROVE  \A i \in DOMAIN Steps : i < pc => Passed(i)'
<1> SUFFICES ASSUME NEW i \in DOMAIN Steps, i < pc PROVE Passed(i)'
  OBVIOUS
<1>1. /\ records \in [Names -> RecordType] /\ Steps' = Steps /\ ControlTypes /\ DataInv
      /\ Passed(i)
  BY DEF DeploymentInv, DataInv, DataTypes, Steps, PlaceInv, PassedInv, Reach
<1>2. records'[Name] = r /\ \A n \in Names : n # Name => records'[n] = records[n]
  BY <1>1
<1>3. PassedCode(i)'
  <2>1. ASSUME Steps[i].op \in {"proxy", "beacon"}
        PROVE  records'[Steps[i].name] = records[Steps[i].name]
    <3>1. Steps[i].name # Name
      BY <2>1
    <3>2. Steps[i].name \in Names
      BY <1>1, <2>1, NamesMade DEF Making, Steps, ControlTypes
    <3>. QED BY <1>2, <3>1, <3>2
  <2>2. Steps[i].op \in {"proxy", "beacon"} => records[Steps[i].name].abi = chain[Steps[i].name][records[Steps[i].name].id].impl
    BY <1>1 DEF Passed, PassedCode, RecordedInstance
  <2>. QED BY <1>1, <2>1, <2>2 DEF PassedCode, RecordedInstance
<1>4. PassedCore(i)'
  <2>1. CASE Does(Steps, i, "initialize", "UFarmCore")
    <3>1. CoreReady /\ "UFarmCore" \in Names
      BY <1>1, <2>1, InitializedName DEF Passed, PassedCore, Does
    <3>2. records'["UFarmCore"] # NoRecord /\ records'["UFarmCore"].id = records["UFarmCore"].id
      <4>1. Recorded("UFarmCore") /\ records["UFarmCore"].id # 0
        BY <1>1, <3>1, RecordedId DEF CoreReady, Initialized
      <4>2. r.id # 0 => r # NoRecord
        BY DEF NoRecord
      <4>. QED BY <1>2, <3>1, <4>1, <4>2 DEF Recorded
    <3>3. CoreReady'
      BY <3>1, <3>2 DEF CoreReady, Initialized, Recorded, RecordedInstance
    <3>. QED BY <3>3 DEF PassedCore
  <2>2. CASE ~Does(Steps, i, "initialize", "UFarmCore")
    BY <1>1, <2>2 DEF PassedCore
  <2>. QED BY <2>1, <2>2
<1>. QED BY <1>1, <1>3, <1>4 DEF Passed, PassedLists, PassedSeeds, Universe, Told

\* A step on the disk only keeps the invariant when it leaves a record, or the
\* gap of a replacement.
LEMMA LocalInv ==
  ASSUME DeploymentInv, pc # 0, Advance, UNCHANGED network, ControlTypes', DataInv', PlanInv',
         \A i \in DOMAIN Steps : i < pc => Passed(i)',
         \A i \in DOMAIN Steps : i = pc => Passed(i)',
         \A k \in MadeBefore(Steps, pc) : Recorded(k)' \/ Between(k)',
         \A k : k = Name /\ Op \in Making => Recorded(k)'
  PROVE  DeploymentInv'
<1>1. /\ pc \in DOMAIN Steps /\ pc \in Nat \ {0} /\ DOMAIN Steps = 1..Len(Steps) /\ Len(Steps) \in Nat
      /\ Steps[pc].op = Op /\ Steps[pc].name = Name /\ ControlTypes
  BY AtStep DEF Op, Name, DeploymentInv
<1>2. MadeBefore(Steps, pc + 1)
        = MadeBefore(Steps, pc) \cup (IF Steps[pc].op \in Making THEN {Steps[pc].name} ELSE {})
  BY <1>1, MadeNext
<1>3. \A k \in MadeBefore(Steps, pc + 1) : Recorded(k)' \/ Between(k)'
  BY <1>1, <1>2
<1>4. \A i \in DOMAIN Steps : i < pc + 1 => Passed(i)'
  BY <1>1
<1>5. PlaceInv'
  BY <1>1, <1>3, <1>4, AdvancePassed DEF Advance
<1>. QED BY <1>5 DEF DeploymentInv

\* A record is replaced when it was planned and a new version is recorded.
LEMMA NeededToReplace ==
  ASSUME Op \in Replacing
  PROVE  Needed <=> (Name \in plan.update /\ newRecords[Name] # NoRecord)
BY DEF Replacing, Needed

\* A step that is not needed keeps the invariant: its effect is there already.
LEMMA SkipInv ==
  ASSUME DeploymentInv, Skip
  PROVE  DeploymentInv'
<1>1. ControlTypes /\ DataInv /\ PlaceInv
  BY DEF DeploymentInv
<1>2. /\ pc # 0 /\ ~Needed /\ Advance
      /\ UNCHANGED <<network, version, records, newRecords, chain, core, facts, deposits, plan, faults>>
  BY DEF Skip, world
<1>3. ControlTypes'
  BY <1>1, <1>2, AdvanceTypes DEF Advance, ControlTypes
<1>4. DataInv'
  BY <1>1, <1>2, SameData
<1>5. \A i \in DOMAIN Steps : i < pc => Passed(i)'
  BY <1>2, PassedSame
<1>6. Op \in Making => /\ Recorded(Name)
                       /\ Op \in {"deploy", "upgraded", "proxy", "fund", "pool"}
                       /\ Op = "proxy" => ~Initialized(Name)
  BY <1>2 DEF Needed, Making
<1>7. \A k \in MadeBefore(Steps, pc) : Recorded(k)
  BY <1>1, <1>2 DEF PlaceInv, PassedMade, Reach, Between
<1>8. \A i \in DOMAIN Steps : i = pc => Passed(i)'
  <2> SUFFICES ASSUME NEW i \in DOMAIN Steps, i = pc PROVE Passed(i)'
    OBVIOUS
  <2>1. Steps[i].op = Op /\ Steps[i].name = Name /\ Steps' = Steps
    BY <1>1, <1>2, AtStep DEF Op, Name, Steps
  <2>2. PassedCode(i)
    <3>1. CASE Op = "proxy"
      <4>1. Name \in Names /\ ~OnlyRecorded(Name)
        BY <1>1, <1>2, <3>1, BuilderName, BuilderMakes DEF OnlyRecorded, Does, Making
      <4>2. ~UpgradedInPlace(Name)
        BY <1>1, <1>2, <1>6, <3>1, BuilderMakes DEF UpgradedInPlace, Does, Making
      <4>. QED BY <1>1, <1>6, <2>1, <3>1, <4>1, <4>2 DEF DataInv, RecordsInv, PassedCode, Making
    <3>2. CASE Op = "beacon"
      BY <1>6, <3>2 DEF Making
    <3>3. CASE Op \notin {"proxy", "beacon"}
      BY <2>1, <3>3 DEF PassedCode
    <3>. QED BY <3>1, <3>2, <3>3
  <2>3. PassedCore(i)
    BY <1>2, <2>1 DEF PassedCore, Does, Needed, CoreReady
  <2>4. PassedLists(i)
    BY <1>1, <1>2, <2>1 DEF PassedLists, Needed, PlaceInv, PlanInv
  <2>5. PassedSeeds(i)
    BY <1>2, <2>1 DEF PassedSeeds, Needed
  <2>6. CoreReady' = CoreReady
    BY <1>2 DEF CoreReady, Initialized, Recorded, RecordedInstance
  <2>. QED BY <1>2, <2>1, <2>2, <2>3, <2>4, <2>5, <2>6
       DEF Passed, PassedCode, PassedCore, PassedLists, PassedSeeds, RecordedInstance, Universe, Told
<1>9. PlanInv'
  <2>1. CASE Op \notin {"survey", "list", "update"} \cup Replacing
    BY <1>1, <1>2, <2>1, PlainAdvance
  <2>2. Op # "survey"
    BY <1>2 DEF Needed
  <2>3. CASE Op = "list"
    <3>1. Op' \notin {"list", "forget", "rewrite", "drop"}
      BY <1>1, <1>2, <2>3, AfterListing
    <3>2. Op' = "update" => Name' = Name
      BY <1>1, <1>2, AfterListing
    <3>3. Name = "controllers" => /\ plan.update \subseteq Controllers(network)
                                  /\ \A c \in plan.update : newRecords[c] # NoRecord
      BY <1>1, <2>3 DEF PlaceInv, PlanInv
    <3>. QED BY <1>2, <3>1, <3>2, <3>3 DEF PlanInv, Replacing
  <2>4. CASE Op = "update"
    <3>1. Op' \notin {"list", "update", "rewrite", "drop"}
      BY <1>1, <1>2, <2>4, AfterListing
    <3>2. Op' = "forget" => Name \in {"feed", "controllers"}
      BY <1>1, <1>2, <2>4, AfterListing
    <3>3. Name \in {"feed", "controllers"} => plan.update = {}
      BY <1>2, <2>4 DEF Needed
    <3>. QED BY <1>2, <3>1, <3>2, <3>3 DEF PlanInv, Replacing
  <2>5. CASE Op \in Replacing
    <3>1. /\ Op' \notin {"list", "update"}
          /\ Op' = "forget" => Name' # "WSTETHOracle" /\ Name \in Controllers(network)
          /\ Op' \in {"rewrite", "drop"} => Name' = Name
      BY <1>1, <1>2, <2>5, AfterListing DEF Replacing
    <3>2. ~(Name \in plan.update /\ newRecords[Name] # NoRecord)
      BY <1>2, <2>5, NeededToReplace
    <3>3. Op' \in {"rewrite", "drop"} => ~Needed'
      BY <1>2, <3>1, <3>2 DEF Needed
    <3>4. /\ Name \in Controllers(network) =>
               \A c \in plan.update \cap Controllers(network) :
                 newRecords[c] # NoRecord => core.controllers[c] = newRecords[c].id
          /\ Name = "WSTETHOracle" /\ Name \in plan.update => "WSTETH" \notin core.listed
      BY <1>1, <2>5 DEF PlaceInv, PlanInv
    <3>. QED BY <1>2, <3>1, <3>3, <3>4 DEF PlanInv, Replacing
  <2>. QED BY <2>1, <2>2, <2>3, <2>4, <2>5
<1>10. \A k : k = Name /\ Op \in Making => Recorded(k)'
  BY <1>2, <1>6 DEF Recorded
<1>11. \A k \in MadeBefore(Steps, pc) : Recorded(k)'
  BY <1>2, <1>7 DEF Recorded
<1>. QED BY <1>2, <1>3, <1>4, <1>5, <1>8, <1>9, <1>10, <1>11, LocalInv

\* The end of a run keeps the invariant, at whichever step.
LEMMA AbortInv ==
  ASSUME DeploymentInv, pc # 0, Abort, faults' \in 0..MaxFaults[network],
         UNCHANGED <<network, version, records, newRecords, world>>
  PROVE  DeploymentInv'
<1>1. ControlTypes' /\ PlaceInv'
  BY EndTypes, EndPlaces DEF DeploymentInv
<1>2. DataInv'
  BY SameData DEF DeploymentInv, world
<1>. QED BY <1>1, <1>2 DEF DeploymentInv

\* Reading the records keeps the invariant.
LEMMA ReadInv ==
  ASSUME DeploymentInv, ReadRecords
  PROVE  DeploymentInv'
<1>1. ControlTypes /\ DataInv /\ PlaceInv
  BY DEF DeploymentInv
<1>2. /\ pc # 0 /\ Op = "read" /\ (Abort \/ (Advance /\ UNCHANGED plan))
      /\ UNCHANGED <<network, version, records, newRecords, chain, core, facts, deposits, faults>>
  BY DEF ReadRecords, Running, world
<1>3. faults' \in 0..MaxFaults[network]
  BY <1>1, <1>2 DEF ControlTypes
<1>4. CASE Abort
  BY <1>2, <1>3, <1>4, AbortInv DEF world
<1>5. CASE Advance /\ UNCHANGED plan
  <2>1. ControlTypes'
    BY <1>1, <1>2, <1>3, <1>5, AdvanceTypes DEF Advance, ControlTypes
  <2>2. DataInv' /\ (\A i \in DOMAIN Steps : i < pc => Passed(i)')
        /\ (\A i \in DOMAIN Steps : i = pc => Passed(i)')
    BY <1>1, <1>2, SameData, PassedSame, PassedVacuous
  <2>3. PlanInv'
    BY <1>1, <1>2, <1>5, PlainAdvance DEF Replacing
  <2>4. \A k \in MadeBefore(Steps, pc) : Recorded(k)'
    BY <1>1, <1>2, MadeByNow DEF Recorded
  <2>. QED BY <1>2, <1>5, <2>1, <2>2, <2>3, <2>4, LocalInv DEF Making
<1>. QED BY <1>2, <1>4, <1>5

\* A run may be killed at any step, also between a transaction and its record.
LEMMA CrashInv ==
  ASSUME DeploymentInv, Crash
  PROVE  DeploymentInv'
<1>1. faults' \in 0..MaxFaults[network]
  BY Faults DEF Crash, DeploymentInv
<1>. QED BY <1>1, AbortInv DEF Crash

\* What a survey finds is what the core was not told, and what is recorded twice.
LEMMA PlanTypes ==
  ASSUME ControlTypes, DataInv, pc # 0, Op = "survey"
  PROVE  /\ Name \in {"feed", "tokens", "valueTokens", "controllers"}
         /\ PlanFor(Name).list \subseteq Plannable /\ PlanFor(Name).update \subseteq Plannable
         /\ Name # "feed" => PlanFor(Name).list = Universe(Name) \ Told(Name)
         /\ Name = "controllers" => /\ PlanFor(Name).update \subseteq Controllers(network)
                                    /\ \A c \in PlanFor(Name).update : newRecords[c] # NoRecord
<1>1. Name \in {"feed", "tokens", "valueTokens", "controllers"}
  <2>1. ListsInOrder(network, Steps, pc) /\ Steps[pc].op = Op /\ Steps[pc].name = Name
    BY AtStep, OrderAssumption DEF ControlTypes, Steps, Op, Name
  <2>. QED BY <2>1 DEF ListsInOrder
<1>2. Controllers(network) \subseteq Controllers("local")
  BY ControllersAreNames
<1>3. CASE Name = "feed"
  BY <1>3 DEF PlanFor, FeedPlan, Plannable
<1>4. CASE Name = "tokens"
  BY <1>4 DEF PlanFor, TokenPlan, Plannable, Universe, Told, FeedTokens
<1>5. CASE Name = "valueTokens"
  BY <1>5 DEF PlanFor, ValueTokenPlan, Plannable, Universe, Told, ValueTokens
<1>6. CASE Name = "controllers"
  BY <1>2, <1>6 DEF PlanFor, ControllerPlan, Plannable, Universe, Told
<1>. QED BY <1>1, <1>3, <1>4, <1>5, <1>6

\* The surveys keep the invariant.
LEMMA MakePlanInv ==
  ASSUME DeploymentInv, MakePlan
  PROVE  DeploymentInv'
<1>1. ControlTypes /\ DataInv /\ PlaceInv
  BY DEF DeploymentInv
<1>2. /\ pc # 0 /\ Op = "survey" /\ Advance
      /\ plan' = [plan EXCEPT !.list = PlanFor(Name).list, !.update = PlanFor(Name).update]
      /\ UNCHANGED <<network, version, records, newRecords, chain, core, facts, deposits, faults>>
  BY DEF MakePlan, Running, world
<1>3. /\ Name \in {"feed", "tokens", "valueTokens", "controllers"}
      /\ PlanFor(Name).list \subseteq Plannable /\ PlanFor(Name).update \subseteq Plannable
      /\ Name # "feed" => PlanFor(Name).list = Universe(Name) \ Told(Name)
      /\ Name = "controllers" => /\ PlanFor(Name).update \subseteq Controllers(network)
                                 /\ \A c \in PlanFor(Name).update : newRecords[c] # NoRecord
  BY <1>1, <1>2, PlanTypes
<1>4. /\ plan' \in [list : SUBSET Plannable, update : SUBSET Plannable, old : RecordType]
      /\ plan'.list = PlanFor(Name).list /\ plan'.update = PlanFor(Name).update
  <2>1. plan \in [list : SUBSET Plannable, update : SUBSET Plannable, old : RecordType]
    BY <1>1 DEF ControlTypes
  <2>. QED BY <1>2, <1>3, <2>1
<1>5. ControlTypes'
  BY <1>1, <1>2, <1>4, AdvanceTypes DEF Advance, ControlTypes
<1>6. DataInv' /\ (\A i \in DOMAIN Steps : i < pc => Passed(i)')
      /\ (\A i \in DOMAIN Steps : i = pc => Passed(i)')
  BY <1>1, <1>2, SameData, PassedSame, PassedVacuous
<1>7. PlanInv'
  <2>1. Op' \notin {"forget", "rewrite", "drop"} /\ (Op' \in {"list", "update"} => Name' = Name)
    BY <1>1, <1>2, AfterListing
  <2>2. Op' = "list" => Name' # "feed"
    <3>1. Op' = "list" => pc + 1 \in DOMAIN Steps /\ Does(Steps, pc + 1, Op', Name')
      BY <1>1, <1>2, AdvancedOnce
    <3>2. \A i \in DOMAIN Steps : Steps[i].op = "list" => Steps[i].name # "feed"
      BY <1>1, ListedNames
    <3>. QED BY <3>1, <3>2 DEF Does
  <2>3. \A what : Universe(what)' = Universe(what) /\ Told(what)' = Told(what)
    BY <1>2 DEF Universe, Told
  <2>4. Op' = "list" => Universe(Name)' = Universe(Name) /\ Told(Name)' = Told(Name)
    BY <2>1, <2>3
  <2>5. Op' = "list" => /\ plan'.list \subseteq Universe(Name)'
                        /\ Universe(Name)' \ Told(Name)' \subseteq plan'.list
    BY <1>3, <1>4, <2>1, <2>2, <2>4
  <2>. QED BY <1>2, <1>3, <1>4, <2>1, <2>5 DEF PlanInv, Replacing
<1>8. \A k \in MadeBefore(Steps, pc) : Recorded(k)'
  BY <1>1, <1>2, MadeByNow DEF Recorded
<1>. QED BY <1>2, <1>5, <1>6, <1>7, <1>8, LocalInv DEF Making

\* Recording a contract of the network keeps the invariant.
LEMMA ExternalInv ==
  ASSUME DeploymentInv, RecordExternal
  PROVE  DeploymentInv'
<1>1. ControlTypes /\ DataInv /\ PlaceInv
  BY DEF DeploymentInv
<1> DEFINE r == [id |-> 1, abi |-> version]
<1>2. /\ pc # 0 /\ Op = "external" /\ Advance
      /\ records' = [records EXCEPT ![Name] = r]
      /\ UNCHANGED <<network, version, newRecords, chain, core, facts, deposits, plan, faults>>
  BY DEF RecordExternal, Running, world
<1>3. Name \in Names /\ OnlyRecorded(Name)
  BY <1>1, <1>2, AtStep, BuilderName DEF Making, OnlyRecorded, Does, Op, Name
<1>4. r \in RecordType /\ r.id = 1 /\ r # NoRecord
  BY <1>1 DEF RecordType, NoRecord, ControlTypes
<1>. HIDE DEF r
<1>5. Recorded(Name) => records[Name].id = 1
  BY <1>1, <1>3 DEF DataInv, RecordsInv
<1>6. DataInv'
  BY <1>1, <1>2, <1>3, <1>4, <1>5, RecordChanged
<1>7. \A i \in DOMAIN Steps : i < pc => Passed(i)'
  <2>1. \A i \in DOMAIN Steps : i < pc /\ Steps[i].op \in {"proxy", "beacon"} => Steps[i].name # Name
    BY <1>1, <1>2, BuilderMakes DEF Making
  <2>. QED BY <1>2, <1>3, <1>4, <1>5, <2>1, RecordPassed
<1>8. ControlTypes'
  BY <1>1, <1>2, AdvanceTypes DEF Advance, ControlTypes
<1>9. PlanInv'
  BY <1>1, <1>2, PlainAdvance DEF Replacing
<1>10. \A i \in DOMAIN Steps : i = pc => Passed(i)'
  BY <1>1, <1>2, PassedVacuous
<1>11. records'[Name] # NoRecord /\ \A n \in Names : Recorded(n) => records'[n] # NoRecord
  <2>1. records \in [Names -> RecordType]
    BY <1>1 DEF DataInv, DataTypes
  <2>. QED BY <1>2, <1>3, <1>4, <2>1 DEF Recorded
<1>12. \A k \in MadeBefore(Steps, pc) : Recorded(k)'
  <2>1. MadeBefore(Steps, pc) \subseteq Names
    BY <1>1, <1>2, AtStep, MadeAreNames DEF ControlTypes, Steps
  <2>. QED BY <1>2, <1>11, <2>1, MadeByNow DEF Recorded
<1>13. \A k : k = Name /\ Op \in Making => Recorded(k)'
  BY <1>11 DEF Recorded
<1>. QED BY <1>2, <1>6, <1>7, <1>8, <1>9, <1>10, <1>12, <1>13, LocalInv

\* What a contract that is made is recorded as, and what follows.
LEMMA SavedRecord ==
  ASSUME DeploymentInv, pc # 0, phase = "save", NEW r \in RecordType, r # NoRecord,
         records' = [records EXCEPT ![Name] = r], SoundRecord(Name, r),
         Recorded(Name) => r.id = records[Name].id,
         Advance, UNCHANGED <<network, version, newRecords, chain, core, facts, deposits, plan, faults>>
  PROVE  DeploymentInv'
<1>1. ControlTypes /\ DataInv /\ PlaceInv
  BY DEF DeploymentInv
<1>2. Op \in Saved /\ Name \in Names /\ ~OnlyRecorded(Name) /\ Op \in Making
  <2>1. Op \in Saved
    BY <1>1 DEF ControlTypes
  <2>. QED BY <1>1, <2>1, BuilderName, BuilderMakes DEF OnlyRecorded, Does, Saved, Making
<1>3. DataInv'
  BY <1>1, <1>2, RecordChanged
<1>4. \A i \in DOMAIN Steps : i < pc => Passed(i)'
  <2>1. \A i \in DOMAIN Steps : i < pc /\ Steps[i].op \in {"proxy", "beacon"} => Steps[i].name # Name
    BY <1>1, <1>2, BuilderMakes, AtStep DEF Making
  <2>. QED BY <1>2, <2>1, RecordPassed
<1>5. ControlTypes'
  BY <1>1, AdvanceTypes DEF Advance, ControlTypes
<1>6. PlanInv'
  BY <1>1, <1>2, PlainAdvance DEF Replacing, Saved
<1>7. records \in [Names -> RecordType] /\ Steps' = Steps
  BY <1>1 DEF DataInv, DataTypes, Steps
<1>8. records'[Name] = r /\ \A n \in Names : Recorded(n) => records'[n] # NoRecord
  BY <1>2, <1>7 DEF Recorded
<1>9. \A i \in DOMAIN Steps : i = pc => Passed(i)'
  <2> SUFFICES ASSUME NEW i \in DOMAIN Steps, i = pc PROVE Passed(i)'
    OBVIOUS
  <2>1. Steps[i].op = Op /\ Steps[i].name = Name
    BY <1>1, AtStep DEF Op, Name
  <2>2. records'[Name].abi = chain[Name][records'[Name].id].impl
    BY <1>8 DEF SoundRecord
  <2>3. Op \notin {"initialize", "list", "answer"}
    BY <1>2 DEF Saved
  <2>. QED BY <1>7, <2>1, <2>2, <2>3
       DEF Passed, PassedCode, PassedCore, PassedLists, PassedSeeds, RecordedInstance, Does
<1>10. \A k \in MadeBefore(Steps, pc) : Recorded(k)'
  <2>1. MadeBefore(Steps, pc) \subseteq Names
    BY <1>1, AtStep, MadeAreNames DEF ControlTypes, Steps
  <2>2. Op # "rewrite"
    BY <1>2 DEF Saved
  <2>. QED BY <1>8, <2>1, <2>2, MadeByNow DEF Recorded
<1>11. \A k : k = Name /\ Op \in Making => Recorded(k)'
  BY <1>8 DEF Recorded
<1>. QED BY <1>3, <1>4, <1>5, <1>6, <1>9, <1>10, <1>11, LocalInv

\* A replacement is recorded with _NEW.
LEMMA SavedNewRecord ==
  ASSUME DeploymentInv, pc # 0, phase = "save", NEW r \in RecordType,
         Op = "upgraded", Recorded(Name),
         newRecords' = [newRecords EXCEPT ![Name] = r], SoundRecord(Name, r),
         Advance, UNCHANGED <<network, version, records, chain, core, facts, deposits, plan, faults>>
  PROVE  DeploymentInv'
<1>1. ControlTypes /\ DataInv /\ PlaceInv
  BY DEF DeploymentInv
<1>2. Name \in Names /\ ~OnlyRecorded(Name) /\ Op \in Making
  BY <1>1, BuilderName, BuilderMakes DEF OnlyRecorded, Does, Making
<1>3. newRecords[Name] = NoRecord
  BY <1>1, <1>2 DEF PlaceInv, DecidedInv, Needed
<1>4. newRecords \in [Names -> RecordType] /\ Steps' = Steps /\ RecordType' = RecordType
      /\ (\A n : OnlyRecorded(n)' = OnlyRecorded(n)) /\ (\A n : Recorded(n)' = Recorded(n))
  BY <1>1 DEF DataInv, DataTypes, Steps, RecordType, OnlyRecorded, Recorded
<1>5. /\ newRecords'[Name] = r /\ \A n \in Names : n # Name => newRecords'[n] = newRecords[n]
      /\ newRecords' \in [Names -> RecordType]
  BY <1>2, <1>4
<1>6. DataInv'
  <2>1. DataTypes'
    BY <1>1, <1>4, <1>5 DEF DataInv, DataTypes
  <2>2. RecordsInv'
    <3> SUFFICES ASSUME NEW n \in Names
               PROVE  /\ OnlyRecorded(n) =>
                           /\ chain[n] = <<>> /\ newRecords'[n] = NoRecord
                           /\ Recorded(n) => records[n].id = 1
                      /\ ~OnlyRecorded(n) /\ Recorded(n) =>
                           /\ records[n].id \in DOMAIN chain[n]
                           /\ records[n].abi = chain[n][records[n].id].impl \/ UpgradedInPlace(n)'
                      /\ newRecords'[n] # NoRecord =>
                           /\ SoundRecord(n, newRecords'[n])
                           /\ \E i \in DOMAIN Steps : Does(Steps, i, "upgraded", n)
      BY <1>4 DEF RecordsInv, RecordedInstance, SoundRecord
    <3>1. UpgradedInPlace(n)' = UpgradedInPlace(n)
      BY <1>4 DEF UpgradedInPlace, Initialized, Recorded, RecordedInstance
    <3>2. CASE n = Name
      <4>1. pc \in DOMAIN Steps /\ Does(Steps, pc, "upgraded", Name)
        BY <1>1, AtStep DEF Does, Op, Name
      <4>. QED BY <1>1, <1>2, <1>5, <3>1, <3>2, <4>1 DEF DataInv, RecordsInv, RecordedInstance
    <3>3. CASE n # Name
      BY <1>1, <1>5, <3>1, <3>3 DEF DataInv, RecordsInv, RecordedInstance
    <3>. QED BY <3>2, <3>3
  <2>3. WiringInv' /\ FeedsInv' /\ QueuedInv'
    BY <1>1, <1>4 DEF DataInv, WiringInv, SoundLinks, FeedsInv, QueuedInv
  <2>4. ControllerIsRecorded'
    <3> SUFFICES ASSUME NEW c \in Controllers(network), core.controllers[c] # 0
                 PROVE  core.controllers[c] \in {records[c].id, newRecords'[c].id}
      BY DEF ControllerIsRecorded
    <3>1. core.controllers[c] \in {records[c].id, newRecords[c].id} /\ c \in Names
      BY <1>1, ControllersAreNames DEF DataInv, ControllerIsRecorded
    <3>. QED BY <1>3, <1>5, <3>1 DEF NoRecord
  <2>. QED BY <2>1, <2>2, <2>3, <2>4 DEF DataInv
<1>7. ControlTypes'
  BY <1>1, AdvanceTypes DEF Advance, ControlTypes
<1>8. PlanInv'
  BY <1>1, PlainAdvance DEF Replacing
<1>9. (\A i \in DOMAIN Steps : i < pc => Passed(i)') /\ (\A i \in DOMAIN Steps : i = pc => Passed(i)')
  BY <1>1, PassedSame, PassedVacuous
<1>10. \A k \in MadeBefore(Steps, pc) : Recorded(k)'
  BY <1>4, MadeByNow
<1>11. \A k : k = Name /\ Op \in Making => Recorded(k)'
  BY <1>4
<1>. QED BY <1>6, <1>7, <1>8, <1>9, <1>10, <1>11, LocalInv

\* Saving the record of what was made keeps the invariant.
LEMMA SaveInv ==
  ASSUME DeploymentInv, Save
  PROVE  DeploymentInv'
<1>1. ControlTypes /\ DataInv /\ PlaceInv
  BY DEF DeploymentInv
<1> DEFINE latest   == [id |-> Len(chain[Name]), abi |-> version]
           upgraded == Op \in {"proxy", "beacon"} /\ Recorded(Name)
           newAbi   == [records[Name] EXCEPT !.abi = version]
<1>2. /\ pc # 0 /\ phase = "save" /\ Advance
      /\ UNCHANGED <<network, version, chain, core, facts, deposits, plan, faults>>
      /\ IF Op = "upgraded" /\ Recorded(Name)
           THEN newRecords' = [newRecords EXCEPT ![Name] = latest] /\ UNCHANGED records
           ELSE /\ records' = [records EXCEPT ![Name] = IF upgraded THEN newAbi ELSE latest]
                /\ UNCHANGED newRecords
  BY DEF Save, world
<1>3. Op \in Saved /\ Name \in Names
  BY <1>1, <1>2, BuilderName DEF ControlTypes, Saved, Making
<1>4. /\ Needed /\ chain[Name] # <<>>
      /\ IF upgraded THEN RecordedInstance(Name).impl = version
         ELSE chain[Name][Len(chain[Name])].impl = version
  BY <1>1, <1>2, <1>3 DEF PlaceInv, DecidedInv, Saved, Making
<1>5. ~upgraded => latest \in RecordType /\ latest # NoRecord /\ SoundRecord(Name, latest)
  <2>1. chain[Name] \in Seq(Instances) /\ version \in Nat
    BY <1>1, <1>3 DEF DataInv, DataTypes, ControlTypes
  <2>2. Len(chain[Name]) \in Nat \ {0} /\ Len(chain[Name]) \in DOMAIN chain[Name]
    BY <1>4, <2>1
  <2>. QED BY <1>4, <2>1, <2>2 DEF RecordType, NoRecord, SoundRecord
<1>6. upgraded => newAbi \in RecordType /\ newAbi # NoRecord /\ SoundRecord(Name, newAbi)
                  /\ newAbi.id = records[Name].id
  <2>1. records[Name] \in RecordType /\ version \in Nat \ {0}
    BY <1>1, <1>3 DEF DataInv, DataTypes, ControlTypes
  <2>2. newAbi = [id |-> records[Name].id, abi |-> version] /\ newAbi \in RecordType
    BY <2>1 DEF RecordType
  <2>3. upgraded => records[Name].id \in DOMAIN chain[Name]
    BY <1>1, <1>2, <1>3, BuilderRecord
  <2>. QED BY <1>4, <2>1, <2>2, <2>3 DEF SoundRecord, RecordedInstance, NoRecord
<1>. HIDE DEF latest, newAbi
<1>7. CASE Op = "upgraded" /\ Recorded(Name)
  BY <1>2, <1>5, <1>7, SavedNewRecord
<1>8. CASE ~(Op = "upgraded" /\ Recorded(Name)) /\ upgraded
  BY <1>2, <1>6, <1>8, SavedRecord
<1>9. CASE ~(Op = "upgraded" /\ Recorded(Name)) /\ ~upgraded
  <2>1. ~Recorded(Name)
    BY <1>3, <1>4, <1>9 DEF Needed, Saved
  <2>. QED BY <1>2, <1>5, <1>9, <2>1, SavedRecord
<1>. QED BY <1>7, <1>8, <1>9

-----------------------------------------------------------------------------
(* The replacement of a record                                             *)

\* The three steps follow one another; the contract they are about was made
\* before, and is one that may be replaced.
LEMMA ReplacingSteps ==
  ASSUME ControlTypes, pc # 0, Op \in Replacing
  PROVE  /\ step.args = (IF Op = "forget" THEN 3 ELSE IF Op = "rewrite" THEN 2 ELSE 1)
         /\ Op = "forget" => /\ pc + 1 \in DOMAIN Steps /\ Does(Steps, pc + 1, "rewrite", Name)
                             /\ pc + 2 \in DOMAIN Steps /\ Does(Steps, pc + 2, "drop", Name)
         /\ Op = "rewrite" => pc + 1 \in DOMAIN Steps /\ Does(Steps, pc + 1, "drop", Name)
         /\ Name \in Replaceable(network)
         /\ \E j \in DOMAIN Steps : /\ j < pc
                                    /\ Does(Steps, j, "deploy", Name) \/ Does(Steps, j, "upgraded", Name)
<1>1. /\ pc \in DOMAIN Steps /\ pc \in Nat /\ Steps[pc].op = Op /\ Steps[pc].name = Name
      /\ Steps[pc].args = step.args
      /\ DOMAIN Steps = 1..Len(Steps) /\ Len(Steps) \in Nat
  BY AtStep DEF Op, Name
<1>2. \A i \in DOMAIN Steps : ReplacesInOrder(network, Steps, i)
  BY OrderAssumption DEF ControlTypes, Steps
<1>3. ASSUME NEW i \in DOMAIN Steps, Steps[i].op = "forget"
      PROVE  /\ Steps[i].args = 3 /\ Steps[i].name \in Replaceable(network)
             /\ Does(Steps, i + 1, "rewrite", Steps[i].name) /\ Does(Steps, i + 2, "drop", Steps[i].name)
             /\ \E j \in DOMAIN Steps : /\ j < i
                                        /\ \/ Does(Steps, j, "deploy", Steps[i].name)
                                           \/ Does(Steps, j, "upgraded", Steps[i].name)
  <2>1. i \in Nat /\ \A j \in 1..(i - 1) : j \in DOMAIN Steps /\ j < i
    BY <1>1
  <2>. QED BY <1>2, <1>3, <2>1 DEF ReplacesInOrder
<1>4. ASSUME NEW i \in DOMAIN Steps, Steps[i].op = "rewrite"
      PROVE  /\ Steps[i].args = 2 /\ i - 1 \in DOMAIN Steps
             /\ Steps[i - 1].op = "forget" /\ Steps[i - 1].name = Steps[i].name
  BY <1>2, <1>4 DEF ReplacesInOrder, Does
<1>5. ASSUME NEW i \in DOMAIN Steps, Steps[i].op = "drop"
      PROVE  /\ Steps[i].args = 1 /\ i - 1 \in DOMAIN Steps
             /\ Steps[i - 1].op = "rewrite" /\ Steps[i - 1].name = Steps[i].name
  BY <1>2, <1>5 DEF ReplacesInOrder, Does
<1>6. CASE Op = "forget"
  <2>1. /\ Steps[pc].args = 3 /\ Steps[pc].name \in Replaceable(network)
        /\ Does(Steps, pc + 1, "rewrite", Name) /\ Does(Steps, pc + 2, "drop", Name)
        /\ \E j \in DOMAIN Steps : /\ j < pc
                                   /\ Does(Steps, j, "deploy", Name) \/ Does(Steps, j, "upgraded", Name)
    BY <1>1, <1>3, <1>6
  <2>. QED BY <1>1, <1>6, <2>1 DEF Does
<1>7. CASE Op = "rewrite"
  <2>1. /\ Steps[pc].args = 2 /\ pc - 1 \in DOMAIN Steps
        /\ Steps[pc - 1].op = "forget" /\ Steps[pc - 1].name = Name
    BY <1>1, <1>4, <1>7
  <2>2. /\ Name \in Replaceable(network) /\ Does(Steps, (pc - 1) + 2, "drop", Name)
        /\ \E j \in DOMAIN Steps : /\ j < pc - 1
                                   /\ Does(Steps, j, "deploy", Name) \/ Does(Steps, j, "upgraded", Name)
    BY <1>3, <2>1
  <2>3. (pc - 1) + 2 = pc + 1 /\ \A j \in DOMAIN Steps : j < pc - 1 => j < pc
    BY <1>1
  <2>. QED BY <1>1, <1>7, <2>1, <2>2, <2>3 DEF Does
<1>8. CASE Op = "drop"
  <2>1. /\ Steps[pc].args = 1 /\ pc - 1 \in DOMAIN Steps
        /\ Steps[pc - 1].op = "rewrite" /\ Steps[pc - 1].name = Name
    BY <1>1, <1>5, <1>8
  <2>2. (pc - 1) - 1 \in DOMAIN Steps /\ Steps[(pc - 1) - 1].op = "forget" /\ Steps[(pc - 1) - 1].name = Name
    BY <1>4, <2>1
  <2>3. /\ Name \in Replaceable(network)
        /\ \E j \in DOMAIN Steps : /\ j < (pc - 1) - 1
                                   /\ Does(Steps, j, "deploy", Name) \/ Does(Steps, j, "upgraded", Name)
    BY <1>3, <2>2
  <2>4. \A j \in DOMAIN Steps : j < (pc - 1) - 1 => j < pc
    BY <1>1
  <2>. QED BY <1>1, <1>8, <2>1, <2>3, <2>4
<1>. QED BY <1>6, <1>7, <1>8 DEF Replacing

\* What is known of the records when one is replaced.
LEMMA ReplacedName ==
  ASSUME DeploymentInv, pc # 0, Op \in Replacing, Needed
  PROVE  /\ Name \in Names /\ Name \in MadeBefore(Steps, pc) /\ ~OnlyRecorded(Name)
         /\ Name \in plan.update /\ newRecords[Name] # NoRecord /\ SoundRecord(Name, newRecords[Name])
         /\ \A i \in DOMAIN Steps : Steps[i].op \in {"proxy", "beacon"} => Steps[i].name # Name
         /\ \A k \in MadeBefore(Steps, pc) : k # Name => Recorded(k)
         /\ Op # "rewrite" => Recorded(Name)
         /\ Recorded(Name) => SoundRecord(Name, records[Name])
         /\ \A t \in core.listed : Aggregator(t) # Name
         /\ Name \in Controllers(network) => core.controllers[Name] = newRecords[Name].id
         /\ Name \in Replaceable(network) /\ Name # "UFarmCore"
<1>1. ControlTypes /\ DataInv /\ PlaceInv
  BY DEF DeploymentInv
<1>2. PICK j \in DOMAIN Steps : /\ j < pc
                                /\ Does(Steps, j, "deploy", Name) \/ Does(Steps, j, "upgraded", Name)
  BY <1>1, ReplacingSteps
<1>3. Steps[j].name = Name /\ Steps[j].op \in {"deploy", "upgraded"} /\ Steps[j].op \in Making
  BY <1>2 DEF Does, Making
<1>4. Name \in Names
  BY <1>1, <1>3, NamesMade DEF ControlTypes, Steps
<1>5. Name \in MadeBefore(Steps, pc)
  <2>1. j \in 1..(pc - 1)
    BY <1>1, <1>2, AtStep
  <2>. QED BY <1>3, <2>1 DEF MadeBefore
<1>6. \A i \in DOMAIN Steps : Steps[i].op \in {"proxy", "beacon", "external"} => Steps[i].name # Name
  BY <1>1, <1>3, MadeOnce DEF Making
<1>7. ~OnlyRecorded(Name) /\ ~UpgradedInPlace(Name)
  BY <1>6 DEF OnlyRecorded, UpgradedInPlace, Does
<1>8. Name \in plan.update /\ newRecords[Name] # NoRecord
  BY NeededToReplace
<1>9. SoundRecord(Name, newRecords[Name]) /\ (Recorded(Name) => SoundRecord(Name, records[Name]))
  BY <1>1, <1>4, <1>7, <1>8 DEF DataInv, RecordsInv, SoundRecord, RecordedInstance
<1>10. /\ \A k \in MadeBefore(Steps, pc) : k # Name => Recorded(k)
       /\ Op # "rewrite" => Recorded(Name)
  BY <1>1, <1>5 DEF PlaceInv, PassedMade, Reach, Between
<1>11. Name \in Replaceable(network)
  BY <1>1, ReplacingSteps
<1>12. Name \in Controllers(network) \/ Name = "WSTETHOracle"
  BY <1>11 DEF Replaceable
<1>13. Name \in Controllers(network) => core.controllers[Name] = newRecords[Name].id
  BY <1>1, <1>8 DEF PlaceInv, PlanInv
<1>14. Name # "UFarmCore"
  BY <1>1, <1>12, DeploymentAssumption
     DEF ControlTypes, Environments, Controllers, ControllerNames, IsTestnet, ToSet
<1>15. \A t \in core.listed : Aggregator(t) # Name
  <2>1. network \in Environments /\ core.listed \subseteq FeedTokens
    BY <1>1, DeploymentAssumption DEF ControlTypes, DataInv, DataTypes
  <2>2. Controllers(network) \subseteq Controllers("local")
    BY <1>1, ControllersAreNames
  <2>3. CASE Name \in Controllers(network)
    BY <2>1, <2>2, <2>3, FeedsAssumption
  <2>4. CASE Name = "WSTETHOracle"
    <3>1. "WSTETH" \notin core.listed
      BY <1>1, <1>8, <2>4 DEF PlaceInv, PlanInv
    <3>2. Name \in Replaceable("local")
      BY <2>4 DEF Replaceable
    <3>. QED BY <2>1, <3>1, <3>2, FeedsAssumption
  <2>. QED BY <1>12, <2>3, <2>4
<1>. QED BY <1>4, <1>5, <1>6, <1>7, <1>8, <1>9, <1>10, <1>11, <1>13, <1>14, <1>15

\* The first of the three writes keeps the invariant: the record is gone, the
\* plan holds it.
LEMMA ForgetInv ==
  ASSUME DeploymentInv, ForgetRecord
  PROVE  DeploymentInv'
<1>1. ControlTypes /\ DataInv /\ PlaceInv
  BY DEF DeploymentInv
<1>2. /\ pc # 0 /\ Op = "forget" /\ Op \in Replacing /\ Needed /\ Advance
      /\ records' = [records EXCEPT ![Name] = NoRecord]
      /\ plan' = [plan EXCEPT !.old = records[Name]]
      /\ UNCHANGED <<network, version, newRecords, chain, core, facts, deposits, faults>>
  BY DEF ForgetRecord, Running, world, Replacing
<1>3. /\ Name \in Names /\ newRecords[Name] # NoRecord /\ Name \in plan.update
      /\ \A i \in DOMAIN Steps : Steps[i].op \in {"proxy", "beacon"} => Steps[i].name # Name
      /\ \A k \in MadeBefore(Steps, pc) : k # Name => Recorded(k)
      /\ Recorded(Name) /\ SoundRecord(Name, records[Name])
      /\ \A t \in core.listed : Aggregator(t) # Name
      /\ Name \in Controllers(network) => core.controllers[Name] = newRecords[Name].id
      /\ Name \in Replaceable(network) /\ Name # "UFarmCore"
  BY <1>2, ReplacedName
<1>4. /\ records \in [Names -> RecordType] /\ NoRecord \in RecordType
      /\ plan \in [list : SUBSET Plannable, update : SUBSET Plannable, old : RecordType]
  BY <1>1 DEF DataInv, DataTypes, NoRecord, RecordType, ControlTypes
<1>5. DataInv'
  BY <1>1, <1>2, <1>3, <1>4, RecordChanged
<1>6. \A i \in DOMAIN Steps : i < pc => Passed(i)'
  BY <1>2, <1>3, RecordPassed
<1>7. \A i \in DOMAIN Steps : i = pc => Passed(i)'
  BY <1>1, <1>2, PassedVacuous
<1>8. /\ plan'.list = plan.list /\ plan'.update = plan.update /\ plan'.old = records[Name]
      /\ plan' \in [list : SUBSET Plannable, update : SUBSET Plannable, old : RecordType]
  BY <1>2, <1>3, <1>4
<1>9. ControlTypes'
  BY <1>1, <1>2, <1>8, AdvanceTypes DEF Advance, ControlTypes
<1>10. records'[Name] = NoRecord /\ \A n \in Names : n # Name => records'[n] = records[n]
  BY <1>2, <1>3, <1>4
<1>11. Op' = "rewrite" /\ Name' = Name
  <2>1. pc + 1 \in DOMAIN Steps /\ Does(Steps, pc + 1, "rewrite", Name)
    BY <1>1, <1>2, ReplacingSteps
  <2>2. step' = Steps[pc + 1]
    BY <1>1, <1>2, <2>1, AtStep DEF Advance, AdvanceBy, Steps
  <2>. QED BY <2>1, <2>2 DEF Does, Op, Name
<1>12. Needed'
  BY <1>2, <1>3, <1>8, <1>11 DEF Needed
<1>13. PlanInv'
  <2>1. \A n : n = Name => SoundRecord(n, plan.old)' <=> SoundRecord(n, records[Name])
    BY <1>2, <1>8 DEF SoundRecord
  <2>2. SoundRecord(Name, plan.old)'
    BY <1>3, <1>11, <2>1
  <2>3. /\ Name \in Controllers(network) =>
             \A c \in plan.update \cap Controllers(network) :
               newRecords[c] # NoRecord => core.controllers[c] = newRecords[c].id
        /\ Name = "WSTETHOracle" /\ Name \in plan.update => "WSTETH" \notin core.listed
    BY <1>1, <1>2 DEF PlaceInv, PlanInv
  <2>4. plan'.old # NoRecord
    BY <1>3, <1>8 DEF Recorded
  <2>. QED BY <1>2, <1>8, <1>10, <1>11, <2>2, <2>3, <2>4 DEF PlanInv
<1>14. \A k \in MadeBefore(Steps, pc) : Recorded(k)' \/ Between(k)'
  <2>1. MadeBefore(Steps, pc) \subseteq Names
    BY <1>1, <1>2, AtStep, MadeAreNames DEF ControlTypes, Steps
  <2>2. \A k : k = Name => Between(k)'
    BY <1>11, <1>12 DEF Between
  <2>3. \A k \in MadeBefore(Steps, pc) : k # Name => Recorded(k)'
    BY <1>3, <1>10, <2>1 DEF Recorded
  <2>. QED BY <2>2, <2>3
<1>. QED BY <1>2, <1>5, <1>6, <1>7, <1>9, <1>13, <1>14, LocalInv DEF Making

\* The second keeps it: the new version is the record.
LEMMA RewriteInv ==
  ASSUME DeploymentInv, RewriteRecord
  PROVE  DeploymentInv'
<1>1. ControlTypes /\ DataInv /\ PlaceInv
  BY DEF DeploymentInv
<1>2. /\ pc # 0 /\ Op = "rewrite" /\ Op \in Replacing /\ Needed /\ Advance
      /\ records' = [records EXCEPT ![Name] = newRecords[Name]]
      /\ UNCHANGED <<network, version, newRecords, chain, core, facts, deposits, plan, faults>>
  BY DEF RewriteRecord, Running, world, Replacing
<1>3. /\ Name \in Names /\ ~OnlyRecorded(Name) /\ newRecords[Name] # NoRecord
      /\ SoundRecord(Name, newRecords[Name])
      /\ \A i \in DOMAIN Steps : Steps[i].op \in {"proxy", "beacon"} => Steps[i].name # Name
      /\ \A k \in MadeBefore(Steps, pc) : k # Name => Recorded(k)
      /\ Name # "UFarmCore"
  BY <1>2, ReplacedName
<1>4. /\ ~Recorded(Name) /\ plan.old # NoRecord /\ SoundRecord(Name, plan.old)
      /\ Name \in Controllers(network) =>
           \A c \in plan.update \cap Controllers(network) :
             newRecords[c] # NoRecord => core.controllers[c] = newRecords[c].id
      /\ Name = "WSTETHOracle" /\ Name \in plan.update => "WSTETH" \notin core.listed
  BY <1>1, <1>2 DEF PlaceInv, PlanInv, Recorded
<1>5. records \in [Names -> RecordType] /\ newRecords[Name] \in RecordType
  BY <1>1, <1>3 DEF DataInv, DataTypes
<1>6. DataInv'
  BY <1>1, <1>2, <1>3, <1>4, <1>5, RecordChanged
<1>7. \A i \in DOMAIN Steps : i < pc => Passed(i)'
  BY <1>2, <1>3, RecordPassed
<1>8. \A i \in DOMAIN Steps : i = pc => Passed(i)'
  BY <1>1, <1>2, PassedVacuous
<1>9. ControlTypes'
  BY <1>1, <1>2, AdvanceTypes DEF Advance, ControlTypes
<1>10. records'[Name] = newRecords[Name] /\ \A n \in Names : n # Name => records'[n] = records[n]
  BY <1>2, <1>3, <1>5
<1>11. Op' = "drop" /\ Name' = Name
  <2>1. pc + 1 \in DOMAIN Steps /\ Does(Steps, pc + 1, "drop", Name)
    BY <1>1, <1>2, ReplacingSteps
  <2>2. step' = Steps[pc + 1]
    BY <1>1, <1>2, <2>1, AtStep DEF Advance, AdvanceBy, Steps
  <2>. QED BY <2>1, <2>2 DEF Does, Op, Name
<1>12. PlanInv'
  <2>1. SoundRecord(Name, plan.old)'
    BY <1>2, <1>4, <1>11 DEF SoundRecord
  <2>. QED BY <1>2, <1>4, <1>10, <1>11, <2>1 DEF PlanInv
<1>13. \A k \in MadeBefore(Steps, pc) : Recorded(k)'
  <2>1. MadeBefore(Steps, pc) \subseteq Names
    BY <1>1, <1>2, AtStep, MadeAreNames DEF ControlTypes, Steps
  <2>. QED BY <1>3, <1>10, <2>1 DEF Recorded
<1>. QED BY <1>2, <1>6, <1>7, <1>8, <1>9, <1>12, <1>13, LocalInv DEF Making

\* The third keeps it: the new version is no longer recorded twice.
LEMMA DropInv ==
  ASSUME DeploymentInv, DropNewRecord
  PROVE  DeploymentInv'
<1>1. ControlTypes /\ DataInv /\ PlaceInv
  BY DEF DeploymentInv
<1>2. /\ pc # 0 /\ Op = "drop" /\ Op \in Replacing /\ Needed /\ Advance
      /\ newRecords' = [newRecords EXCEPT ![Name] = NoRecord]
      /\ plan' = [plan EXCEPT !.old = NoRecord]
      /\ UNCHANGED <<network, version, records, chain, core, facts, deposits, faults>>
  BY DEF DropNewRecord, Running, world, Replacing
<1>3. /\ Name \in Names /\ records[Name] = newRecords[Name]
      /\ \A k \in MadeBefore(Steps, pc) : k # Name => Recorded(k)
      /\ Recorded(Name)
  BY <1>1, <1>2, ReplacedName DEF PlaceInv, PlanInv
<1>4. /\ newRecords \in [Names -> RecordType] /\ NoRecord \in RecordType
      /\ plan \in [list : SUBSET Plannable, update : SUBSET Plannable, old : RecordType]
      /\ Steps' = Steps /\ RecordType' = RecordType
      /\ (\A n : OnlyRecorded(n)' = OnlyRecorded(n)) /\ (\A n : Recorded(n)' = Recorded(n))
  BY <1>1, <1>2
     DEF DataInv, DataTypes, NoRecord, RecordType, ControlTypes, Steps, OnlyRecorded, Recorded
<1>5. /\ newRecords'[Name] = NoRecord /\ \A n \in Names : n # Name => newRecords'[n] = newRecords[n]
      /\ newRecords' \in [Names -> RecordType]
  BY <1>2, <1>3, <1>4
<1>6. DataInv'
  <2>1. DataTypes'
    BY <1>1, <1>2, <1>4, <1>5 DEF DataInv, DataTypes
  <2>2. RecordsInv'
    <3> SUFFICES ASSUME NEW n \in Names
               PROVE  /\ OnlyRecorded(n) =>
                           /\ chain[n] = <<>> /\ newRecords'[n] = NoRecord
                           /\ Recorded(n) => records[n].id = 1
                      /\ ~OnlyRecorded(n) /\ Recorded(n) =>
                           /\ records[n].id \in DOMAIN chain[n]
                           /\ records[n].abi = chain[n][records[n].id].impl \/ UpgradedInPlace(n)'
                      /\ newRecords'[n] # NoRecord =>
                           /\ SoundRecord(n, newRecords'[n])
                           /\ \E i \in DOMAIN Steps : Does(Steps, i, "upgraded", n)
      BY <1>2, <1>4 DEF RecordsInv, RecordedInstance, SoundRecord
    <3>1. UpgradedInPlace(n)' = UpgradedInPlace(n)
      BY <1>2, <1>4 DEF UpgradedInPlace, Initialized, Recorded, RecordedInstance
    <3>2. newRecords'[n] \in {newRecords[n], NoRecord}
      BY <1>5
    <3>. QED BY <1>1, <3>1, <3>2 DEF DataInv, RecordsInv, RecordedInstance
  <2>3. WiringInv' /\ FeedsInv' /\ QueuedInv'
    BY <1>1, <1>2, <1>4 DEF DataInv, WiringInv, SoundLinks, FeedsInv, QueuedInv
  <2>4. ControllerIsRecorded'
    <3> SUFFICES ASSUME NEW c \in Controllers(network), core.controllers[c] # 0
                 PROVE  core.controllers[c] \in {records[c].id, newRecords'[c].id}
      BY <1>2 DEF ControllerIsRecorded
    <3>1. core.controllers[c] \in {records[c].id, newRecords[c].id} /\ c \in Names
      BY <1>1, ControllersAreNames DEF DataInv, ControllerIsRecorded
    <3>. QED BY <1>3, <1>5, <3>1
  <2>. QED BY <2>1, <2>2, <2>3, <2>4 DEF DataInv
<1>7. \A i \in DOMAIN Steps : i < pc => Passed(i)'
  BY <1>2, PassedSame
<1>8. \A i \in DOMAIN Steps : i = pc => Passed(i)'
  BY <1>1, <1>2, PassedVacuous
<1>9. /\ plan'.list = plan.list /\ plan'.update = plan.update
      /\ plan' \in [list : SUBSET Plannable, update : SUBSET Plannable, old : RecordType]
  BY <1>2, <1>4
<1>10. ControlTypes'
  BY <1>1, <1>2, <1>9, AdvanceTypes DEF Advance, ControlTypes
<1>11. PlanInv'
  <2>1. /\ Op' \notin {"list", "update", "rewrite", "drop"}
        /\ Op' = "forget" => Name' # "WSTETHOracle" /\ Name \in Controllers(network)
    BY <1>1, <1>2, AfterListing
  <2>2. Name \in Controllers(network) =>
          \A c \in plan.update \cap Controllers(network) :
            newRecords[c] # NoRecord => core.controllers[c] = newRecords[c].id
    BY <1>1, <1>2 DEF PlaceInv, PlanInv
  <2>3. Name \in Controllers(network) =>
          \A c \in plan'.update \cap Controllers(network) :
            newRecords'[c] # NoRecord => core.controllers[c] = newRecords'[c].id
    <3>1. \A c \in Controllers(network) : c \in Names
      BY <1>1, ControllersAreNames
    <3>. QED BY <1>5, <1>9, <2>2, <3>1
  <2>. QED BY <1>2, <2>1, <2>3 DEF PlanInv, Replacing
<1>12. \A k \in MadeBefore(Steps, pc) : Recorded(k)'
  BY <1>3, <1>4
<1>. QED BY <1>2, <1>6, <1>7, <1>8, <1>10, <1>11, <1>12, LocalInv DEF Making

\* When a write fails the old record is saved again, and the invariant is kept.
LEMMA RestoreInv ==
  ASSUME DeploymentInv, RestoreRecord
  PROVE  DeploymentInv'
<1>1. ControlTypes /\ DataInv /\ PlaceInv
  BY DEF DeploymentInv
<1> DEFINE r == IF Op = "forget" THEN records[Name] ELSE plan.old
           n == step.args
<1>2. /\ pc # 0 /\ Op \in Replacing /\ Needed /\ Fault /\ AdvanceBy(n)
      /\ records' = [records EXCEPT ![Name] = r]
      /\ plan' = [plan EXCEPT !.old = NoRecord]
      /\ UNCHANGED <<network, version, newRecords, chain, core, facts, deposits>>
  BY DEF RestoreRecord, Running, world, Replacing
<1>3. /\ Name \in Names /\ ~OnlyRecorded(Name)
      /\ \A i \in DOMAIN Steps : Steps[i].op \in {"proxy", "beacon"} => Steps[i].name # Name
      /\ \A k \in MadeBefore(Steps, pc) : k # Name => Recorded(k)
      /\ Op # "rewrite" => Recorded(Name)
      /\ Recorded(Name) => SoundRecord(Name, records[Name])
      /\ \A t \in core.listed : Aggregator(t) # Name
      /\ Name \in Controllers(network) => core.controllers[Name] = newRecords[Name].id
      /\ Name \in Replaceable(network) /\ Name # "UFarmCore"
  BY <1>2, ReplacedName
<1>4. /\ records \in [Names -> RecordType] /\ NoRecord \in RecordType
      /\ plan \in [list : SUBSET Plannable, update : SUBSET Plannable, old : RecordType]
  BY <1>1 DEF DataInv, DataTypes, NoRecord, RecordType, ControlTypes
<1>5. r \in RecordType /\ r # NoRecord /\ SoundRecord(Name, r)
  <2>1. Op \in {"rewrite", "drop"} => plan.old # NoRecord /\ SoundRecord(Name, plan.old)
    BY <1>1, <1>2 DEF PlaceInv, PlanInv
  <2>. QED BY <1>2, <1>3, <1>4, <2>1 DEF Replacing, Recorded
<1>6. /\ n \in 1..3 /\ pc \in Nat \ {0} /\ pc \in DOMAIN Steps /\ pc + n <= Len(Steps) + 1
      /\ \A i \in DOMAIN Steps : i >= pc /\ i < pc + n => Steps[i].op \in Replacing
      /\ (pc + n) - 1 \in DOMAIN Steps /\ Does(Steps, (pc + n) - 1, "drop", Name)
      /\ DOMAIN Steps = 1..Len(Steps) /\ Len(Steps) \in Nat
  <2>1. /\ pc \in DOMAIN Steps /\ pc \in Nat \ {0} /\ Steps[pc].op = Op /\ Steps[pc].name = Name
        /\ DOMAIN Steps = 1..Len(Steps) /\ Len(Steps) \in Nat
    BY <1>1, <1>2, AtStep DEF Op, Name
  <2>2. /\ n = (IF Op = "forget" THEN 3 ELSE IF Op = "rewrite" THEN 2 ELSE 1)
        /\ Op = "forget" => /\ pc + 1 \in DOMAIN Steps /\ Does(Steps, pc + 1, "rewrite", Name)
                            /\ pc + 2 \in DOMAIN Steps /\ Does(Steps, pc + 2, "drop", Name)
        /\ Op = "rewrite" => pc + 1 \in DOMAIN Steps /\ Does(Steps, pc + 1, "drop", Name)
    BY <1>1, <1>2, ReplacingSteps
  <2>. HIDE DEF n
  <2>3. CASE Op = "forget"
    <3>1. \A i \in DOMAIN Steps : i >= pc /\ i < pc + 3 => i \in {pc, pc + 1, pc + 2}
      BY <2>1
    <3>2. (pc + 3) - 1 = pc + 2
      BY <2>1
    <3>. QED BY <2>1, <2>2, <2>3, <3>1, <3>2 DEF Does, Replacing
  <2>4. CASE Op = "rewrite"
    <3>1. \A i \in DOMAIN Steps : i >= pc /\ i < pc + 2 => i \in {pc, pc + 1}
      BY <2>1
    <3>2. (pc + 2) - 1 = pc + 1
      BY <2>1
    <3>. QED BY <2>1, <2>2, <2>4, <3>1, <3>2 DEF Does, Replacing
  <2>5. CASE Op = "drop"
    <3>1. \A i \in DOMAIN Steps : i >= pc /\ i < pc + 1 => i = pc
      BY <2>1
    <3>2. (pc + 1) - 1 = pc
      BY <2>1
    <3>. QED BY <2>1, <2>2, <2>5, <3>1, <3>2 DEF Does, Replacing
  <2>. QED BY <1>2, <2>3, <2>4, <2>5 DEF Replacing
<1>. HIDE DEF r, n
<1>7. DataInv'
  <2>1. Name \in Controllers(network) /\ core.controllers[Name] # 0 =>
          core.controllers[Name] = newRecords[Name].id
    BY <1>3
  <2>. QED BY <1>1, <1>2, <1>3, <1>5, <2>1, RecordChanged
<1>8. records'[Name] = r /\ \A k \in Names : k # Name => records'[k] = records[k]
  BY <1>2, <1>3, <1>4
<1>9. /\ plan'.list = plan.list /\ plan'.update = plan.update
      /\ plan' \in [list : SUBSET Plannable, update : SUBSET Plannable, old : RecordType]
  BY <1>2, <1>4
<1>10. ControlTypes'
  <2>1. faults' \in 0..MaxFaults[network]
    BY <1>1, <1>2, Faults
  <2>2. n \in Nat \ {0}
    BY <1>6
  <2>. QED BY <1>1, <1>2, <1>9, <2>1, <2>2, AdvanceTypes
<1>11. \A i \in DOMAIN Steps : i < pc + n => Passed(i)'
  <2> SUFFICES ASSUME NEW i \in DOMAIN Steps, i < pc + n PROVE Passed(i)'
    OBVIOUS
  <2>1. CASE i < pc
    BY <1>2, <1>3, <2>1, RecordPassed
  <2>2. CASE i >= pc
    <3>1. Steps'[i].op \in Replacing
      BY <1>2, <1>6, <2>2 DEF Steps
    <3>. QED BY <3>1 DEF Passed, PassedCode, PassedCore, PassedLists, PassedSeeds, Does, Replacing
  <2>3. i \in Nat
    BY <1>6
  <2>. QED BY <1>6, <2>1, <2>2, <2>3
<1>12. \A k \in MadeBefore(Steps, pc + n) : Recorded(k)'
  <2>1. ASSUME NEW made \in MadeBefore(Steps, pc + n)
        PROVE  made \in MadeBefore(Steps, pc)
    <3>1. \A i \in Nat : made \in MadeBefore(Steps, i) <=>
            \E j \in 1..(i - 1) : Steps[j].op \in Making /\ made = Steps[j].name
      BY DEF MadeBefore
    <3>2. pc + n \in Nat /\ pc \in Nat
      BY <1>6
    <3>3. PICK j \in 1..((pc + n) - 1) : Steps[j].op \in Making /\ made = Steps[j].name
      BY <2>1, <3>1, <3>2
    <3>4. j \in DOMAIN Steps
      BY <1>6
    <3>5. ~(j >= pc)
      BY <1>6, <3>3, <3>4 DEF Making, Replacing
    <3>6. j \in 1..(pc - 1)
      BY <1>6, <3>5
    <3>. QED BY <3>1, <3>2, <3>3, <3>6
  <2>2. MadeBefore(Steps, pc) \subseteq Names
    BY <1>1, <1>6, MadeAreNames DEF ControlTypes, Steps
  <2>. QED BY <1>3, <1>5, <1>8, <2>1, <2>2 DEF Recorded
<1>13. Op' \notin {"list", "update", "rewrite", "drop"} /\ (Op' = "forget" =>
         Name' # "WSTETHOracle" /\ Name \in Controllers(network))
  <2>1. CASE Op' = "none"
    BY <2>1
  <2>2. CASE pc + n \in DOMAIN Steps /\ Does(Steps, pc + n, Op', Name')
    <3>1. PICK i, op, name :
            i \in DOMAIN Steps /\ i = pc + n /\ op = Op' /\ name = Name' /\ Does(Steps, i, op, name)
      BY <2>2
    <3>2. /\ op = "list" => Does(Steps, i - 1, "survey", name)
          /\ op = "update" => Does(Steps, i - 1, "survey", name) \/ Does(Steps, i - 1, "list", name)
          /\ op = "forget" =>
              /\ name = "WSTETHOracle" => Does(Steps, i - 1, "update", "feed")
              /\ name # "WSTETHOracle" =>
                   \/ Does(Steps, i - 1, "update", "controllers")
                   \/ \E c \in Controllers(network) : Does(Steps, i - 1, "drop", c)
          /\ op = "rewrite" => Does(Steps, i - 1, "forget", name)
          /\ op = "drop" => Does(Steps, i - 1, "rewrite", name)
      BY <1>1, <3>1, StepBefore
    <3>3. \A o, m : Does(Steps, i - 1, o, m) => o = "drop" /\ m = Name
      BY <1>6, <3>1 DEF Does
    <3>. QED BY <3>1, <3>2, <3>3
  <2>3. n \in Nat \ {0}
    BY <1>6
  <2>. QED BY <1>1, <1>2, <1>6, <2>1, <2>2, <2>3, Advanced
<1>14. PlanInv'
  <2>1. Name \in Controllers(network) =>
          \A c \in plan.update \cap Controllers(network) :
            newRecords[c] # NoRecord => core.controllers[c] = newRecords[c].id
    BY <1>1, <1>2 DEF PlaceInv, PlanInv
  <2>. QED BY <1>2, <1>9, <1>13, <2>1 DEF PlanInv, Replacing
<1>15. PlaceInv'
  <2>1. n \in Nat \ {0}
    BY <1>6
  <2>. QED BY <1>1, <1>2, <1>6, <1>11, <1>12, <1>14, <2>1, AdvancePassed
<1>. QED BY <1>7, <1>10, <1>15 DEF DeploymentInv

-----------------------------------------------------------------------------
(* Runs and releases                                                       *)

\* A run starts with nothing passed and nothing planned.
LEMMA StartInv ==
  ASSUME DeploymentInv, Start
  PROVE  DeploymentInv'
<1>1. ControlTypes /\ DataInv /\ PlaceInv
  BY DEF DeploymentInv
<1>2. /\ pc = 0 /\ ~complete /\ pc' = 1 /\ step' = Steps[1]
      /\ UNCHANGED <<network, version, records, newRecords, chain, core, facts, deposits,
                     phase, failures, plan, complete, faults>>
  BY DEF Start, world, Steps
<1>3. /\ Len(Steps) \in Nat \ {0} /\ DOMAIN Steps = 1..Len(Steps)
      /\ \A i \in DOMAIN Steps : Steps[i].attempts \in Nat \ {0}
  BY <1>1, OrderAssumption DEF ControlTypes, Steps
<1>4. 1 \in DOMAIN Steps /\ 0 \notin DOMAIN Steps /\ Steps' = Steps /\ RecordType' = RecordType
  BY <1>2, <1>3 DEF Steps, RecordType
<1>5. ControlTypes'
  <2>1. failures' = 0 /\ phase' = "send" /\ Steps[1].attempts \in Nat \ {0} /\ pc' # 0
        /\ pc' \in 0..Len(Steps) /\ step' = Steps[pc']
    BY <1>1, <1>2, <1>3, <1>4 DEF ControlTypes
  <2>. QED BY <1>1, <1>2, <1>4, <2>1 DEF ControlTypes
<1>6. DataInv'
  BY <1>1, <1>2, SameData
<1>7. Reach' = 1 /\ phase' = "send" /\ failures' = 0
  BY <1>1, <1>2 DEF Reach, ControlTypes
<1>8. Op' \notin {"list", "update", "forget", "rewrite", "drop"}
  <2>1. Does(Steps, 1, Op', Name')
    BY <1>2, <1>4 DEF Does, Op, Name
  <2>2. PICK op, name : op = Op' /\ name = Name' /\ Does(Steps, 1, op, name)
    BY <2>1
  <2>3. \A o, n : ~Does(Steps, 1 - 1, o, n)
    BY <1>4 DEF Does
  <2>4. op \notin {"list", "update", "forget", "rewrite", "drop"}
    BY <1>1, <1>4, <2>2, <2>3, StepBefore
  <2>. QED BY <2>2, <2>4
<1>9. PlanInv'
  BY <1>8 DEF PlanInv, Replacing
<1>10. PassedMade' /\ PassedInv'
  <2>1. MadeBefore(Steps, 1) = {}
    BY DEF MadeBefore
  <2>. QED BY <1>3, <1>4, <1>7, <2>1 DEF PassedMade, PassedInv
<1>11. DecidedInv'
  BY <1>7 DEF DecidedInv
<1>. QED BY <1>5, <1>6, <1>9, <1>10, <1>11 DEF DeploymentInv, PlaceInv

\* After a run that was not complete there is nothing to say of its place.
LEMMA BetweenRuns ==
  ASSUME ControlTypes, pc = 0, ~complete
  PROVE  PlaceInv
<1>1. Op = "none" /\ phase = "send" /\ failures = 0 /\ Reach = 1
  BY NoStepOp DEF ControlTypes, Op, Reach
<1>2. DOMAIN Steps = 1..Len(Steps) /\ Len(Steps) \in Nat
  BY OrderAssumption DEF ControlTypes, Steps
<1>3. MadeBefore(Steps, 1) = {}
  BY DEF MadeBefore
<1>. QED BY <1>1, <1>2, <1>3
     DEF PlaceInv, DecidedInv, PlanInv, PassedMade, PassedInv, Making, Replacing

\* A release changes no contract: those that are deployed are behind it.
LEMMA ReleaseInv ==
  ASSUME DeploymentInv, NewRelease
  PROVE  DeploymentInv'
<1>1. ControlTypes /\ DataInv
  BY DEF DeploymentInv
<1>2. /\ pc = 0 /\ version < MaxVersion /\ version' = version + 1 /\ complete' = FALSE
      /\ UNCHANGED <<network, records, newRecords, chain, core, facts, deposits, pc, step, phase,
                     failures, plan, faults>>
  BY DEF NewRelease, world
<1>3. version \in Nat /\ MaxVersion \in Nat /\ version' \in 1..MaxVersion
  BY <1>1, <1>2, DeploymentAssumption DEF ControlTypes
<1>4. RecordType \subseteq RecordType' /\ \A i \in 1..version : i \in 1..version'
  BY <1>2, <1>3 DEF RecordType
<1>5. Steps' = Steps
  BY <1>2 DEF Steps
<1>6. ControlTypes'
  BY <1>1, <1>2, <1>3, <1>4, <1>5 DEF ControlTypes
<1>7. DataInv'
  <2>1. DataTypes'
    BY <1>1, <1>2, <1>4 DEF DataInv, DataTypes
  <2>2. \A n : /\ OnlyRecorded(n)' = OnlyRecorded(n) /\ Recorded(n)' = Recorded(n)
               /\ Initialized(n)' = Initialized(n)
               /\ RecordedInstance(n)' = RecordedInstance(n)
               /\ UpgradedInPlace(n)' = UpgradedInPlace(n)
               /\ SoundRecord(n, newRecords[n])' = SoundRecord(n, newRecords[n])
    BY <1>2, <1>5
       DEF OnlyRecorded, Recorded, Initialized, RecordedInstance, UpgradedInPlace, SoundRecord
  <2>3. RecordsInv'
    BY <1>1, <1>2, <1>5, <2>2 DEF DataInv, RecordsInv
  <2>4. WiringInv'
    BY <1>1, <1>2, <2>2 DEF DataInv, WiringInv, SoundLinks
  <2>5. FeedsInv' /\ QueuedInv' /\ ControllerIsRecorded'
    BY <1>1, <1>2, <1>5 DEF DataInv, FeedsInv, QueuedInv, ControllerIsRecorded
  <2>. QED BY <2>1, <2>3, <2>4, <2>5 DEF DataInv
<1>8. PlaceInv'
  <2>1. (ControlTypes /\ pc = 0 /\ ~complete => PlaceInv)'
    BY BetweenRuns, PTL
  <2>. QED BY <1>2, <1>6, <2>1
<1>. QED BY <1>6, <1>7, <1>8 DEF DeploymentInv

\* The invariant holds before anything is deployed.
LEMMA InitInv ==
  ASSUME Init
  PROVE  DeploymentInv
<1>1. /\ network \in Deployed /\ version = 1 /\ faults = 0 /\ facts = {}
      /\ records = [n \in Names |-> NoRecord] /\ newRecords = [n \in Names |-> NoRecord]
      /\ chain = [n \in Names |-> <<>>]
      /\ core = [controllers |-> [c \in Controllers("local") |-> 0], listed |-> {},
                 feeds |-> [t \in Tokens |-> 0], valueTokens |-> {}, minDeposit |-> 0]
      /\ deposits = [p \in Pools |-> [queued |-> 0, settled |-> 0]]
      /\ pc = 0 /\ step = NoStep /\ phase = "send" /\ failures = 0 /\ plan = NoPlan
      /\ complete = FALSE
  BY DEF Init
<1>2. NoRecord \in RecordType
  BY <1>1 DEF NoRecord, RecordType
<1>3. ControlTypes
  <2>1. Len(Steps) \in Nat
    BY <1>1, OrderAssumption DEF Steps
  <2>2. MaxVersion \in Nat \ {0} /\ MaxFaults[network] \in Nat
    BY <1>1, DeploymentAssumption
  <2>3. plan \in [list : SUBSET Plannable, update : SUBSET Plannable, old : RecordType]
    BY <1>1, <1>2 DEF NoPlan
  <2>4. failures < step.attempts
    BY <1>1, NoStepOp
  <2>5. pc \in 0..Len(Steps) /\ version \in 1..MaxVersion /\ faults \in 0..MaxFaults[network]
    BY <1>1, <2>1, <2>2
  <2>6. step = (IF pc = 0 THEN NoStep ELSE Steps[pc]) /\ failures \in Nat
    BY <1>1
  <2>. QED BY <1>1, <2>3, <2>4, <2>5, <2>6 DEF ControlTypes
<1>4. DataInv
  <2>1. \A n \in Names : ~Recorded(n) /\ newRecords[n] = NoRecord /\ chain[n] = <<>> /\ DOMAIN chain[n] = {}
    BY <1>1 DEF Recorded
  <2>2. DataTypes
    <3>1. chain \in [Names -> Seq(Instances)]
      BY <1>1
    <3>. QED BY <1>1, <1>2, <2>1, <3>1 DEF DataTypes
  <2>3. RecordsInv /\ WiringInv
    BY <2>1 DEF RecordsInv, WiringInv
  <2>4. FeedsInv /\ QueuedInv
    BY <1>1 DEF FeedsInv, QueuedInv
  <2>5. ControllerIsRecorded
    BY <1>1, <1>3, ControllersAreNames DEF ControllerIsRecorded
  <2>. QED BY <2>2, <2>3, <2>4, <2>5 DEF DataInv
<1>. QED BY <1>1, <1>3, <1>4, BetweenRuns DEF DeploymentInv

\* The invariant is about the variables only.
LEMMA StutterInv ==
  ASSUME DeploymentInv, UNCHANGED vars
  PROVE  DeploymentInv'
<1>1. UNCHANGED <<network, version, records, newRecords, chain, core, facts, deposits, pc, step, phase,
                  failures, plan, complete, faults>>
  BY DEF vars
<1>2. Steps' = Steps /\ RecordType' = RecordType /\ Op' = Op /\ Name' = Name /\ Reach' = Reach
  BY <1>1 DEF Steps, RecordType, Op, Name, Reach
<1>3. ControlTypes' /\ DataInv'
  BY <1>1, <1>2, SameData DEF DeploymentInv, ControlTypes
<1>4. /\ Needed' = Needed /\ (\A n : Recorded(n)' = Recorded(n)) /\ CoreReady' = CoreReady
      /\ (\A n : Between(n)' = Between(n)) /\ (\A n : RecordedInstance(n)' = RecordedInstance(n))
  BY <1>1, <1>2 DEF Needed, CoreReady, Initialized, Recorded, RecordedInstance, Between
<1>5. PlaceInv'
  <2>1. PassedMade' /\ PassedInv'
    BY <1>1, <1>2, <1>4
       DEF DeploymentInv, PlaceInv, PassedMade, PassedInv, Passed, PassedCode, PassedCore, PassedLists,
           PassedSeeds, Universe, Told
  <2>2. DecidedInv' /\ PlanInv'
    BY <1>1, <1>2, <1>4
       DEF DeploymentInv, PlaceInv, DecidedInv, PlanInv, Universe, Told, SoundRecord
  <2>. QED BY <2>1, <2>2 DEF PlaceInv
<1>. QED BY <1>3, <1>5 DEF DeploymentInv

\* The invariant is inductive.
LEMMA NextInv ==
  ASSUME DeploymentInv, [Next]_vars
  PROVE  DeploymentInv'
<1>1. CASE Skip \/ ReadRecords \/ MakePlan \/ RecordExternal
  BY <1>1, SkipInv, ReadInv, MakePlanInv, ExternalInv
<1>2. CASE DeployContract \/ DeployProxy \/ CreateFund \/ CreatePool
  BY <1>2, ContractBuilds, ProxyBuilds, FactoryBuilds, BuildsInv
<1>3. CASE InitializeContract \/ SendPlannedList \/ SendPlannedUpdate
  BY <1>3, InitializeInv, ListInv, UpdateInv
<1>4. CASE EnsureFact \/ SetMinDeposit \/ ActivatePool \/ DepositSeed \/ AnswerSeed
  BY <1>4, FactsInv, MinDepositInv, SeedsInv
<1>5. CASE Save \/ ForgetRecord \/ RewriteRecord \/ DropNewRecord \/ RestoreRecord
  BY <1>5, SaveInv, ForgetInv, RewriteInv, DropInv, RestoreInv
<1>6. CASE Crash \/ Start \/ NewRelease
  BY <1>6, CrashInv, StartInv, ReleaseInv
<1>7. CASE UNCHANGED vars
  BY <1>7, StutterInv
<1>. QED BY <1>1, <1>2, <1>3, <1>4, <1>5, <1>6, <1>7 DEF Next, Run

\* The invariant of every reachable state: the types, what is on the chain and
\* in the records, and what the passed steps of this run have left there.
THEOREM DeploymentIsInductive == Spec => []DeploymentInv
<1>1. Init => DeploymentInv
  BY InitInv
<1>2. DeploymentInv /\ [Next]_vars => DeploymentInv'
  BY NextInv
<1>. QED BY <1>1, <1>2, PTL DEF Spec

-----------------------------------------------------------------------------
(* The properties                                                          *)

\* DeploymentTypeOK.  A link is the address of a recorded contract, which is
\* not zero.
THEOREM DeploymentTypes == Spec => []DeploymentTypeOK
<1>1. DeploymentInv => DeploymentTypeOK
  <2> SUFFICES ASSUME DeploymentInv PROVE DeploymentTypeOK
    OBVIOUS
  <2>1. ControlTypes /\ DataInv /\ DataTypes /\ WiringInv
    BY DEF DeploymentInv, DataInv
  <2>2. \A n \in Names : \A i \in DOMAIN chain[n] :
          \A l \in DOMAIN chain[n][i].links : l \in Names /\ chain[n][i].links[l] \in Nat \ {0}
    BY <2>1, RecordedId DEF WiringInv, SoundLinks
  <2>3. core.listed \subseteq FeedTokens /\ core.valueTokens \subseteq ValueTokens
        /\ core.controllers \in [Controllers("local") -> Nat] /\ core.feeds \in [Tokens -> Nat]
    BY <2>1 DEF DataTypes
  <2>. QED BY <2>1, <2>2, <2>3 DEF DeploymentTypeOK, ControlTypes, DataTypes, RecordType, Steps
<1>. QED BY <1>1, DeploymentIsInductive, PTL

\* RecordedWiring: every link is to the recorded address, as nothing that is
\* replaced is linked to.
THEOREM WiringIsRecorded == Spec => []RecordedWiring
<1>1. DeploymentInv => RecordedWiring
  <2> SUFFICES ASSUME DeploymentInv, NEW n \in Names, Recorded(n), records[n].id <= Len(chain[n]),
                      NEW l \in DOMAIN RecordedInstance(n).links
               PROVE  RecordedInstance(n).links[l] = records[l].id
    BY DEF RecordedWiring
  <2>1. RecordsInv /\ WiringInv
    BY DEF DeploymentInv, DataInv
  <2>2. CASE OnlyRecorded(n)
    <3>1. Len(<<>>) = 0
      OBVIOUS
    <3>. QED BY <2>1, <2>2, <3>1 DEF RecordsInv
  <2>3. CASE ~OnlyRecorded(n)
    BY <2>1, <2>3 DEF RecordsInv, WiringInv, SoundLinks, RecordedInstance
  <2>. QED BY <2>2, <2>3
<1>. QED BY <1>1, DeploymentIsInductive, PTL

\* ControllerIsRecorded, whatever of the three writes that replace a record was
\* reached.
THEOREM ControllersAreRecorded == Spec => []ControllerIsRecorded
<1>1. DeploymentInv => ControllerIsRecorded
  BY DEF DeploymentInv, DataInv
<1>. QED BY <1>1, DeploymentIsInductive, PTL

\* FeedsFollowRecords: the oracle is replaced only when its token is not listed.
THEOREM FeedsAreRecorded == Spec => []FeedsFollowRecords
<1>1. DeploymentInv => FeedsFollowRecords
  BY DEF DeploymentInv, DataInv, FeedsInv, FeedsFollowRecords
<1>. QED BY <1>1, DeploymentIsInductive, PTL

\* RecordsAreThere: what the steps before this one make is recorded, also when
\* an earlier run made it or a record is being replaced.
THEOREM ReadsFindRecords == Spec => []RecordsAreThere
<1>1. DeploymentInv => RecordsAreThere
  <2> SUFFICES ASSUME DeploymentInv, Running({"read"}), NEW n \in step.args PROVE Recorded(n)
    BY DEF RecordsAreThere
  <2>1. pc # 0 /\ Op = "read" /\ ControlTypes
    BY DEF Running, DeploymentInv
  <2>2. MakesInOrder(network, Steps, pc) /\ Steps[pc].op = "read" /\ Steps[pc].args = step.args
    BY <2>1, AtStep, OrderAssumption DEF ControlTypes, Steps, Op
  <2>3. n \in MadeBefore(Steps, pc)
    BY <2>2 DEF MakesInOrder
  <2>. QED BY <2>1, <2>3, MadeByNow
<1>. QED BY <1>1, DeploymentIsInductive, PTL

\* When a run is complete all its steps were passed, each with its effect.
LEMMA CompleteIsConsistent ==
  ASSUME DeploymentInv
  PROVE  CompleteRunIsConsistent
<1> SUFFICES ASSUME complete
             PROVE  /\ CoreReady
                    /\ \A c \in Controllers(network) :
                         core.controllers[c] \in {records[c].id, newRecords[c].id} \ {0}
                    /\ IsTestnet(network) => core.listed = FeedTokens
                    /\ core.valueTokens = ValueTokens
                    /\ \A n \in Names :
                         (Recorded(n) /\ chain[n] # <<>>) => records[n].abi = RecordedInstance(n).impl
                    /\ \A p \in Pools : deposits[p].queued = 0
  BY DEF CompleteRunIsConsistent
<1>1. ControlTypes /\ DataInv /\ PlaceInv /\ pc = 0 /\ Reach = Len(Steps) + 1
  BY DEF DeploymentInv, ControlTypes, Reach
<1>2. DOMAIN Steps = 1..Len(Steps) /\ Len(Steps) \in Nat /\ ReachesItsEnd(network, Steps)
  BY <1>1, OrderAssumption DEF ControlTypes, Steps
<1>3. \A i \in DOMAIN Steps : PassedCode(i) /\ PassedCore(i) /\ PassedLists(i) /\ PassedSeeds(i)
  BY <1>1, <1>2 DEF PlaceInv, PassedInv, Passed
<1>4. CoreReady
  BY <1>2, <1>3 DEF ReachesItsEnd, PassedCore
<1>5. \A what : (\E i \in DOMAIN Steps : Does(Steps, i, "list", what)) => Universe(what) \subseteq Told(what)
  BY <1>3 DEF Does, PassedLists
<1>6. \A c \in Controllers(network) : core.controllers[c] \in {records[c].id, newRecords[c].id} \ {0}
  <2>1. Universe("controllers") \subseteq Told("controllers")
    BY <1>2, <1>5 DEF ReachesItsEnd
  <2>. QED BY <1>1, <2>1 DEF Universe, Told, DataInv, ControllerIsRecorded
<1>7. IsTestnet(network) => core.listed = FeedTokens
  <2>1. IsTestnet(network) => Universe("tokens") \subseteq Told("tokens")
    BY <1>2, <1>5 DEF ReachesItsEnd
  <2>. QED BY <1>1, <2>1 DEF Universe, Told, DataInv, DataTypes
<1>8. core.valueTokens = ValueTokens
  <2>1. Universe("valueTokens") \subseteq Told("valueTokens")
    BY <1>2, <1>5 DEF ReachesItsEnd
  <2>. QED BY <1>1, <2>1 DEF Universe, Told, DataInv, DataTypes
<1>9. ASSUME NEW n \in Names, Recorded(n), chain[n] # <<>>
      PROVE  records[n].abi = RecordedInstance(n).impl
  <2>1. records[n].abi = RecordedInstance(n).impl \/ UpgradedInPlace(n)
    BY <1>1, <1>9 DEF DataInv, RecordsInv
  <2>2. UpgradedInPlace(n) => records[n].abi = RecordedInstance(n).impl
    BY <1>3 DEF UpgradedInPlace, Does, PassedCode
  <2>. QED BY <2>1, <2>2
<1>10. \A p \in Pools : deposits[p].queued = 0
  BY <1>1, <1>3 DEF DataInv, QueuedInv, Does, PassedSeeds
<1>. QED BY <1>4, <1>6, <1>7, <1>8, <1>9, <1>10

\* CompleteRunIsConsistent, for every script that is in order.
THEOREM CompleteRunsAreConsistent == Spec => []CompleteRunIsConsistent
<1>1. DeploymentInv => CompleteRunIsConsistent
  BY CompleteIsConsistent
<1>. QED BY <1>1, DeploymentIsInductive, PTL

\* A record is written when there is none, with the address it has, or as one of
\* the three writes.
LEMMA AddressKept ==
  ASSUME DeploymentInv, Next, NEW n \in Names, Recorded(n), ~(pc # 0 /\ Op \in Replacing /\ n = Name)
  PROVE  records'[n].id = records[n].id
<1>1. ControlTypes /\ DataInv /\ PlaceInv /\ records \in [Names -> RecordType]
  BY DEF DeploymentInv, DataInv, DataTypes
<1>2. CASE records' = records
  BY <1>2
<1>3. CASE RecordExternal
  <2>1. records' = [records EXCEPT ![Name] = [id |-> 1, abi |-> version]] /\ pc # 0 /\ Op = "external"
    BY <1>3 DEF RecordExternal, Running
  <2>2. Recorded(Name) /\ Name \in Names => records[Name].id = 1
    BY <1>1, <2>1, AtStep DEF DataInv, RecordsInv, OnlyRecorded, Does, Op, Name
  <2>. QED BY <1>1, <2>1, <2>2
<1>4. CASE Save
  <2> DEFINE latest == [id |-> Len(chain[Name]), abi |-> version]
             newAbi == [records[Name] EXCEPT !.abi = version]
  <2>1. /\ pc # 0 /\ phase = "save"
        /\ \/ Op = "upgraded" /\ records' = records
           \/ /\ ~(Op = "upgraded" /\ Recorded(Name))
              /\ records' = [records EXCEPT ![Name] = IF Op \in {"proxy", "beacon"} /\ Recorded(Name)
                                                        THEN newAbi ELSE latest]
    BY <1>4 DEF Save
  <2>2. Op \in Saved /\ Needed /\ Name \in Names
    BY <1>1, <2>1, BuilderName DEF ControlTypes, PlaceInv, DecidedInv, Saved, Making
  <2>3. Recorded(Name) => Op \in {"upgraded", "proxy", "beacon"}
    BY <2>2 DEF Saved, Needed
  <2>4. newAbi.id = records[Name].id
    BY <1>1, <2>2 DEF RecordType
  <2>. HIDE DEF newAbi, latest
  <2>5. CASE n = Name
    BY <1>1, <2>1, <2>2, <2>3, <2>4, <2>5
  <2>6. CASE n # Name
    BY <1>1, <2>1, <2>2, <2>6
  <2>. QED BY <2>5, <2>6
<1>5. CASE ForgetRecord \/ RewriteRecord \/ RestoreRecord
  <2>1. pc # 0 /\ Op \in Replacing /\ \E r : records' = [records EXCEPT ![Name] = r]
    BY <1>5 DEF ForgetRecord, RewriteRecord, RestoreRecord, Running, Replacing
  <2>2. n # Name
    BY <2>1
  <2>. QED BY <1>1, <2>1, <2>2
<1>6. records' = records \/ RecordExternal \/ Save \/ ForgetRecord \/ RewriteRecord \/ RestoreRecord
  BY DEF Next, Run, Skip, ReadRecords, MakePlan, DeployContract, DeployProxy, InitializeContract,
         SendPlannedList, SendPlannedUpdate, EnsureFact, SetMinDeposit, CreateFund, CreatePool,
         ActivatePool, DepositSeed, AnswerSeed, DropNewRecord, Crash, Start, NewRelease, Transact
<1>. QED BY <1>2, <1>3, <1>4, <1>5, <1>6

\* AddressesAreStable: only what is replaceable is replaced.
THEOREM AddressesStay == Spec => AddressesAreStable
<1> DEFINE Stable == \A n \in Names : Recorded(n) => \/ records'[n].id = records[n].id
                                                     \/ n \in Replaceable(network)
<1>1. DeploymentInv /\ Next => Stable
  BY AddressKept, ReplacingSteps DEF DeploymentInv
<1>2. DeploymentInv /\ [Next]_vars => [Stable]_vars
  BY <1>1
<1>. QED BY <1>2, DeploymentIsInductive, PTL DEF Spec, AddressesAreStable

-----------------------------------------------------------------------------
(* Runs that nothing disturbs: no transaction of theirs is refused.  What  *)
(* one needs of the chain was done by a step before it                     *)
(* (AcceptanceAssumption), in this run or, as no run before it stopped, in *)
(* one that got to its end.  CleanInv adds to DeploymentInv that this is   *)
(* so, and what the chain would refuse to do twice.                        *)

\* What instances are linked to: what the step that makes or initializes them
\* gives them, and of a proxy only the recorded instance is initialized.
LinksInv ==
  \A i \in DOMAIN Steps : Steps[i].op \in {"deploy", "initialize"} =>
    LET n == Steps[i].name
    IN \A k \in DOMAIN chain[n] :
         IF Steps[i].op = "deploy" THEN DOMAIN chain[n][k].links = Steps[i].args
         ELSE chain[n][k].links # <<>> =>
                DOMAIN chain[n][k].links = Steps[i].args /\ Recorded(n) /\ k = records[n].id

\* Without faults a fund is recorded right after it was created, the oracle and
\* the core are initialized by the same run, and the token that is delisted is
\* listed again by the same run.
FundsSaved ==
  \A i \in DOMAIN Steps :
    Steps[i].op = "fund" /\ chain[Steps[i].name] # <<>> =>
      Recorded(Steps[i].name) \/ (phase = "save" /\ i = pc)
OracleTogether ==
  \A i \in DOMAIN Steps :
    Does(Steps, i, "initialize", "PriceOracle") /\ Initialized("PriceOracle") => CoreReady \/ i < pc
FeedTogether ==
  \A i \in DOMAIN Steps :
    Does(Steps, i, "update", "feed") /\ core.feeds["WSTETH"] # 0 => "WSTETH" \in core.listed \/ i < pc

\* A plan has nothing in it that the core refuses.
FreshPlan ==
  /\ Op = "list" => plan.list \cap Told(Name) = {}
  /\ Op = "update" /\ Name = "feed" /\ plan.update # {} => "WSTETH" \in core.listed
  /\ Op \in {"list", "update"} /\ Name = "tokens" => plan.update = {}
  /\ Op \in {"list", "update"} /\ Name = "controllers" => \A c \in plan.update : core.controllers[c] # 0

PassedFact(i) == Steps[i].op \in {"ensure", "activate"} => Steps[i].name \in facts
PassedFacts == \A i \in DOMAIN Steps : i < Reach => PassedFact(i)
PassedProxies ==
  \A i \in DOMAIN Steps : i < Reach /\ Steps[i].op = "initialize" =>
    Initialized(Steps[i].name) \/ (Steps[i].name = "PriceOracle" /\ CoreReady)

\* The first run sets the minimum deposit after it activated the pools.
DepositRule ==
  \/ core.minDeposit = 0
  \/ \E i \in DOMAIN Steps : i < Reach /\ Steps[i].op = "minDeposit" /\ core.minDeposit = Steps[i].args
  \/ \A i \in DOMAIN Steps : PassedFact(i)

Undisturbed ==
  /\ failures = 0
  /\ FundsSaved /\ OracleTogether /\ FeedTogether /\ FreshPlan
  /\ PassedFacts /\ PassedProxies /\ DepositRule

CleanInv == LinksInv /\ (faults = 0 => Undisturbed)

\* An initializer is sent to a recorded proxy.
LEMMA InitializedBefore ==
  ASSUME DeploymentInv, pc # 0, Op = "initialize"
  PROVE  /\ Name \in Names /\ ~OnlyRecorded(Name) /\ Recorded(Name) /\ step.args # {}
         /\ records[Name].id \in DOMAIN chain[Name]
<1>1. ControlTypes /\ DataInv
  BY DEF DeploymentInv
<1>2. /\ pc \in DOMAIN Steps /\ step = Steps[pc] /\ Steps[pc].op = "initialize" /\ Steps[pc].name = Name
      /\ MakesInOrder(network, Steps, pc)
  BY <1>1, AtStep, OrderAssumption DEF Op, Name, ControlTypes, Steps
<1>3. Name \in Names /\ ~OnlyRecorded(Name)
  BY <1>1, <1>2, InitializedName
<1>4. PICK j \in 1..(pc - 1) : Does(Steps, j, "proxy", Name)
  BY <1>2 DEF MakesInOrder
<1>5. Name \in MadeBefore(Steps, pc)
  BY <1>4 DEF MadeBefore, Does, Making
<1>6. Recorded(Name) /\ step.args # {}
  BY <1>2, <1>5, MadeByNow DEF MakesInOrder
<1>. QED BY <1>1, <1>3, <1>6 DEF DataInv, RecordsInv

\* The record of a proxy that is initialized keeps its address.
LEMMA ProxyAddressKept ==
  ASSUME DeploymentInv, Next, NEW i \in DOMAIN Steps, Steps[i].op = "initialize", Recorded(Steps[i].name)
  PROVE  /\ records'[Steps[i].name].id = records[Steps[i].name].id
         /\ \A n : n = Steps[i].name => Recorded(n)'
<1> DEFINE n == Steps[i].name
<1>1. ControlTypes /\ DataInv /\ n \in Names
  BY InitializedName DEF DeploymentInv
<1>2. PICK j \in DOMAIN Steps : Does(Steps, j, "proxy", n)
  BY <1>1, OrderAssumption DEF ControlTypes, Steps, MakesInOrder, Does
<1>3. ~(pc # 0 /\ Op \in Replacing /\ n = Name)
  <2> SUFFICES ASSUME pc # 0, Op \in Replacing, n = Name PROVE FALSE
    OBVIOUS
  <2>1. PICK k \in DOMAIN Steps : Does(Steps, k, "deploy", Name) \/ Does(Steps, k, "upgraded", Name)
    BY <1>1, ReplacingSteps
  <2>. QED BY <1>1, <1>2, <2>1, MadeOnce DEF Does, Making
<1>4. records'[n].id = records[n].id /\ records[n].id # 0
  BY <1>1, <1>3, AddressKept, RecordedId
<1>. QED BY <1>4 DEF Recorded, NoRecord

\* What a step of the scripts does to the chain.
ChainSame == chain' = chain
ChainNew ==
  /\ pc # 0 /\ Op \in Saved
  /\ \E links \in LinkMaps :
       /\ NewInstance(Name, links)
       /\ IF Op \in {"deploy", "upgraded"} THEN DOMAIN links = step.args ELSE links = <<>>
ChainCode == pc # 0 /\ Op \in {"proxy", "beacon"} /\ Recorded(Name) /\ NewCode(Name)
ChainInit ==
  /\ pc # 0 /\ Op = "initialize" /\ Recorded(Name)
  /\ chain' = [chain EXCEPT ![Name][records[Name].id].links = Links(step.args)]

\* A deployment stays on its network, and with its scripts.
LEMMA SameScripts ==
  ASSUME Next
  PROVE  network' = network /\ Steps' = Steps
<1>1. network' = network
  BY DEF Next, Run, Skip, ReadRecords, MakePlan, DeployContract, DeployProxy, InitializeContract,
         SendPlannedList, SendPlannedUpdate, EnsureFact, SetMinDeposit, CreateFund, CreatePool,
         ActivatePool, DepositSeed, AnswerSeed, Save, ForgetRecord, RewriteRecord, DropNewRecord,
         RestoreRecord, RecordExternal, Crash, Start, NewRelease, Transact
<1>. QED BY <1>1 DEF Steps

\* Every step does one of these.
LEMMA ChainSteps ==
  ASSUME DeploymentInv, Next
  PROVE  ChainSame \/ ChainNew \/ ChainCode \/ ChainInit
<1>1. CASE DeployContract
  <2>1. pc # 0 /\ Op \in {"deploy", "upgraded"} /\ (ChainSame \/ NewInstance(Name, Links(step.args)))
    BY <1>1 DEF DeployContract, Running, Transact, ChainSame, world
  <2>2. Links(step.args) \in LinkMaps /\ DOMAIN Links(step.args) = step.args
    BY <2>1, RecordedLinks
  <2>. QED BY <2>1, <2>2 DEF ChainNew, Saved
<1>2. CASE DeployProxy
  <2>1. pc # 0 /\ Op \in {"proxy", "beacon"}
        /\ (ChainSame \/ IF Recorded(Name) THEN NewCode(Name) ELSE NewInstance(Name, <<>>))
    BY <1>2 DEF DeployProxy, Running, Transact, ChainSame, world
  <2>. QED BY <2>1, NoLinks DEF ChainNew, ChainCode, Saved
<1>3. CASE CreateFund \/ CreatePool
  <2>1. pc # 0 /\ Op \in {"fund", "pool"} /\ (ChainSame \/ NewInstance(Name, <<>>))
    BY <1>3 DEF CreateFund, CreatePool, Running, Transact, ChainSame, world
  <2>. QED BY <2>1, NoLinks DEF ChainNew, Saved
<1>4. CASE InitializeContract
  <2>1. /\ pc # 0 /\ Op = "initialize"
        /\ \/ ChainSame
           \/ chain' = [chain EXCEPT ![Name][records[Name].id].links = Links(step.args)]
    BY <1>4 DEF InitializeContract, Running, Transact, ChainSame, world
  <2>2. Recorded(Name)
    BY <2>1, InitializedBefore
  <2>. QED BY <2>1, <2>2 DEF ChainInit
<1>5. CASE ~(DeployContract \/ DeployProxy \/ CreateFund \/ CreatePool \/ InitializeContract)
  BY <1>5 DEF Next, Run, Skip, ReadRecords, MakePlan, RecordExternal,
     SendPlannedList, SendPlannedUpdate, EnsureFact, SetMinDeposit, ActivatePool, DepositSeed, AnswerSeed,
     Save, ForgetRecord, RewriteRecord, DropNewRecord, RestoreRecord,
     Crash, Start, NewRelease, Transact, ChainSame, world
<1>. QED BY <1>1, <1>2, <1>3, <1>4, <1>5

\* What becomes of one instance.
LEMMA Instance ==
  ASSUME DeploymentInv, Next, NEW n \in Names
  PROVE  /\ \A k \in DOMAIN chain[n] :
              /\ k \in DOMAIN chain'[n]
              /\ \/ chain'[n][k].links = chain[n][k].links
                 \/ /\ pc # 0 /\ Op = "initialize" /\ n = Name /\ Recorded(n) /\ k = records[n].id
                    /\ chain'[n][k].links = Links(step.args)
         /\ \A k \in DOMAIN chain'[n] \ DOMAIN chain[n] :
              /\ pc # 0 /\ Op \in Saved /\ n = Name
              /\ IF Op \in {"deploy", "upgraded"} THEN DOMAIN chain'[n][k].links = step.args
                 ELSE chain'[n][k].links = <<>>
<1>1. ControlTypes /\ DataInv /\ DataTypes /\ RecordsInv
  BY DEF DeploymentInv, DataInv
<1>2. chain \in [Names -> Seq(Instances)]
  BY <1>1 DEF DataTypes
<1>3. CASE ChainSame
  BY <1>3 DEF ChainSame
<1>4. CASE ChainNew
  <2>1. PICK links \in LinkMaps :
          /\ NewInstance(Name, links)
          /\ IF Op \in {"deploy", "upgraded"} THEN DOMAIN links = step.args ELSE links = <<>>
    BY <1>4 DEF ChainNew
  <2> DEFINE e == [impl |-> version, links |-> links]
  <2>2. e \in Instances /\ e.links = links
    BY <1>1 DEF Instances, ControlTypes
  <2>3. chain' = [chain EXCEPT ![Name] = Append(@, e)] /\ pc # 0 /\ Op \in Saved
    BY <1>4, <2>1 DEF ChainNew, NewInstance
  <2>. HIDE DEF e
  <2>4. CASE n # Name
    BY <1>2, <2>3, <2>4
  <2>5. CASE n = Name
    <3>1. chain'[n] = Append(chain[n], e) /\ chain[n] \in Seq(Instances)
      BY <1>2, <2>3, <2>5
    <3>2. /\ DOMAIN chain'[n] = 1..(Len(chain[n]) + 1) /\ DOMAIN chain[n] = 1..Len(chain[n])
          /\ Len(chain[n]) \in Nat
          /\ \A k \in 1..Len(chain[n]) : chain'[n][k] = chain[n][k]
          /\ chain'[n][Len(chain[n]) + 1] = e
      BY <2>2, <3>1
    <3>3. \A k \in DOMAIN chain'[n] \ DOMAIN chain[n] : chain'[n][k] = e
      BY <3>2
    <3>. QED BY <2>1, <2>2, <2>3, <2>5, <3>2, <3>3
  <2>. QED BY <2>4, <2>5
<1>5. CASE ChainCode
  <2>1. Name \in Names /\ records[Name].id \in DOMAIN chain[Name]
    BY <1>1, <1>5, BuilderRecord DEF ChainCode, Saved
  <2> DEFINE new == [chain[Name][records[Name].id] EXCEPT !.impl = version]
  <2>2. chain' = [chain EXCEPT ![Name] = [@ EXCEPT ![records[Name].id] = new]]
    BY <1>5 DEF ChainCode, NewCode
  <2>3. chain[Name][records[Name].id] \in Instances
    BY <1>2, <2>1
  <2>4. new.links = chain[Name][records[Name].id].links
    BY <2>3 DEF Instances
  <2>. HIDE DEF new
  <2>5. CASE n # Name
    BY <1>2, <2>2, <2>5
  <2>6. CASE n = Name
    BY <1>2, <2>1, <2>2, <2>4, <2>6
  <2>. QED BY <2>5, <2>6
<1>6. CASE ChainInit
  <2>1. Name \in Names /\ records[Name].id \in DOMAIN chain[Name] /\ pc # 0 /\ Op = "initialize" /\ Recorded(Name)
    BY <1>6, InitializedBefore DEF ChainInit
  <2> DEFINE new == [chain[Name][records[Name].id] EXCEPT !.links = Links(step.args)]
  <2>2. chain' = [chain EXCEPT ![Name] = [@ EXCEPT ![records[Name].id] = new]]
    BY <1>6 DEF ChainInit
  <2>3. chain[Name][records[Name].id] \in Instances
    BY <1>2, <2>1
  <2>4. new.links = Links(step.args)
    BY <2>3 DEF Instances
  <2>. HIDE DEF new
  <2>5. CASE n # Name
    BY <1>2, <2>2, <2>5
  <2>6. CASE n = Name
    BY <1>2, <2>1, <2>2, <2>4, <2>6
  <2>. QED BY <2>5, <2>6
<1>. QED BY <1>3, <1>4, <1>5, <1>6, ChainSteps

\* No two steps initialize the same contract.
LEMMA InitializedOnce ==
  ASSUME ControlTypes, NEW i \in DOMAIN Steps, NEW j \in DOMAIN Steps,
         Steps[i].op = "initialize", Steps[j].op = "initialize", Steps[i].name = Steps[j].name
  PROVE  i = j
<1>1. DOMAIN Steps = 1..Len(Steps) /\ Len(Steps) \in Nat
      /\ \A k \in DOMAIN Steps : AcceptsInOrder(Steps, k)
  BY OrderAssumption, AcceptanceAssumption DEF ControlTypes, Steps
<1>2. ASSUME NEW k \in DOMAIN Steps, NEW l \in DOMAIN Steps, l < k, Steps[k].op = "initialize",
             Steps[l].op = "initialize", Steps[l].name = Steps[k].name
      PROVE  FALSE
  <2>1. AcceptsInOrder(Steps, k) /\ l \in 1..(k - 1)
    BY <1>1, <1>2
  <2>2. Does(Steps, l, "initialize", Steps[k].name)
    BY <1>2 DEF Does
  <2>. QED BY <1>2, <2>1, <2>2 DEF AcceptsInOrder
<1>. QED BY <1>1, <1>2

\* The links stay as the scripts give them.
LEMMA LinksKept ==
  ASSUME DeploymentInv, LinksInv, Next
  PROVE  LinksInv'
<1>1. ControlTypes /\ Steps' = Steps
  BY SameScripts DEF DeploymentInv
<1>2. ASSUME NEW i \in DOMAIN Steps, Steps[i].op = "deploy", NEW k \in DOMAIN chain'[Steps[i].name]
      PROVE  DOMAIN chain'[Steps[i].name][k].links = Steps[i].args
  <2> DEFINE n == Steps[i].name
  <2>1. n \in Names
    BY <1>1, <1>2, NamesMade DEF Making, ControlTypes, Steps
  <2>2. CASE k \in DOMAIN chain[n]
    <3>1. ~(pc # 0 /\ Op = "initialize" /\ n = Name)
      <4> SUFFICES ASSUME pc # 0, Op = "initialize", n = Name PROVE FALSE
        OBVIOUS
      <4>1. pc \in DOMAIN Steps /\ Steps[pc].op = "initialize" /\ Steps[pc].name = n
        BY <1>1, AtStep DEF Op, Name
      <4>2. PICK j \in DOMAIN Steps : Does(Steps, j, "proxy", n)
        BY <1>1, <4>1, OrderAssumption DEF ControlTypes, Steps, MakesInOrder, Does
      <4>. QED BY <1>1, <1>2, <4>2, MadeOnce DEF Does, Making
    <3>2. chain'[n][k].links = chain[n][k].links
      BY <2>1, <2>2, <3>1, Instance
    <3>. QED BY <1>2, <2>2, <3>2 DEF LinksInv
  <2>3. CASE k \notin DOMAIN chain[n]
    <3>1. /\ pc # 0 /\ Op \in Saved /\ n = Name
          /\ IF Op \in {"deploy", "upgraded"} THEN DOMAIN chain'[n][k].links = step.args
             ELSE chain'[n][k].links = <<>>
      BY <1>2, <2>1, <2>3, Instance
    <3>2. Steps[i].op = Op /\ i = pc
      BY <1>1, <1>2, <3>1, BuilderMakes DEF Saved, Making
    <3>3. step = Steps[pc]
      BY <1>1, <3>1, AtStep
    <3>. QED BY <1>2, <3>1, <3>2, <3>3
  <2>. QED BY <2>2, <2>3
<1>3. ASSUME NEW i \in DOMAIN Steps, Steps[i].op = "initialize", NEW k \in DOMAIN chain'[Steps[i].name],
             chain'[Steps[i].name][k].links # <<>>
      PROVE  /\ DOMAIN chain'[Steps[i].name][k].links = Steps[i].args
             /\ \A n : n = Steps[i].name => Recorded(n)' /\ k = records'[n].id
  <2> DEFINE n == Steps[i].name
  <2>1. n \in Names
    BY <1>1, <1>3, InitializedName
  <2>2. PICK j \in DOMAIN Steps : Does(Steps, j, "proxy", n)
    BY <1>1, <1>3, OrderAssumption DEF ControlTypes, Steps, MakesInOrder, Does
  <2>3. k \in DOMAIN chain[n]
    <3> SUFFICES ASSUME k \notin DOMAIN chain[n] PROVE FALSE
      OBVIOUS
    <3>1. /\ pc # 0 /\ Op \in Saved /\ n = Name
          /\ IF Op \in {"deploy", "upgraded"} THEN DOMAIN chain'[n][k].links = step.args
             ELSE chain'[n][k].links = <<>>
      BY <1>3, <2>1, Instance
    <3>2. Steps[j].op = Op
      BY <1>1, <2>2, <3>1, BuilderMakes DEF Saved, Making, Does
    <3>. QED BY <1>3, <2>2, <3>1, <3>2 DEF Does
  <2>4. Recorded(n) /\ k = records[n].id /\ DOMAIN chain'[n][k].links = Steps[i].args
    <3>1. CASE chain'[n][k].links = chain[n][k].links
      BY <1>3, <2>3, <3>1 DEF LinksInv
    <3>2. CASE /\ pc # 0 /\ Op = "initialize" /\ n = Name /\ Recorded(n) /\ k = records[n].id
               /\ chain'[n][k].links = Links(step.args)
      <4>1. pc \in DOMAIN Steps /\ step = Steps[pc] /\ Steps[pc].op = "initialize" /\ Steps[pc].name = n
        BY <1>1, <3>2, AtStep DEF Op, Name
      <4>2. i = pc
        BY <1>1, <1>3, <4>1, InitializedOnce
      <4>3. DOMAIN Links(step.args) = step.args
        BY <3>2, RecordedLinks
      <4>. QED BY <3>2, <4>1, <4>2, <4>3
    <3>. QED BY <2>1, <2>3, <3>1, <3>2, Instance
  <2>. QED BY <1>3, <2>4, ProxyAddressKept
<1>4. ASSUME NEW i \in DOMAIN Steps, Steps[i].op \in {"deploy", "initialize"},
             NEW n, n = Steps[i].name, NEW k \in DOMAIN chain'[n]
      PROVE  IF Steps[i].op = "deploy" THEN DOMAIN chain'[n][k].links = Steps[i].args
             ELSE chain'[n][k].links # <<>> =>
                    DOMAIN chain'[n][k].links = Steps[i].args /\ Recorded(n)' /\ k = records'[n].id
  BY <1>2, <1>3, <1>4
<1>5. \A i \in DOMAIN Steps : Steps[i].op \in {"deploy", "initialize"} =>
        \A k \in DOMAIN chain'[Steps[i].name] :
          IF Steps[i].op = "deploy" THEN DOMAIN chain'[Steps[i].name][k].links = Steps[i].args
          ELSE chain'[Steps[i].name][k].links # <<>> =>
                 /\ DOMAIN chain'[Steps[i].name][k].links = Steps[i].args
                 /\ records'[Steps[i].name] # NoRecord /\ k = records'[Steps[i].name].id
  BY <1>4 DEF Recorded
<1>. QED BY <1>1, <1>5 DEF LinksInv, Recorded

\* A proxy that is initialized stays so, and only its initializer makes it so.
LEMMA InitializedStays ==
  ASSUME DeploymentInv, LinksInv, Next, NEW i \in DOMAIN Steps, Steps[i].op = "initialize",
         NEW n, n = Steps[i].name
  PROVE  /\ Initialized(n) => Initialized(n)'
         /\ Initialized(n)' => Initialized(n) \/ (pc = i /\ Op = "initialize")
<1>1. ControlTypes /\ Steps' = Steps /\ n \in Names /\ ~OnlyRecorded(n)
  BY SameScripts, InitializedName DEF DeploymentInv
<1>2. Recorded(n) => records'[n].id = records[n].id /\ Recorded(n)' /\ records[n].id \in DOMAIN chain[n]
  BY <1>1, ProxyAddressKept DEF DeploymentInv, DataInv, RecordsInv
<1>3. ASSUME Initialized(n) PROVE Initialized(n)'
  <2>1. Recorded(n) /\ chain[n][records[n].id].links # <<>>
    BY <1>3 DEF Initialized, RecordedInstance
  <2> DEFINE k == records[n].id
  <2>2. CASE chain'[n][k].links = chain[n][k].links
    BY <1>2, <2>1, <2>2 DEF Initialized, RecordedInstance
  <2>3. CASE pc # 0 /\ Op = "initialize" /\ n = Name /\ chain'[n][k].links = Links(step.args)
    <3>1. DOMAIN Links(step.args) = step.args /\ step.args # {}
      BY <2>3, RecordedLinks, InitializedBefore
    <3>2. DOMAIN <<>> = {}
      OBVIOUS
    <3>3. chain'[n][k].links # <<>>
      BY <2>3, <3>1, <3>2
    <3>. QED BY <1>2, <2>1, <3>3 DEF Initialized, RecordedInstance
  <2>. QED BY <1>1, <1>2, <2>1, <2>2, <2>3, Instance
<1>4. ASSUME Initialized(n)', ~Initialized(n) PROVE pc = i /\ Op = "initialize"
  <2> DEFINE k == records'[n].id
  <2>1. Recorded(n)' /\ chain'[n][k].links # <<>>
    BY <1>4 DEF Initialized, RecordedInstance
  <2>2. PICK j \in DOMAIN Steps : Does(Steps, j, "proxy", n)
    BY <1>1, OrderAssumption DEF ControlTypes, Steps, MakesInOrder, Does
  <2>3. k \in DOMAIN chain'[n]
    BY <1>1, <2>1, NextInv DEF DeploymentInv, DataInv, RecordsInv, OnlyRecorded
  <2>4. k \in DOMAIN chain[n]
    <3> SUFFICES ASSUME k \notin DOMAIN chain[n] PROVE FALSE
      OBVIOUS
    <3>1. /\ pc # 0 /\ Op \in Saved /\ n = Name
          /\ IF Op \in {"deploy", "upgraded"} THEN DOMAIN chain'[n][k].links = step.args
             ELSE chain'[n][k].links = <<>>
      BY <1>1, <2>3, Instance
    <3>2. Steps[j].op = Op
      BY <1>1, <2>2, <3>1, BuilderMakes DEF Saved, Making, Does
    <3>. QED BY <2>1, <2>2, <3>1, <3>2 DEF Does
  <2>5. CASE chain'[n][k].links = chain[n][k].links
    <3>1. Recorded(n) /\ k = records[n].id
      BY <2>1, <2>4, <2>5 DEF LinksInv
    <3>. QED BY <1>4, <2>1, <2>5, <3>1 DEF Initialized, RecordedInstance
  <2>6. CASE pc # 0 /\ Op = "initialize" /\ n = Name
    <3>1. pc \in DOMAIN Steps /\ Steps[pc].op = "initialize" /\ Steps[pc].name = n
      BY <1>1, <2>6, AtStep DEF Op, Name
    <3>. QED BY <1>1, <2>6, <3>1, InitializedOnce
  <2>. QED BY <1>1, <2>4, <2>5, <2>6, Instance
<1>. QED BY <1>3, <1>4

\* During a run that nothing disturbs.
Calm == DeploymentInv /\ LinksInv /\ Undisturbed /\ pc # 0

\* What the step of such a run relies on.
LEMMA CalmStep ==
  ASSUME Calm
  PROVE  /\ ControlTypes /\ DataInv /\ PlaceInv /\ Reach = pc
         /\ pc \in DOMAIN Steps /\ pc \in Nat /\ DOMAIN Steps = 1..Len(Steps) /\ Len(Steps) \in Nat
         /\ step = Steps[pc] /\ Does(Steps, pc, Op, Name) /\ AcceptsInOrder(Steps, pc)
         /\ \A j \in 1..(pc - 1) : j \in DOMAIN Steps /\ j < Reach
<1>1. ControlTypes /\ DataInv /\ PlaceInv /\ pc # 0
  BY DEF Calm, DeploymentInv
<1>2. /\ pc \in DOMAIN Steps /\ pc \in Nat /\ DOMAIN Steps = 1..Len(Steps) /\ Len(Steps) \in Nat
      /\ step = Steps[pc] /\ Reach = pc
  BY <1>1, AtStep DEF Reach
<1>3. AcceptsInOrder(Steps, pc)
  BY <1>1, <1>2, AcceptanceAssumption DEF ControlTypes, Steps
<1>4. \A j \in 1..(pc - 1) : j \in DOMAIN Steps /\ j < Reach
  BY <1>2
<1>. QED BY <1>1, <1>2, <1>3, <1>4 DEF Does, Op, Name

\* The core was initialized before anything is sent to it.
LEMMA CoreIsReady ==
  ASSUME Calm, Op \in {"list", "minDeposit", "fund"}
  PROVE  CoreReady
<1>1. Op = step.op
  BY DEF Op
<1>2. PICK j \in 1..(pc - 1) : Does(Steps, j, "initialize", "UFarmCore")
  BY <1>1, CalmStep DEF AcceptsInOrder
<1>3. j \in DOMAIN Steps /\ j < Reach /\ PlaceInv
  BY CalmStep
<1>. QED BY <1>2, <1>3 DEF PlaceInv, PassedInv, Passed, PassedCore

\* The core's factories and its oracle know the core.
LEMMA LinkedKnowTheCore ==
  ASSUME Calm, Op = "initialize", Name = "UFarmCore", ~CoreReady, NEW linked \in step.args
  PROVE  /\ "UFarmCore" \in DOMAIN RecordedInstance(linked).links
         /\ RecordedInstance(linked).links["UFarmCore"] = records["UFarmCore"].id
<1>1. /\ ControlTypes /\ DataInv /\ PlaceInv /\ step = Steps[pc] /\ Steps[pc].op = "initialize"
      /\ pc \in DOMAIN Steps /\ Does(Steps, pc, "initialize", "UFarmCore")
  BY CalmStep DEF Does
<1>2. PICK j \in 1..(pc - 1) : /\ Steps[j].op \in {"deploy", "initialize"}
                               /\ Steps[j].name = linked /\ "UFarmCore" \in Steps[j].args
  BY <1>1, CalmStep DEF AcceptsInOrder
<1>3. j \in DOMAIN Steps /\ j < Reach
  BY CalmStep
<1>4. linked \in MadeBefore(Steps, pc)
  BY <1>1, OrderAssumption DEF ControlTypes, Steps, MakesInOrder
<1>5. Recorded(linked)
  BY <1>4, MadeByNow DEF Calm
<1>6. linked \in Names /\ ~OnlyRecorded(linked)
  <2>1. CASE Steps[j].op = "initialize"
    BY <1>1, <1>2, <1>3, <2>1, InitializedName
  <2>2. CASE Steps[j].op = "deploy"
    <3>1. linked \in Names
      BY <1>1, <1>2, <1>3, <2>2, NamesMade DEF Making, ControlTypes, Steps
    <3>2. ASSUME NEW i \in DOMAIN Steps, Does(Steps, i, "external", linked) PROVE FALSE
      BY <1>1, <1>2, <1>3, <2>2, <3>2, MadeOnce DEF Does, Making
    <3>. QED BY <3>1, <3>2 DEF OnlyRecorded
  <2>. QED BY <1>2, <2>1, <2>2
<1>7. records[linked].id \in DOMAIN chain[linked]
  BY <1>1, <1>5, <1>6 DEF DataInv, RecordsInv
<1>8. "UFarmCore" \in DOMAIN RecordedInstance(linked).links
  <2>1. CASE Steps[j].op = "deploy"
    BY <1>2, <1>3, <1>7, <2>1 DEF Calm, LinksInv, RecordedInstance
  <2>2. CASE Steps[j].op = "initialize"
    <3>1. Initialized(linked)
      BY <1>2, <1>3, <2>2 DEF Calm, Undisturbed, PassedProxies
    <3>. QED BY <1>2, <1>3, <1>7, <2>2, <3>1 DEF Calm, LinksInv, Initialized, RecordedInstance
  <2>. QED BY <1>2, <2>1, <2>2
<1>. QED BY <1>1, <1>6, <1>7, <1>8 DEF DataInv, WiringInv, SoundLinks, RecordedInstance

\* No initializer is refused.
LEMMA AcceptsInitializer ==
  ASSUME Calm, Op = "initialize", Needed
  PROVE  InitializerAccepted
<1>1. Recorded(Name)
  BY InitializedBefore DEF Calm
<1>2. IF Name = "PriceOracle" THEN ~CoreReady ELSE ~Initialized(Name)
  BY DEF Needed
<1>3. ~Initialized(Name)
  <2> SUFFICES ASSUME Name = "PriceOracle", Initialized("PriceOracle") PROVE FALSE
    BY <1>2
  <2>1. CoreReady \/ pc < pc
    BY CalmStep DEF Calm, Undisturbed, OracleTogether
  <2>. QED BY <1>2, <2>1, CalmStep
<1>4. RecordedInstance(Name).links = <<>>
  BY <1>1, <1>3 DEF Initialized
<1>5. Name = "UFarmCore" => ~CoreReady
  BY <1>3 DEF CoreReady
<1>. QED BY <1>4, <1>5, LinkedKnowTheCore DEF InitializerAccepted

\* No list is refused.
LEMMA AcceptsList ==
  ASSUME Calm, Op = "list"
  PROVE  ListAccepted
<1>1. CoreReady /\ plan.list \cap Told(Name) = {} /\ plan.list \subseteq Universe(Name)
  BY CoreIsReady, CalmStep DEF Calm, Undisturbed, FreshPlan, PlaceInv, PlanInv
<1>. QED BY <1>1 DEF ListAccepted, Told, Universe

\* No update is refused.
LEMMA AcceptsUpdate ==
  ASSUME Calm, Op = "update", Needed
  PROVE  UpdateAccepted
<1>1. Name \in {"tokens", "valueTokens", "controllers", "feed"} /\ ListsInOrder(network, Steps, pc)
  BY CalmStep, ListNames, OrderAssumption DEF Calm, ControlTypes, Steps
<1>2. Name # "valueTokens" /\ plan.update # {}
  BY <1>1, CalmStep DEF ListsInOrder, Needed, Does
<1>. QED BY <1>1, <1>2 DEF UpdateAccepted, Calm, Undisturbed, FreshPlan

\* No other transaction is refused: what it needs was done by a step before it.
LEMMA AcceptsOthers ==
  ASSUME Calm, phase = "send", Needed
  PROVE  /\ Op = "minDeposit" => CoreReady /\ core.minDeposit # step.args
         /\ Op = "fund" => CoreReady /\ chain[Name] = <<>>
         /\ Op = "pool" => "fund active" \in facts
         /\ Op = "activate" => core.minDeposit = 0
         /\ Op = "deposit" => Name \in facts
<1>1. \A op, name : (\E j \in 1..(pc - 1) : Does(Steps, j, op, name)) /\ op \in {"ensure", "activate"} =>
        name \in facts
  BY CalmStep DEF Calm, Undisturbed, PassedFacts, PassedFact, Does
<1>2. Steps[pc].op = Op /\ Steps[pc].name = Name /\ AcceptsInOrder(Steps, pc)
  BY CalmStep DEF Does
<1>3. Op = "minDeposit" => CoreReady /\ core.minDeposit # step.args
  BY CoreIsReady DEF Needed
<1>4. Op = "fund" => CoreReady /\ chain[Name] = <<>>
  <2> SUFFICES ASSUME Op = "fund" PROVE chain[Name] = <<>>
    BY CoreIsReady
  <2>1. ~Recorded(Name)
    BY DEF Needed
  <2>. QED BY <1>2, <2>1, CalmStep DEF Calm, Undisturbed, FundsSaved
<1>5. Op = "pool" => "fund active" \in facts
  BY <1>1, <1>2 DEF AcceptsInOrder
<1>6. Op = "deposit" => Name \in facts
  BY <1>1, <1>2 DEF AcceptsInOrder
<1>7. Op = "activate" => core.minDeposit = 0
  <2> SUFFICES ASSUME Op = "activate" PROVE core.minDeposit = 0
    OBVIOUS
  <2>1. ~PassedFact(pc)
    BY <1>2 DEF Needed, PassedFact
  <2>2. \A i \in DOMAIN Steps : i < Reach /\ Steps[i].op = "minDeposit" => Steps[i].args = 0
    <3>1. \A i \in DOMAIN Steps : i < Reach => i \in 1..(pc - 1)
      BY CalmStep
    <3>. QED BY <1>2, <3>1 DEF AcceptsInOrder
  <2>. QED BY <2>1, <2>2, CalmStep DEF Calm, Undisturbed, DepositRule
<1>. QED BY <1>3, <1>4, <1>5, <1>6, <1>7

\* A step of such a run sends its transaction and goes on to save the record,
\* or goes on to the next step.
LEMMA CalmMove ==
  ASSUME Calm, faults = 0, Next, faults' = 0
  PROVE  \/ Op \in Saved /\ phase = "send" /\ Saves
         \/ Advance /\ (phase = "send" /\ Op \in Saved => ~Needed /\ chain' = chain)
<1>1. pc # 0 /\ ~(failures > 0) /\ ~Fault /\ ControlTypes
  <2>1. faults' # faults + 1
    OBVIOUS
  <2>. QED BY <2>1, CalmStep DEF Calm, Undisturbed, Fault
<1>2. Confirmed => (Op \in Saved /\ Saves) \/ (Op \notin Saved /\ Advance)
  BY DEF Confirmed, Saved, Saves
<1>3. CASE DeployContract \/ DeployProxy \/ AnswerSeed
  BY <1>1, <1>2, <1>3 DEF DeployContract, DeployProxy, AnswerSeed, Transact
<1>4. CASE InitializeContract
  <2>1. Op = "initialize"
    BY <1>4 DEF InitializeContract, Running
  <2>. QED BY <1>1, <1>2, <1>4, <2>1, AcceptsInitializer DEF InitializeContract, Transact
<1>5. CASE SendPlannedList
  <2>1. Op = "list"
    BY <1>5 DEF SendPlannedList, Running
  <2>. QED BY <1>1, <1>2, <1>5, <2>1, AcceptsList DEF SendPlannedList, Transact
<1>6. CASE SendPlannedUpdate
  <2>1. Op = "update"
    BY <1>6 DEF SendPlannedUpdate, Running
  <2>. QED BY <1>1, <1>2, <1>6, <2>1, AcceptsUpdate DEF SendPlannedUpdate, Transact
<1>7. CASE EnsureFact
  <2>1. Needed => Name \notin facts
    BY <1>7 DEF EnsureFact, Running, Needed
  <2>. QED BY <1>1, <1>2, <1>7, <2>1 DEF EnsureFact, Transact
<1>8. CASE SetMinDeposit
  <2>1. Op = "minDeposit"
    BY <1>8 DEF SetMinDeposit, Running
  <2>. QED BY <1>1, <1>2, <1>8, <2>1, AcceptsOthers DEF SetMinDeposit, Transact
<1>9. CASE CreateFund
  <2>1. Op = "fund"
    BY <1>9 DEF CreateFund, Running
  <2>. QED BY <1>1, <1>2, <1>9, <2>1, AcceptsOthers DEF CreateFund, Transact
<1>10. CASE CreatePool
  <2>1. Op = "pool"
    BY <1>10 DEF CreatePool, Running
  <2>2. phase = "send" /\ Needed
    BY <1>1, <1>10 DEF CreatePool, Transact
  <2>3. "fund active" \in facts
    BY <2>1, <2>2, AcceptsOthers
  <2>4. Confirmed
    BY <1>1, <1>10, <2>3 DEF CreatePool, Transact
  <2>. QED BY <1>2, <2>1, <2>2, <2>4 DEF Saved
<1>11. CASE ActivatePool
  <2>1. Op = "activate"
    BY <1>11 DEF ActivatePool, Running
  <2>. QED BY <1>1, <1>2, <1>11, <2>1, AcceptsOthers DEF ActivatePool, Transact
<1>12. CASE DepositSeed
  <2>1. Op = "deposit"
    BY <1>12 DEF DepositSeed, Running
  <2>. QED BY <1>1, <1>2, <1>12, <2>1, AcceptsOthers DEF DepositSeed, Transact
<1>13. CASE ReadRecords
  <2>1. Op = "read" /\ \A n \in step.args : Recorded(n)
    <3>1. Op = "read" /\ Steps[pc].op = "read" /\ Steps[pc].args = step.args
      BY <1>13, CalmStep DEF ReadRecords, Running, Does
    <3>2. step.args \subseteq MadeBefore(Steps, pc)
      BY <1>1, <3>1, CalmStep, OrderAssumption DEF ControlTypes, Steps, MakesInOrder
    <3>. QED BY <3>1, <3>2, MadeByNow DEF Calm
  <2>. QED BY <1>13, <2>1 DEF ReadRecords, Saved
<1>14. CASE Skip
  BY <1>14 DEF Skip, world
<1>15. CASE MakePlan \/ RecordExternal \/ ForgetRecord \/ RewriteRecord \/ DropNewRecord
  BY <1>15 DEF MakePlan, RecordExternal, ForgetRecord, RewriteRecord, DropNewRecord, Running, Saved
<1>16. CASE Save
  BY <1>16 DEF Save
<1>. QED BY <1>1, <1>3, <1>4, <1>5, <1>6, <1>7, <1>8, <1>9, <1>10, <1>11, <1>12, <1>13, <1>14, <1>15, <1>16
         DEF Next, Run, RestoreRecord, Crash, Start, NewRelease

\* What a step tells the core.
LEMMA CoreSteps ==
  ASSUME Next
  PROVE  \/ core' = core
         \/ pc # 0 /\ Op = "list" /\ core' = Listed
         \/ pc # 0 /\ Op = "update" /\ UpdateAccepted /\ core' = Updated
         \/ pc # 0 /\ Op = "minDeposit" /\ core' = [core EXCEPT !.minDeposit = step.args]
<1>1. CASE SendPlannedList
  BY <1>1 DEF SendPlannedList, Running, Transact, world
<1>2. CASE SendPlannedUpdate
  BY <1>2 DEF SendPlannedUpdate, Running, Transact, world
<1>3. CASE SetMinDeposit
  BY <1>3 DEF SetMinDeposit, Running, Transact, world
<1>4. CASE ~(SendPlannedList \/ SendPlannedUpdate \/ SetMinDeposit)
  BY <1>4 DEF Next, Run, Skip, ReadRecords, MakePlan, RecordExternal, DeployContract, DeployProxy,
     CreateFund, CreatePool, InitializeContract, EnsureFact, ActivatePool, DepositSeed, AnswerSeed,
     Save, ForgetRecord, RewriteRecord, DropNewRecord, RestoreRecord,
     Crash, Start, NewRelease, Transact, world
<1>. QED BY <1>1, <1>2, <1>3, <1>4

\* What is true on the chain stays true.
LEMMA FactsGrow ==
  ASSUME Next
  PROVE  facts \subseteq facts'
<1>1. facts' = facts \/ facts' = facts \cup {Name}
  BY DEF Next, Run, Skip, ReadRecords, MakePlan, RecordExternal, DeployContract, DeployProxy,
     CreateFund, CreatePool, InitializeContract, EnsureFact, ActivatePool, DepositSeed, AnswerSeed,
     SendPlannedList, SendPlannedUpdate, SetMinDeposit,
     Save, ForgetRecord, RewriteRecord, DropNewRecord, RestoreRecord,
     Crash, Start, NewRelease, Transact, world
<1>. QED BY <1>1

CalmNext == Calm /\ Next /\ faults = 0 /\ faults' = 0

\* Where such a run goes.
LEMMA CalmReach ==
  ASSUME CalmNext
  PROVE  /\ DeploymentInv' /\ Steps' = Steps /\ network' = network /\ failures' = 0
         /\ \/ Op \in Saved /\ phase = "send" /\ Saves /\ Reach' = pc
            \/ Advance /\ Reach' = pc + 1 /\ (pc' = pc + 1 \/ complete')
<1>1. Calm /\ Next /\ pc # 0 /\ failures = 0 /\ ControlTypes /\ pc \in Nat
  BY CalmStep DEF CalmNext, Calm, Undisturbed
<1>2. DeploymentInv'
  BY <1>1, NextInv DEF Calm
<1>3. Steps' = Steps /\ network' = network
  BY <1>1, SameScripts
<1>4. CASE Op \in Saved /\ phase = "send" /\ Saves
  BY <1>1, <1>2, <1>3, <1>4 DEF Saves, Reach
<1>5. CASE Advance
  <2>1. Reach' = pc + 1 /\ failures' = 0
    BY <1>1, <1>3, <1>5, AdvancedOnce
  <2>2. pc' = pc + 1 \/ complete'
    BY <1>5 DEF Advance, AdvanceBy
  <2>. QED BY <1>2, <1>3, <1>5, <2>1, <2>2
<1>. QED BY <1>4, <1>5, CalmMove DEF CalmNext

\* The actions of some of the steps.
LEMMA CalmActions ==
  ASSUME CalmNext
  PROVE  /\ Op = "ensure" => Skip \/ EnsureFact
         /\ Op = "activate" => Skip \/ ActivatePool
         /\ Op = "initialize" => Skip \/ InitializeContract
         /\ Op = "list" => Skip \/ SendPlannedList
         /\ Op = "survey" => MakePlan
         /\ phase = "save" => Save
<1>1. pc # 0 /\ ~Fault /\ Next /\ (phase = "save" => Op \in Saved)
  <2>1. faults' # faults + 1
    BY DEF CalmNext
  <2>. QED BY <2>1, CalmStep DEF CalmNext, Fault, Calm, ControlTypes
<1>2. Op \in {"ensure", "activate", "initialize", "list", "survey"} => phase # "save"
  BY <1>1 DEF Saved
<1>3. Run
  BY <1>1 DEF Next, Crash, Start, NewRelease
<1>4. Op = "survey" => Needed
  BY DEF Needed
<1>5. phase = "save" => Save
  BY <1>1, <1>3
     DEF Run, Skip, ReadRecords, MakePlan, RecordExternal, DeployContract, DeployProxy, EnsureFact,
         CreateFund, CreatePool, InitializeContract, ActivatePool, DepositSeed, AnswerSeed, Running, Saved,
         SendPlannedList, SendPlannedUpdate, SetMinDeposit, ForgetRecord, RewriteRecord,
         DropNewRecord, RestoreRecord, Transact
<1>. QED BY <1>2, <1>3, <1>4, <1>5
         DEF Run, Skip, ReadRecords, MakePlan, RecordExternal, DeployContract, DeployProxy, EnsureFact,
             CreateFund, CreatePool, InitializeContract, ActivatePool, DepositSeed, AnswerSeed, Running,
             SendPlannedList, SendPlannedUpdate, SetMinDeposit, Save, ForgetRecord, RewriteRecord,
             DropNewRecord, RestoreRecord

\* What a run ensured, or found, is so.
LEMMA CalmFacts ==
  ASSUME CalmNext
  PROVE  PassedFacts'
<1>1. Calm /\ Next /\ Steps' = Steps /\ facts \subseteq facts' /\ pc \in Nat /\ Reach = pc
  BY CalmReach, CalmStep, FactsGrow DEF CalmNext
<1>2. ASSUME NEW i \in DOMAIN Steps, i < Reach', Steps[i].op \in {"ensure", "activate"}
      PROVE  Steps[i].name \in facts'
  <2>1. i < pc => Steps[i].name \in facts
    BY <1>1, <1>2 DEF Calm, Undisturbed, PassedFacts, PassedFact
  <2>2. ASSUME i = pc, Advance PROVE Name \in facts'
    <3>1. Op \in {"ensure", "activate"} /\ pc # 0
      BY <1>1, <1>2, <2>2, CalmStep DEF Does, Calm
    <3>2. CASE Skip
      BY <1>1, <3>1, <3>2 DEF Skip, Needed
    <3>3. CASE EnsureFact \/ ActivatePool
      <4>1. facts' = facts \cup {Name}
        <5>1. ~Fault
          BY <1>1, CalmStep DEF CalmNext, Fault, Calm
        <5>2. Name \notin facts
          BY <1>1, <3>1, <3>3 DEF EnsureFact, ActivatePool, Transact, Needed, Calm, Undisturbed
        <5>3. Op = "activate" => core.minDeposit = 0
          BY <1>1, <3>1, <3>3, AcceptsOthers DEF EnsureFact, ActivatePool, Transact, Calm, Undisturbed
        <5>. QED BY <3>3, <5>1, <5>2, <5>3 DEF EnsureFact, ActivatePool, Transact, Running
      <4>. QED BY <4>1
    <3>. QED BY <3>1, <3>2, <3>3, CalmActions
  <2>3. i < pc \/ (i = pc /\ Advance)
    BY <1>1, <1>2, CalmReach, CalmStep
  <2>4. i = pc => Steps[i].name = Name
    BY <1>1, CalmStep DEF Does
  <2>. QED BY <1>1, <2>1, <2>2, <2>3, <2>4
<1>. QED BY <1>1, <1>2 DEF PassedFacts, PassedFact

\* An initializer that is accepted initializes its contract.
LEMMA InitializerWorks ==
  ASSUME DeploymentInv, LinksInv, Next, pc # 0, Op = "initialize",
         chain' = [chain EXCEPT ![Name][records[Name].id].links = Links(step.args)]
  PROVE  \A n : n = Name => Initialized(n)'
<1>1. /\ Name \in Names /\ Recorded(Name) /\ records[Name].id \in DOMAIN chain[Name] /\ step.args # {}
      /\ ControlTypes
  BY InitializedBefore DEF DeploymentInv
<1>2. chain \in [Names -> Seq(Instances)]
  BY DEF DeploymentInv, DataInv, DataTypes
<1>3. pc \in DOMAIN Steps /\ Steps[pc].op = "initialize" /\ Steps[pc].name = Name
  BY <1>1, AtStep DEF Op, Name
<1>4. records'[Name].id = records[Name].id /\ \A n : n = Name => Recorded(n)'
  BY <1>1, <1>3, ProxyAddressKept
<1> DEFINE new == [chain[Name][records[Name].id] EXCEPT !.links = Links(step.args)]
<1>5. chain' = [chain EXCEPT ![Name] = [@ EXCEPT ![records[Name].id] = new]]
  OBVIOUS
<1>6. new.links = Links(step.args)
  <2>1. chain[Name][records[Name].id] \in Instances
    BY <1>1, <1>2
  <2>. QED BY <2>1 DEF Instances
<1>7. DOMAIN Links(step.args) = step.args /\ DOMAIN <<>> = {}
  BY RecordedLinks
<1>8. Links(step.args) # <<>>
  BY <1>1, <1>7
<1>. HIDE DEF new
<1>9. chain'[Name][records[Name].id] = new
  BY <1>1, <1>2, <1>5
<1>. QED BY <1>4, <1>6, <1>8, <1>9 DEF Initialized, RecordedInstance

\* The core stays ready.
LEMMA CoreStays ==
  ASSUME DeploymentInv, LinksInv, Next, CoreReady
  PROVE  CoreReady'
<1>1. PICK i \in DOMAIN Steps : Does(Steps, i, "initialize", "UFarmCore")
  BY OrderAssumption DEF DeploymentInv, ControlTypes, Steps, ReachesItsEnd
<1>. QED BY <1>1, InitializedStays DEF CoreReady, Does

\* What a run initialized, or found, is initialized.
LEMMA CalmProxies ==
  ASSUME CalmNext
  PROVE  PassedProxies'
<1>1. /\ Calm /\ Next /\ Steps' = Steps /\ pc \in Nat /\ Reach = pc
      /\ DeploymentInv /\ LinksInv /\ PassedProxies /\ pc # 0
  BY CalmReach, CalmStep DEF CalmNext, Calm, Undisturbed
<1>2. ASSUME NEW i \in DOMAIN Steps, i < Reach', Steps[i].op = "initialize", NEW n, n = Steps[i].name
      PROVE  Initialized(n)' \/ (n = "PriceOracle" /\ CoreReady')
  <2>1. CASE i < pc
    <3>1. Initialized(n) \/ (n = "PriceOracle" /\ CoreReady)
      BY <1>1, <1>2, <2>1 DEF PassedProxies
    <3>. QED BY <1>1, <1>2, <3>1, InitializedStays, CoreStays
  <2>2. CASE i = pc /\ Advance
    <3>1. Op = "initialize" /\ n = Name
      BY <1>1, <1>2, <2>2, CalmStep DEF Does
    <3>2. CASE Skip
      <4>1. Initialized(n) \/ (n = "PriceOracle" /\ CoreReady)
        BY <3>1, <3>2 DEF Skip, Needed
      <4>. QED BY <1>1, <1>2, <4>1, InitializedStays, CoreStays
    <3>3. CASE InitializeContract
      <4>1. ~Fault /\ Needed
        <5>1. faults' # faults + 1
          BY DEF CalmNext
        <5>. QED BY <1>1, <3>3, <5>1 DEF Fault, Calm, Undisturbed, InitializeContract, Transact
      <4>2. InitializerAccepted
        BY <1>1, <3>1, <4>1, AcceptsInitializer
      <4>3. chain' = [chain EXCEPT ![Name][records[Name].id].links = Links(step.args)]
        BY <3>3, <4>1, <4>2 DEF InitializeContract, Transact
      <4>. QED BY <1>1, <3>1, <4>3, InitializerWorks
    <3>. QED BY <3>1, <3>2, <3>3, CalmActions
  <2>. QED BY <1>1, <1>2, <2>1, <2>2, CalmReach, CalmStep
<1>3. \A i \in DOMAIN Steps : i < Reach' /\ Steps[i].op = "initialize" =>
        \A n : n = Steps[i].name => Initialized(n)' \/ (n = "PriceOracle" /\ CoreReady')
  BY <1>2
<1>. QED BY <1>1, <1>3 DEF PassedProxies

\* The minimum deposit is set after the pools were activated.
LEMMA CalmDeposit ==
  ASSUME CalmNext
  PROVE  DepositRule'
<1>1. /\ Calm /\ Next /\ Steps' = Steps /\ pc \in Nat /\ Reach = pc /\ pc # 0 /\ facts \subseteq facts'
      /\ ControlTypes /\ DataInv /\ DepositRule
  BY CalmReach, CalmStep, FactsGrow DEF CalmNext, Calm, Undisturbed
<1>2. pc \in DOMAIN Steps /\ step = Steps[pc] /\ Steps[pc].op = Op
  BY CalmStep, <1>1 DEF Does
<1>3. core \in [controllers : [Controllers("local") -> Nat], listed : SUBSET FeedTokens,
               feeds : [Tokens -> Nat], valueTokens : SUBSET ValueTokens, minDeposit : Nat]
  BY <1>1 DEF DataInv, DataTypes
<1>4. \A i \in DOMAIN Steps : i < Reach => i < Reach'
  <2>1. Reach' \in {pc, pc + 1} /\ DOMAIN Steps = 1..Len(Steps)
    BY <1>1, CalmReach, CalmStep
  <2>. QED BY <1>1, <2>1
<1>5. CASE core'.minDeposit = core.minDeposit
  <2>1. \A i \in DOMAIN Steps : PassedFact(i) => PassedFact(i)'
    BY <1>1 DEF PassedFact
  <2>. QED BY <1>1, <1>4, <1>5, <2>1 DEF DepositRule
<1>6. CASE Op = "minDeposit" /\ core' = [core EXCEPT !.minDeposit = step.args]
  <2>1. core'.minDeposit = Steps[pc].args
    BY <1>2, <1>3, <1>6
  <2>2. pc < Reach'
    BY <1>1, <1>6, CalmReach DEF Saved
  <2>. QED BY <1>1, <1>2, <1>6, <2>1, <2>2 DEF DepositRule
<1>7. CASE core' = Listed /\ Op = "list"
  <2>1. Name \in {"tokens", "valueTokens", "controllers"}
    BY <1>1, <1>7, ListNames
  <2>2. core'.minDeposit = core.minDeposit
    BY <1>3, <1>7, <2>1 DEF Listed
  <2>. QED BY <1>5, <2>2
<1>8. CASE core' = Updated /\ Op = "update" /\ UpdateAccepted
  <2>1. Name \in {"feed", "controllers"}
    BY <1>8 DEF UpdateAccepted
  <2>2. core'.minDeposit = core.minDeposit
    BY <1>3, <1>8, <2>1 DEF Updated
  <2>. QED BY <1>5, <2>2
<1>. QED BY <1>1, <1>5, <1>6, <1>7, <1>8, CoreSteps

\* A sequence that is not empty has a first element.
LEMMA NotEmpty ==
  ASSUME NEW S, NEW s \in Seq(S), s # <<>>
  PROVE  1 \in DOMAIN s
OBVIOUS

\* The record of a fund stays.
LEMMA FundStaysRecorded ==
  ASSUME DeploymentInv, Next, NEW i \in DOMAIN Steps, Steps[i].op = "fund", Recorded(Steps[i].name)
  PROVE  \A n : n = Steps[i].name => Recorded(n)'
<1> DEFINE n == Steps[i].name
<1>1. ControlTypes /\ DataInv /\ n \in Names
  BY NamesMade DEF DeploymentInv, ControlTypes, Steps, Making
<1>2. ~(pc # 0 /\ Op \in Replacing /\ n = Name)
  <2> SUFFICES ASSUME pc # 0, Op \in Replacing, n = Name PROVE FALSE
    OBVIOUS
  <2>1. PICK k \in DOMAIN Steps : Does(Steps, k, "deploy", Name) \/ Does(Steps, k, "upgraded", Name)
    BY <1>1, ReplacingSteps
  <2>. QED BY <1>1, <2>1, MadeOnce DEF Does, Making
<1>3. records'[n].id = records[n].id /\ records[n].id # 0
  BY <1>1, <1>2, AddressKept, RecordedId
<1>. QED BY <1>3 DEF Recorded, NoRecord

\* A fund that was created is recorded by the next step.
LEMMA CalmFunds ==
  ASSUME CalmNext
  PROVE  FundsSaved'
<1>1. /\ Calm /\ Next /\ Steps' = Steps /\ pc \in Nat /\ pc # 0 /\ DeploymentInv /\ FundsSaved
      /\ ControlTypes /\ DataTypes /\ Does(Steps, pc, Op, Name)
  BY CalmReach, CalmStep DEF CalmNext, Calm, Undisturbed, DataInv
<1>2. ASSUME NEW i \in DOMAIN Steps, Steps[i].op = "fund", NEW n, n = Steps[i].name, chain'[n] # <<>>
      PROVE  Recorded(n)' \/ (phase' = "save" /\ i = pc')
  <2>1. n \in Names
    BY <1>1, <1>2, NamesMade DEF ControlTypes, Steps, Making
  <2>2. CASE Recorded(n)
    BY <1>1, <1>2, <2>2, FundStaysRecorded
  <2>3. CASE phase = "save" /\ i = pc
    <3>1. Save /\ Op = "fund" /\ Name = n
      BY <1>1, <1>2, <2>3, CalmActions DEF Does
    <3> DEFINE latest == [id |-> Len(chain[Name]), abi |-> version]
    <3>2. records' = [records EXCEPT ![Name] = latest]
      BY <3>1 DEF Save
    <3>3. Len(chain[Name]) \in Nat \ {0}
      <4>1. chain[Name] # <<>> /\ chain[Name] \in Seq(Instances)
        BY <1>1, <2>1, <2>3, <3>1 DEF DeploymentInv, PlaceInv, DecidedInv, DataTypes
      <4>. QED BY <4>1
    <3>4. records'[n] # NoRecord
      BY <1>1, <2>1, <3>1, <3>2, <3>3 DEF DataTypes, NoRecord
    <3>. QED BY <3>4 DEF Recorded
  <2>4. CASE chain[n] = <<>>
    <3>1. PICK k \in DOMAIN chain'[n] \ DOMAIN chain[n] : TRUE
      <4>1. chain'[n] \in Seq(Instances)'
        <5>1. DeploymentInv'
          BY CalmReach
        <5>. QED BY <2>1, <5>1 DEF DeploymentInv, DataInv, DataTypes
      <4>2. 1 \in DOMAIN chain'[n] /\ DOMAIN <<>> = {}
        BY <1>2, <4>1, NotEmpty
      <4>. QED BY <2>4, <4>2
    <3>2. Op \in Saved /\ n = Name
      BY <1>1, <2>1, <3>1, Instance
    <3>3. i = pc
      BY <1>1, <1>2, <3>2, BuilderMakes DEF Saved, Making
    <3>4. chain' # chain
      BY <1>2, <2>4
    <3>5. phase = "send"
      <4>1. phase # "save"
        BY <3>4, CalmActions DEF Save, world
      <4>. QED BY <1>1, <4>1 DEF ControlTypes
    <3>6. Saves
      BY <3>2, <3>4, <3>5, CalmMove DEF CalmNext
    <3>. QED BY <3>3, <3>6 DEF Saves
  <2>. QED BY <1>1, <1>2, <2>2, <2>3, <2>4 DEF FundsSaved
<1>3. \A i \in DOMAIN Steps : Steps[i].op = "fund" =>
        \A n : n = Steps[i].name /\ chain'[n] # <<>> => Recorded(n)' \/ (phase' = "save" /\ i = pc')
  BY <1>2
<1>. QED BY <1>1, <1>3 DEF FundsSaved

\* A run ends when the core is ready and the tokens are listed.
LEMMA CalmEnd ==
  ASSUME CalmNext, complete'
  PROVE  /\ CoreReady'
         /\ \A i \in DOMAIN Steps : Does(Steps, i, "list", "tokens") => core'.listed = FeedTokens
<1>1. DeploymentInv' /\ Steps' = Steps
  BY CalmReach
<1>2. (DeploymentInv => CompleteRunIsConsistent)'
  BY CompleteIsConsistent, PTL
<1>3. CoreReady'
  BY <1>1, <1>2 DEF CompleteRunIsConsistent
<1>4. ASSUME NEW i \in DOMAIN Steps, Does(Steps, i, "list", "tokens") PROVE core'.listed = FeedTokens
  <2>1. pc' = 0 /\ Reach' = Len(Steps) + 1 /\ core'.listed \subseteq FeedTokens
    BY <1>1 DEF DeploymentInv, ControlTypes, DataInv, DataTypes, Reach
  <2>2. i < Reach'
    BY <2>1, CalmStep DEF CalmNext
  <2>3. PassedLists(i)'
    BY <1>1, <2>2 DEF DeploymentInv, PlaceInv, PassedInv, Passed
  <2>. QED BY <1>1, <1>4, <2>1, <2>3 DEF PassedLists, Does, Universe, Told
<1>. QED BY <1>3, <1>4

\* The oracle is initialized by the run that initializes the core.
LEMMA CalmOracle ==
  ASSUME CalmNext
  PROVE  OracleTogether'
<1>1. /\ Calm /\ Next /\ Steps' = Steps /\ pc \in Nat /\ DeploymentInv /\ LinksInv /\ OracleTogether
      /\ DOMAIN Steps = 1..Len(Steps)
  BY CalmReach, CalmStep DEF CalmNext, Calm, Undisturbed
<1>2. ASSUME NEW i \in DOMAIN Steps, Does(Steps, i, "initialize", "PriceOracle"), Initialized("PriceOracle")'
      PROVE  CoreReady' \/ i < pc'
  <2>1. CASE CoreReady
    BY <1>1, <2>1, CoreStays
  <2>2. CASE i < pc \/ (i = pc /\ Op = "initialize")
    <3>1. complete' \/ pc' = pc + 1 \/ (Op \in Saved /\ pc' = pc)
      BY CalmReach DEF Saves
    <3>2. "initialize" \notin Saved
      BY DEF Saved
    <3>. QED BY <1>1, <2>2, <3>1, <3>2, CalmEnd
  <2>3. Initialized("PriceOracle") \/ (pc = i /\ Op = "initialize")
    BY <1>1, <1>2, InitializedStays DEF Does
  <2>. QED BY <1>1, <1>2, <2>1, <2>2, <2>3 DEF OracleTogether
<1>. QED BY <1>1, <1>2 DEF OracleTogether

\* The token that is delisted is listed by the same run.
LEMMA CalmFeed ==
  ASSUME CalmNext
  PROVE  FeedTogether'
<1>1. /\ Calm /\ Next /\ Steps' = Steps /\ pc \in Nat /\ DeploymentInv /\ FeedTogether /\ ControlTypes
      /\ DOMAIN Steps = 1..Len(Steps) /\ Len(Steps) \in Nat /\ Does(Steps, pc, Op, Name) /\ pc # 0
  BY CalmReach, CalmStep DEF CalmNext, Calm, Undisturbed
<1>2. core \in [controllers : [Controllers("local") -> Nat], listed : SUBSET FeedTokens,
               feeds : [Tokens -> Nat], valueTokens : SUBSET ValueTokens, minDeposit : Nat]
  BY <1>1 DEF DeploymentInv, DataInv, DataTypes
<1>3. ASSUME NEW i \in DOMAIN Steps, Does(Steps, i, "update", "feed"), core'.feeds["WSTETH"] # 0
      PROVE  "WSTETH" \in core'.listed \/ i < pc'
  <2>1. AcceptsInOrder(Steps, i)
    BY <1>1, AcceptanceAssumption DEF ControlTypes, Steps
  <2>2. "WSTETH" \in FeedTokens /\ \E j \in DOMAIN Steps : Does(Steps, j, "list", "tokens")
    BY <1>3, <2>1 DEF AcceptsInOrder
  <2>3. CASE complete'
    BY <2>2, <2>3, CalmEnd
  <2>4. pc' = pc \/ pc' = pc + 1 \/ complete'
    BY CalmReach DEF Saves
  <2>5. CASE i < pc
    BY <1>1, <2>3, <2>4, <2>5
  <2>6. CASE ~(i < pc) /\ core' = core
    BY <1>1, <1>3, <2>6 DEF FeedTogether
  <2>7. CASE ~(i < pc) /\ Op = "list" /\ core' = Listed
    <3>1. Name \in {"tokens", "valueTokens", "controllers"}
      BY <1>1, <2>7, ListNames
    <3>2. CASE Name = "tokens"
      <4>1. core'.listed = core.listed \cup plan.list
        BY <1>2, <2>7, <3>2 DEF Listed
      <4>2. "WSTETH" \notin plan.list => core'.feeds["WSTETH"] = core.feeds["WSTETH"]
        BY <1>2, <2>2, <2>7, <3>2 DEF Listed, FeedTokens
      <4>. QED BY <1>1, <1>3, <2>7, <4>1, <4>2 DEF FeedTogether
    <3>3. CASE Name # "tokens"
      <4>1. core'.listed = core.listed /\ core'.feeds = core.feeds
        BY <1>2, <2>7, <3>1, <3>3 DEF Listed
      <4>. QED BY <1>1, <1>3, <2>7, <4>1 DEF FeedTogether
    <3>. QED BY <3>2, <3>3
  <2>8. CASE ~(i < pc) /\ Op = "update" /\ UpdateAccepted /\ core' = Updated
    <3>1. CASE Name = "feed"
      <4>1. i = pc
        <5>1. pc \in DOMAIN Steps /\ Does(Steps, pc, "update", "feed")
          BY <1>1, <2>8, <3>1 DEF Does
        <5>2. pc \notin 1..(i - 1)
          BY <1>3, <2>1, <5>1 DEF AcceptsInOrder
        <5>. QED BY <1>1, <2>8, <5>1, <5>2
      <4>2. pc' = pc + 1 \/ complete'
        BY <2>8, CalmReach DEF Saved
      <4>. QED BY <1>1, <2>3, <4>1, <4>2
    <3>2. CASE Name = "controllers"
      <4>1. core'.listed = core.listed /\ core'.feeds = core.feeds
        BY <1>2, <2>8, <3>2 DEF Updated
      <4>. QED BY <1>1, <1>3, <2>8, <4>1 DEF FeedTogether
    <3>. QED BY <2>8, <3>1, <3>2 DEF UpdateAccepted
  <2>9. CASE ~(i < pc) /\ core' = [core EXCEPT !.minDeposit = step.args]
    <3>1. core'.listed = core.listed /\ core'.feeds = core.feeds
      BY <1>2, <2>9
    <3>. QED BY <1>1, <1>3, <2>9, <3>1 DEF FeedTogether
  <2>. QED BY <1>1, <2>5, <2>6, <2>7, <2>8, <2>9, CoreSteps
<1>. QED BY <1>1, <1>3 DEF FeedTogether

\* What a survey finds is not refused.
LEMMA SurveyIsFresh ==
  ASSUME Calm, Op = "survey"
  PROVE  /\ PlanFor(Name).list \cap Told(Name) = {} \/ Name = "feed"
         /\ Name = "feed" => PlanFor(Name).list = {} /\
                             (PlanFor(Name).update # {} => core.feeds["WSTETH"] # 0)
         /\ Name = "tokens" => PlanFor(Name).update = {}
         /\ Name = "controllers" => \A c \in PlanFor(Name).update : core.controllers[c] # 0
<1>1. ControlTypes /\ DataInv /\ pc # 0
  BY CalmStep DEF Calm
<1>2. PlanFor(Name).list \cap Told(Name) = {} \/ Name = "feed"
  <2>1. Name # "feed" => PlanFor(Name).list = Universe(Name) \ Told(Name)
    BY <1>1, PlanTypes
  <2>. QED BY <2>1
<1>3. Name = "feed" => PlanFor(Name) = FeedPlan
  BY DEF PlanFor
<1>4. FeedPlan.list = {} /\ (FeedPlan.update # {} => core.feeds["WSTETH"] # 0)
  BY DEF FeedPlan
<1>5. Name = "tokens" => PlanFor(Name).update = {}
  <2>1. TokenPlan.update = {}
    BY <1>1 DEF TokenPlan, DataInv, FeedsInv
  <2>. QED BY <2>1 DEF PlanFor
<1>6. Name = "controllers" => \A c \in PlanFor(Name).update : core.controllers[c] # 0
  BY DEF PlanFor, ControllerPlan
<1>. QED BY <1>2, <1>3, <1>4, <1>5, <1>6

\* No plan has anything in it that the core refuses.
LEMMA CalmPlan ==
  ASSUME CalmNext
  PROVE  FreshPlan'
<1>1. /\ Calm /\ Next /\ network' = network /\ pc \in Nat /\ FreshPlan /\ FeedTogether /\ ControlTypes
      /\ DataTypes /\ PlanInv /\ pc # 0 /\ plan \in [list : SUBSET Plannable, update : SUBSET Plannable, old : RecordType]
  BY CalmReach, CalmStep DEF CalmNext, Calm, Undisturbed, DataInv, PlaceInv, ControlTypes
<1>2. core \in [controllers : [Controllers("local") -> Nat], listed : SUBSET FeedTokens,
               feeds : [Tokens -> Nat], valueTokens : SUBSET ValueTokens, minDeposit : Nat]
  BY <1>1 DEF DataTypes
<1>3. CASE Op' \notin {"list", "update"}
  BY <1>3 DEF FreshPlan
<1>4. CASE Op' \in {"list", "update"}
  <2>1. Advance
    <3>1. Op \in Saved /\ Saves => Op' = Op
      BY DEF Saves, Op
    <3>. QED BY <1>4, <3>1, CalmReach DEF Saved
  <2>2. Name' = Name /\ (Op' = "list" => Op = "survey") /\ Op \in {"survey", "list"}
    BY <1>1, <1>4, <2>1, AfterListing
  <2>3. CASE Op = "survey"
    <3>1. core' = core /\ plan' = [plan EXCEPT !.list = PlanFor(Name).list, !.update = PlanFor(Name).update]
      BY <2>3, CalmActions DEF MakePlan, world
    <3>2. plan'.list = PlanFor(Name).list /\ plan'.update = PlanFor(Name).update
      BY <1>1, <3>1
    <3>3. Op' = "list" => plan'.list \cap Told(Name) = {}
      BY <1>1, <2>3, <3>2, SurveyIsFresh
    <3>4. Told(Name)' = Told(Name)
      BY <1>1, <2>2, <3>1 DEF Told
    <3>5. Op' = "update" /\ Name = "feed" /\ plan'.update # {} => "WSTETH" \in core.listed
      <4> SUFFICES ASSUME Op' = "update", Name = "feed", plan'.update # {} PROVE "WSTETH" \in core.listed
        OBVIOUS
      <4>1. pc + 1 \in DOMAIN Steps /\ Does(Steps, pc + 1, "update", "feed")
        BY <1>1, <2>1, <2>2, AdvancedOnce
      <4>2. core.feeds["WSTETH"] # 0
        BY <1>1, <2>3, <3>2, SurveyIsFresh
      <4>3. ~(pc + 1 < pc)
        BY <1>1
      <4>. QED BY <1>1, <4>1, <4>2, <4>3 DEF FeedTogether
    <3>. QED BY <1>1, <2>2, <2>3, <3>1, <3>2, <3>3, <3>4, <3>5, SurveyIsFresh DEF FreshPlan
  <2>4. CASE Op = "list"
    <3>1. plan' = plan /\ (core' = core \/ core' = Listed)
      <4>1. ~Fault /\ ListAccepted
        <5>1. faults' # faults + 1
          BY DEF CalmNext
        <5>. QED BY <1>1, <2>4, <5>1, AcceptsList DEF Fault
      <4>2. CASE Skip
        BY <4>2 DEF Skip, world
      <4>3. CASE SendPlannedList
        BY <4>1, <4>3 DEF SendPlannedList, Transact, Confirmed
      <4>. QED BY <2>4, <4>2, <4>3, CalmActions
    <3>2. Op' = "update" /\ Name \in {"tokens", "valueTokens", "controllers"}
      BY <1>1, <1>4, <2>2, <2>4, ListNames
    <3>3. Name = "tokens" => plan'.update = {}
      BY <1>1, <2>4, <3>1 DEF FreshPlan
    <3>4. ASSUME Name = "controllers", NEW c \in plan'.update PROVE core'.controllers[c] # 0
      <4>1. core.controllers[c] # 0 /\ c \in Controllers(network) /\ c \in Controllers("local")
        BY <1>1, <2>4, <3>1, <3>4, ControllersAreNames DEF FreshPlan, PlanInv
      <4>2. c \notin plan.list
        BY <1>1, <2>4, <3>4, <4>1 DEF FreshPlan, Told
      <4>3. core' = Listed => core'.controllers[c] = core.controllers[c]
        BY <1>2, <3>4, <4>1, <4>2 DEF Listed
      <4>. QED BY <3>1, <4>1, <4>3
    <3>. QED BY <2>2, <3>2, <3>3, <3>4 DEF FreshPlan
  <2>. QED BY <2>2, <2>3, <2>4
<1>. QED BY <1>3, <1>4

\* The next run, or the next release, begins undisturbed when the last run was.
LEMMA IdleNext ==
  ASSUME DeploymentInv, LinksInv, Undisturbed, Next, pc = 0
  PROVE  Undisturbed'
<1>1. /\ ControlTypes /\ DeploymentInv' /\ Steps' = Steps /\ phase = "send" /\ failures = 0
      /\ DOMAIN Steps = 1..Len(Steps) /\ Len(Steps) \in Nat \ {0}
  BY NextInv, SameScripts, OrderAssumption DEF DeploymentInv, ControlTypes, Steps, Undisturbed
<1>2. /\ Start \/ NewRelease
      /\ failures' = 0 /\ UNCHANGED <<chain, core, facts, records, phase>> /\ Reach' = 1
      /\ \/ pc' = 1 /\ step' = Steps[1] /\ ~complete
         \/ pc' = 0 /\ step' = NoStep
  <2>1. Start \/ NewRelease
    BY <1>1 DEF Next, Run, Skip, ReadRecords, MakePlan, RecordExternal, DeployContract, DeployProxy,
       CreateFund, CreatePool, InitializeContract, EnsureFact, ActivatePool, DepositSeed, AnswerSeed,
       SendPlannedList, SendPlannedUpdate, SetMinDeposit, Running,
       Save, ForgetRecord, RewriteRecord, DropNewRecord, RestoreRecord, Crash
  <2>. QED BY <1>1, <2>1 DEF Start, NewRelease, Reach, world, ControlTypes, Steps
<1>3. \A n : Recorded(n)' = Recorded(n) /\ Initialized(n)' = Initialized(n)
  BY <1>2 DEF Recorded, Initialized, RecordedInstance
<1>4. CoreReady' = CoreReady
  BY <1>3 DEF CoreReady
<1>5. FundsSaved'
  BY <1>1, <1>2, <1>3 DEF Undisturbed, FundsSaved
<1>6. OracleTogether'
  <2>1. \A i \in DOMAIN Steps : ~(i < pc)
    BY <1>1
  <2>. QED BY <1>1, <1>3, <1>4, <2>1 DEF Undisturbed, OracleTogether
<1>7. FeedTogether'
  <2>1. \A i \in DOMAIN Steps : ~(i < pc)
    BY <1>1
  <2>. QED BY <1>1, <1>2, <2>1 DEF Undisturbed, FeedTogether
<1>8. FreshPlan'
  <2>1. Op' \notin {"list", "update"}
    <3>1. CASE step' = NoStep
      BY <3>1, NoStepOp DEF Op
    <3>2. CASE step' = Steps[1]
      <4>1. 1 \in DOMAIN Steps /\ 0 \notin DOMAIN Steps /\ 1 - 1 = 0
        BY <1>1
      <4>2. Op' = Steps[1].op
        BY <3>2 DEF Op
      <4>3. Does(Steps, 1, Op', Steps[1].name)
        BY <4>1, <4>2 DEF Does
      <4>4. \A name, op : ~Does(Steps, 1 - 1, op, name)
        BY <4>1 DEF Does
      <4>. QED BY <1>1, <4>1, <4>3, <4>4, StepBefore
    <3>. QED BY <1>2, <3>1, <3>2
  <2>. QED BY <2>1 DEF FreshPlan
<1>9. PassedFacts' /\ PassedProxies'
  <2>1. \A i \in DOMAIN Steps : ~(i < Reach')
    BY <1>1, <1>2
  <2>. QED BY <1>1, <2>1 DEF PassedFacts, PassedProxies
<1>10. DepositRule'
  <2>1. CASE core.minDeposit = 0
    BY <1>2, <2>1 DEF DepositRule
  <2>2. CASE \A i \in DOMAIN Steps : PassedFact(i)
    BY <1>1, <1>2, <2>2 DEF DepositRule, PassedFact
  <2>3. CASE complete
    <3>1. \A i \in DOMAIN Steps : i < Reach
      BY <1>1, <2>3 DEF Reach
    <3>. QED BY <2>2, <3>1 DEF Undisturbed, PassedFacts
  <2>4. CASE ~complete
    <3>1. \A i \in DOMAIN Steps : ~(i < Reach)
      BY <1>1, <2>4 DEF Reach
    <3>. QED BY <2>1, <2>2, <3>1 DEF Undisturbed, DepositRule
  <2>. QED BY <2>3, <2>4
<1>. QED BY <1>2, <1>5, <1>6, <1>7, <1>8, <1>9, <1>10 DEF Undisturbed

\* Nothing is linked, or lost, before anything is deployed.
LEMMA CleanInit ==
  ASSUME Init
  PROVE  CleanInv
<1>1. /\ pc = 0 /\ ~complete /\ failures = 0 /\ step = NoStep /\ core.minDeposit = 0
      /\ core.feeds = [t \in Tokens |-> 0]
      /\ \A n \in Names : chain[n] = <<>> /\ ~Recorded(n)
  BY DEF Init, Recorded
<1>2. ControlTypes /\ DOMAIN Steps = 1..Len(Steps) /\ Len(Steps) \in Nat
  BY InitInv, OrderAssumption DEF DeploymentInv, ControlTypes, Steps
<1>3. \A i \in DOMAIN Steps : Steps[i].op \in {"deploy", "initialize", "fund"} => Steps[i].name \in Names
  BY <1>2, NamesMade, InitializedName DEF Making, ControlTypes, Steps
<1>4. DOMAIN <<>> = {}
  OBVIOUS
<1>5. LinksInv
  BY <1>1, <1>3, <1>4 DEF LinksInv
<1>6. FundsSaved /\ OracleTogether
  BY <1>1, <1>3 DEF FundsSaved, OracleTogether, Initialized, Does
<1>7. FeedTogether
  <2>1. \A i \in DOMAIN Steps : Does(Steps, i, "update", "feed") => "WSTETH" \in Tokens
    BY <1>2, AcceptanceAssumption DEF AcceptsInOrder, ControlTypes, Steps, FeedTokens
  <2>. QED BY <1>1, <2>1 DEF FeedTogether
<1>8. FreshPlan
  BY <1>1, NoStepOp DEF FreshPlan, Op
<1>9. PassedFacts /\ PassedProxies
  <2>1. \A i \in DOMAIN Steps : ~(i < Reach)
    BY <1>1, <1>2 DEF Reach
  <2>. QED BY <2>1 DEF PassedFacts, PassedProxies
<1>. QED BY <1>1, <1>5, <1>6, <1>7, <1>8, <1>9 DEF CleanInv, Undisturbed, DepositRule

\* The number of faults never falls.
LEMMA FaultsGrow ==
  ASSUME DeploymentInv, Next, faults' = 0
  PROVE  faults = 0
<1>1. faults \in Nat
  BY DEF DeploymentInv, ControlTypes
<1>2. faults' = faults \/ faults' = faults + 1
  BY DEF Next, Run, Skip, ReadRecords, MakePlan, RecordExternal, DeployContract, DeployProxy,
     CreateFund, CreatePool, InitializeContract, EnsureFact, ActivatePool, DepositSeed, AnswerSeed,
     SendPlannedList, SendPlannedUpdate, SetMinDeposit, Fault, Confirmed,
     Save, ForgetRecord, RewriteRecord, DropNewRecord, RestoreRecord,
     Crash, Start, NewRelease, Transact
<1>. QED BY <1>1, <1>2

\* What holds as long as nothing disturbs the runs is inductive.
LEMMA CleanNext ==
  ASSUME DeploymentInv, CleanInv, [Next]_vars
  PROVE  CleanInv'
<1>1. CASE UNCHANGED vars
  <2>1. UNCHANGED <<network, records, chain, core, facts, pc, step, phase, failures, plan, complete, faults>>
    BY <1>1 DEF vars
  <2>2. /\ Steps' = Steps /\ Op' = Op /\ Name' = Name /\ Reach' = Reach
        /\ \A n : Recorded(n)' = Recorded(n) /\ Initialized(n)' = Initialized(n)
    BY <2>1 DEF Steps, Op, Name, Reach, Recorded, Initialized, RecordedInstance
  <2>3. CoreReady' = CoreReady
    BY <2>2 DEF CoreReady
  <2>4. LinksInv => LinksInv'
    BY <2>1, <2>2 DEF LinksInv
  <2>5. Undisturbed => Undisturbed'
    <3>1. \A i : PassedFact(i)' = PassedFact(i)
      BY <2>1, <2>2 DEF PassedFact
    <3>2. (FundsSaved => FundsSaved') /\ (OracleTogether => OracleTogether') /\ (FeedTogether => FeedTogether')
      BY <2>1, <2>2, <2>3 DEF FundsSaved, OracleTogether, FeedTogether
    <3>3. FreshPlan => FreshPlan'
      BY <2>1, <2>2 DEF FreshPlan, Told
    <3>4. (PassedFacts => PassedFacts') /\ (PassedProxies => PassedProxies') /\ (DepositRule => DepositRule')
      BY <2>1, <2>2, <2>3, <3>1 DEF PassedFacts, PassedProxies, DepositRule
    <3>. QED BY <2>1, <3>2, <3>3, <3>4 DEF Undisturbed
  <2>. QED BY <2>1, <2>4, <2>5 DEF CleanInv
<1>2. CASE Next
  <2>1. LinksInv'
    BY <1>2, LinksKept DEF CleanInv
  <2>2. ASSUME faults' = 0 PROVE Undisturbed'
    <3>1. faults = 0 /\ Undisturbed /\ LinksInv
      BY <1>2, <2>2, FaultsGrow DEF CleanInv
    <3>2. CASE pc = 0
      BY <1>2, <3>1, <3>2, IdleNext
    <3>3. CASE pc # 0
      <4>1. CalmNext
        BY <1>2, <2>2, <3>1, <3>3 DEF CalmNext, Calm
      <4>. QED BY <4>1, CalmReach, CalmFunds, CalmOracle, CalmFeed, CalmPlan, CalmFacts, CalmProxies,
                  CalmDeposit DEF Undisturbed
    <3>. QED BY <3>2, <3>3
  <2>. QED BY <2>1, <2>2 DEF CleanInv
<1>. QED BY <1>1, <1>2

\* CleanRunsEnd: a run without faults, after runs without faults, stops at no
\* step but its last.  No transaction is refused, as what it needs of the chain
\* was done before it, and what a release does again the chain accepts again.
THEOREM CleanRunsReachTheirEnd == Spec => CleanRunsEnd
<1> DEFINE Ends == (pc # 0 /\ pc' = 0 /\ faults' = 0) => complete'
<1>1. Init => DeploymentInv /\ CleanInv
  BY InitInv, CleanInit
<1>2. DeploymentInv /\ CleanInv /\ [Next]_vars => (DeploymentInv /\ CleanInv)'
  BY NextInv, CleanNext
<1>3. DeploymentInv /\ CleanInv /\ [Next]_vars => [Ends]_vars
  <2> SUFFICES ASSUME DeploymentInv, CleanInv, Next, pc # 0, pc' = 0, faults' = 0 PROVE complete'
    OBVIOUS
  <2>1. CalmNext
    BY FaultsGrow DEF CalmNext, Calm, CleanInv
  <2>2. pc \in Nat
    BY <2>1, CalmStep DEF CalmNext
  <2>. QED BY <2>1, <2>2, CalmReach DEF Saves
<1>. QED BY <1>1, <1>2, <1>3, PTL DEF Spec, CleanRunsEnd
=============================================================================
