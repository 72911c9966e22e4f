------------------------------ MODULE Deployment ------------------------------
(***************************************************************************)
(* A run of the deployment scripts: it sends transactions, writes a file   *)
(* for every contract it deploys (the records: deployments/<network>/), and *)
(* is run again when it fails, and for every release.  All it knows when   *)
(* it starts is the records and what the chain says.                       *)
(*                                                                         *)
(* A transaction may be mined though the script is told that it failed,    *)
(* or not be mined at all; the process may end anywhere.  Nobody else      *)
(* sends transactions that matter here.                                    *)
(*                                                                         *)
(* The contracts of this repository have immutable variables, so the code  *)
(* on the chain never equals the artifact: every run upgrades every proxy  *)
(* and beacon and deploys the replaceable controllers again.               *)
(***************************************************************************)
EXTENDS DeployScripts

CONSTANTS
  Deployed,      \* the environments in question
  MaxVersion,    \* bound of the releases
  MaxFaults,     \* bound of the faults in each environment
  MaxInstances   \* bound of the instances of a contract when a run begins

ASSUME DeploymentAssumption ==
  /\ Deployed \subseteq Environments
  /\ MaxAttempts \in Nat \ {0} /\ MaxVersion \in Nat \ {0}
  /\ MaxFaults \in [Environments -> Nat] /\ MaxInstances \in Nat

VARIABLES
  network,     \* the environment
  version,     \* of the artifacts
  records,     \* the recorded address (its number) and ABI of each contract
  newRecords,  \* the same for the names with _NEW
  chain,       \* the instances of each contract: their code and their links
  core,        \* what the recorded UFarmCore holds
  facts,       \* what else is true on the chain
  deposits,    \* of each pool: what is queued, and what is settled
  pc,          \* where the run is; 0 when none is running
  step,        \* what it does there
  phase,       \* "send" or, when a record is to be written, "save"
  failures,    \* failed attempts of the step
  plan,        \* what the run has read: from the core, and a record it replaces
  complete,    \* the last run reached its end
  faults

world   == <<chain, core, facts, deposits>>
disk    == <<records, newRecords>>
process == <<pc, step, phase, failures, plan, complete>>
vars == <<network, version, records, newRecords, chain, core, facts, deposits, pc, step, phase,
          failures, plan, complete, faults>>

Programs ==
  [local |-> Program("local"), sepolia |-> Program("sepolia"), production |-> Program("production")]

Op   == step.op
Name == step.name

NoStep == [op |-> "none", name |-> "", args |-> {}, attempts |-> 1]

\* The steps that make the contract they name, or record it.
Making == {"deploy", "upgraded", "proxy", "beacon", "external", "fund", "pool"}

\* The names a record may have.
Names ==
  LET namesIn(program) == {s.name : s \in {t \in ToSet(program) : t.op \in Making}}
  IN UNION {namesIn(Programs[e]) : e \in Deployed}
Pools == {"TestPool", "TestPool2", "TestPool3"}

\* The contracts that a run may give another address.
Replaceable(env) == Controllers(env) \cup {"WSTETHOracle"}

-----------------------------------------------------------------------------
(* What the proofs use of the scripts: the order of the steps              *)

Does(program, i, op, name) ==
  i \in DOMAIN program /\ program[i].op = op /\ program[i].name = name

\* What a program has made before a step.
MadeBefore(program, i) ==
  {program[j].name : j \in {k \in 1..(i - 1) : program[k].op \in Making}}

\* A contract is made once, by a step, from what was made before it, and linked
\* only to what is never replaced.
MakesInOrder(env, program, i) ==
  LET s == program[i]
      made == MadeBefore(program, i)
  IN /\ s.op \in Making => s.name \notin made
     /\ s.op \in {"read", "deploy", "upgraded", "initialize"} => s.args \subseteq made
     /\ s.op \in {"deploy", "upgraded", "initialize"} => s.args \cap Replaceable(env) = {}
     /\ s.op = "initialize" => /\ s.args # {}
                               /\ \E j \in 1..(i - 1) : Does(program, j, "proxy", s.name)

\* Lists are sent right after they were made, and when what they need is there;
\* no token is delisted after the tokens were listed.
ListsInOrder(env, program, i) ==
  LET s == program[i]
      made == MadeBefore(program, i)
  IN /\ s.op = "survey" => s.name \in {"feed", "tokens", "valueTokens", "controllers"}
     /\ s.op = "list" => /\ s.name \in {"tokens", "valueTokens", "controllers"}
                         /\ Does(program, i - 1, "survey", s.name)
     /\ s.op = "update" => /\ s.name \in {"feed", "tokens", "controllers"}
                           /\ \/ Does(program, i - 1, "survey", s.name)
                              \/ Does(program, i - 1, "list", s.name)
     /\ Does(program, i, "list", "tokens") => {Aggregator(t) : t \in FeedTokens} \subseteq made
     /\ Does(program, i, "list", "controllers") => Controllers(env) \subseteq made
     /\ Does(program, i, "update", "feed") =>
          \A j \in 1..(i - 1) : ~Does(program, j, "list", "tokens")

\* The record of a contract is replaced in three steps, after it was made and
\* the core was told of its new address.
ReplacesInOrder(env, program, i) ==
  LET s == program[i]
  IN /\ s.op = "forget" =>
          /\ s.name \in Replaceable(env) /\ s.args = 3
          /\ Does(program, i + 1, "rewrite", s.name) /\ Does(program, i + 2, "drop", s.name)
          /\ \E j \in 1..(i - 1) : Does(program, j, "deploy", s.name) \/ Does(program, j, "upgraded", s.name)
          /\ IF s.name = "WSTETHOracle" THEN Does(program, i - 1, "update", "feed")
             ELSE \/ Does(program, i - 1, "update", "controllers")
                  \/ \E c \in Controllers(env) : Does(program, i - 1, "drop", c)
     /\ s.op = "rewrite" => s.args = 2 /\ Does(program, i - 1, "forget", s.name)
     /\ s.op = "drop"    => s.args = 1 /\ Does(program, i - 1, "rewrite", s.name)

\* Every deposit of demonstration money is answered after it.
SeedsInOrder(program, i) ==
  LET s == program[i]
  IN /\ s.op \in {"deposit", "answer"} => s.name \in Pools
     /\ s.op = "deposit" => /\ \E j \in DOMAIN program : Does(program, j, "answer", s.name)
                            /\ \A j \in 1..(i - 1) : ~Does(program, j, "answer", s.name)

\* A program tells the core of everything it is to know.
ReachesItsEnd(env, program) ==
  LET Somewhere(op, name) == \E i \in DOMAIN program : Does(program, i, op, name)
  IN /\ Somewhere("initialize", "UFarmCore")
     /\ Somewhere("list", "controllers") /\ Somewhere("list", "valueTokens")
     /\ IsTestnet(env) => Somewhere("list", "tokens")

\* What a transaction needs of the chain was done by the steps before it, and a
\* token that is delisted is listed again.
AcceptsInOrder(program, i) ==
  LET s == program[i]
      Before(op, name) == \E j \in 1..(i - 1) : Does(program, j, op, name)
  IN /\ s.op = "initialize" => ~Before("initialize", s.name)
     /\ Does(program, i, "initialize", "UFarmCore") =>
          \A linked \in s.args :
            \E j \in 1..(i - 1) : /\ program[j].op \in {"deploy", "initialize"}
                                 /\ program[j].name = linked /\ "UFarmCore" \in program[j].args
     /\ s.op \in {"list", "minDeposit", "fund"} => Before("initialize", "UFarmCore")
     /\ s.op = "pool" => Before("ensure", "fund active")
     /\ s.op = "activate" => \A j \in 1..(i - 1) : program[j].op = "minDeposit" => program[j].args = 0
     /\ s.op = "deposit" => Before("activate", s.name)
     /\ Does(program, i, "update", "feed") =>
          /\ "WSTETH" \in FeedTokens /\ ~Before("update", "feed")
          /\ \E j \in DOMAIN program : j > i /\ Does(program, j, "list", "tokens")

ASSUME OrderAssumption ==
  \A env \in Deployed :
    LET program == Programs[env]
    IN /\ Len(program) \in Nat \ {0} /\ DOMAIN program = 1..Len(program)
       /\ ReachesItsEnd(env, program)
       /\ \A i \in DOMAIN program :
            /\ program[i].attempts \in Nat \ {0}
            /\ program[i].op = "minDeposit" => program[i].args \in Nat
            /\ MakesInOrder(env, program, i)
            /\ ListsInOrder(env, program, i)
            /\ ReplacesInOrder(env, program, i)
            /\ SeedsInOrder(program, i)

\* Needed only for the runs that nothing disturbs.
ASSUME AcceptanceAssumption ==
  \A env \in Deployed : \A i \in DOMAIN Programs[env] : AcceptsInOrder(Programs[env], i)

\* No other oracle is replaced, and no controller is one.
ASSUME FeedsAssumption ==
  /\ \A t \in FeedTokens : Aggregator(t) \in Replaceable("local") => t = "WSTETH"
  /\ \A t \in FeedTokens : Aggregator(t) \notin Controllers("local")

-----------------------------------------------------------------------------

NoRecord == [id |-> 0, abi |-> 0]
NoPlan   == [list |-> {}, update |-> {}, old |-> NoRecord]

Init ==
  /\ network \in Deployed
  /\ version = 1
  /\ records = [n \in Names |-> NoRecord]
  /\ newRecords = [n \in Names |-> NoRecord]
  /\ chain = [n \in Names |-> <<>>]
  /\ core = [controllers |-> [c \in Controllers("local") |-> 0], listed |-> {},
             feeds |-> [t \in Tokens |-> 0], valueTokens |-> {}, minDeposit |-> 0]
  /\ facts = {}
  /\ deposits = [p \in Pools |-> [queued |-> 0, settled |-> 0]]
  /\ pc = 0 /\ step = NoStep /\ phase = "send" /\ failures = 0 /\ plan = NoPlan /\ complete = FALSE
  /\ faults = 0

-----------------------------------------------------------------------------
(* What the scripts read                                                   *)

Recorded(name) == records[name] # NoRecord
RecordedInstance(name) == chain[name][records[name].id]

\* The addresses recorded for the names.
Links(names) == [n \in names |-> records[n].id]

Initialized(name) == Recorded(name) /\ RecordedInstance(name).links # <<>>
CoreReady == Initialized("UFarmCore")

\* What deployUpgradedContract has returned as the new deployment: that of the
\* _NEW record, if there is one.  (When the record was lost and has just been made
\* again, it is that one, whatever the _NEW record says; the core knows neither.)
NewestOracle ==
  IF newRecords["WSTETHOracle"] # NoRecord THEN newRecords["WSTETHOracle"].id
  ELSE records["WSTETHOracle"].id

FeedPlan ==
  [list |-> {},
   update |-> IF /\ Recorded("UFarmCore")
                 /\ core.feeds["WSTETH"] \notin {0, NewestOracle}
                THEN {"WSTETHOracle"} ELSE {}]

TokenPlan ==
  [list |-> FeedTokens \ core.listed,
   update |-> {t \in FeedTokens \cap core.listed : core.feeds[t] # records[Aggregator(t)].id}]

ValueTokenPlan == [list |-> ValueTokens \ core.valueTokens, update |-> {}]

\* Mistake: the protocols on the chain are not looked at.
ControllerPlan_All ==
  [list |-> Controllers(network),
   update |-> {c \in Controllers(network) : core.controllers[c] # 0 /\ newRecords[c] # NoRecord}]

ControllerPlan ==
  [list |-> {c \in Controllers(network) : core.controllers[c] = 0},
   update |-> {c \in Controllers(network) : core.controllers[c] # 0 /\ newRecords[c] # NoRecord}]

PlanFor(what) ==
  CASE what = "feed"        -> FeedPlan
    [] what = "tokens"      -> TokenPlan
    [] what = "valueTokens" -> ValueTokenPlan
    [] what = "controllers" -> ControllerPlan

\* Mistake: contracts are deployed without skipIfAlreadyDeployed.
Needed_Again ==
  \/ Op \in {"read", "survey", "external", "beacon", "deploy"}
  \/ Op \in {"fund", "pool"} /\ ~Recorded(Name)
  \/ Op = "upgraded" /\ (Recorded(Name) => newRecords[Name] = NoRecord)
  \/ Op = "proxy" /\ (Recorded(Name) => Initialized(Name))
  \/ Op = "initialize" /\ IF Name = "PriceOracle" THEN ~CoreReady ELSE ~Initialized(Name)
  \/ Op = "list" /\ plan.list # {}
  \/ Op = "update" /\ plan.update # {} /\ (Name = "tokens" => plan.list # {})
  \/ Op \in {"forget", "rewrite", "drop"} /\ Name \in plan.update /\ newRecords[Name] # NoRecord
  \/ Op = "ensure" /\ Name \notin facts
  \/ Op = "minDeposit" /\ core.minDeposit # step.args
  \/ Op = "activate" /\ Name \notin facts
  \/ Op = "deposit" /\ deposits[Name].settled = 0
  \/ Op = "answer" /\ deposits[Name].queued # 0

\* Whether the current step has anything to do.
Needed ==
  \/ Op \in {"read", "survey", "external", "beacon"}
  \/ Op \in {"deploy", "fund", "pool"} /\ ~Recorded(Name)
  \/ Op = "upgraded" /\ (Recorded(Name) => newRecords[Name] = NoRecord)
  \/ Op = "proxy" /\ (Recorded(Name) => Initialized(Name))
  \/ Op = "initialize" /\ IF Name = "PriceOracle" THEN ~CoreReady ELSE ~Initialized(Name)
  \/ Op = "list" /\ plan.list # {}
  \/ Op = "update" /\ plan.update # {} /\ (Name = "tokens" => plan.list # {})
  \/ Op \in {"forget", "rewrite", "drop"} /\ Name \in plan.update /\ newRecords[Name] # NoRecord
  \/ Op = "ensure" /\ Name \notin facts
  \/ Op = "minDeposit" /\ core.minDeposit # step.args
  \/ Op = "activate" /\ Name \notin facts
  \/ Op = "deposit" /\ deposits[Name].settled = 0
  \/ Op = "answer" /\ deposits[Name].queued # 0

-----------------------------------------------------------------------------
(* What the chain does                                                     *)

\* A new contract, or new code for the recorded one.
NewInstance(name, links) ==
  chain' = [chain EXCEPT ![name] = Append(@, [impl |-> version, links |-> links])]
NewCode(name) == chain' = [chain EXCEPT ![name][records[name].id].impl = version]

\* The initializers: the oracle's and the guard's are accepted once; the core
\* calls its factories and its oracle back, and each must know it.
InitializerAccepted ==
  /\ RecordedInstance(Name).links = <<>>
  /\ Name = "UFarmCore" =>
       \A linked \in step.args :
         /\ "UFarmCore" \in DOMAIN RecordedInstance(linked).links
         /\ RecordedInstance(linked).links["UFarmCore"] = records["UFarmCore"].id

\* Lists are refused when one of their elements is there already, updates when
\* one is not.  The update of tokens has arguments that cannot be encoded.
ListAccepted ==
  /\ CoreReady
  /\ Name = "tokens"      => plan.list \cap core.listed = {}
  /\ Name = "valueTokens" => plan.list \cap core.valueTokens = {}
  /\ Name = "controllers" => \A c \in plan.list : core.controllers[c] = 0

UpdateAccepted ==
  \/ Name = "feed" /\ "WSTETH" \in core.listed
  \/ Name = "controllers" /\ \A c \in plan.update : core.controllers[c] # 0

Listed ==
  CASE Name = "tokens" ->
         [core EXCEPT !.listed = @ \cup plan.list,
                      !.feeds = [t \in Tokens |-> IF t \in plan.list THEN records[Aggregator(t)].id
                                                                     ELSE @[t]]]
    [] Name = "valueTokens" -> [core EXCEPT !.valueTokens = @ \cup plan.list]
    [] Name = "controllers" ->
         [core EXCEPT !.controllers =
            [c \in DOMAIN @ |-> IF c \in plan.list THEN records[c].id ELSE @[c]]]

\* Mistake: the token is not delisted.
Updated_StillListed ==
  CASE Name = "feed" -> core
    [] Name = "controllers" ->
         [core EXCEPT !.controllers =
            [c \in DOMAIN @ |-> IF c \in plan.update THEN newRecords[c].id ELSE @[c]]]

\* Delisting a token leaves its feed.
Updated ==
  CASE Name = "feed" -> [core EXCEPT !.listed = @ \ {"WSTETH"}]
    [] Name = "controllers" ->
         [core EXCEPT !.controllers =
            [c \in DOMAIN @ |-> IF c \in plan.update THEN newRecords[c].id ELSE @[c]]]

-----------------------------------------------------------------------------
(* The process                                                             *)

Running(ops) == pc # 0 /\ Op \in ops

\* To the step after this one and the n - 1 that follow.
AdvanceBy(n) ==
  /\ phase' = "send" /\ failures' = 0
  /\ IF pc + n <= Len(Programs[network])
       THEN pc' = pc + n /\ step' = Programs[network][pc + n] /\ complete' = FALSE
       ELSE pc' = 0 /\ step' = NoStep /\ complete' = TRUE

Advance == AdvanceBy(1)

Abort ==
  /\ pc' = 0 /\ step' = NoStep /\ phase' = "send" /\ failures' = 0 /\ plan' = NoPlan
  /\ UNCHANGED complete

Fault == faults < MaxFaults[network] /\ faults' = faults + 1

\* Mistake: one attempt too many.
FailedAttempt_OneMore ==
  IF failures < step.attempts
    THEN failures' = failures + 1 /\ UNCHANGED <<pc, step, phase, plan, complete>>
    ELSE Abort

FailedAttempt ==
  IF failures + 1 < step.attempts
    THEN failures' = failures + 1 /\ UNCHANGED <<pc, step, phase, plan, complete>>
    ELSE Abort

\* Mined and confirmed.
Confirmed ==
  /\ UNCHANGED <<plan, faults>>
  /\ IF Op \in {"deploy", "upgraded", "proxy", "beacon", "fund", "pool"}
       THEN phase' = "save" /\ UNCHANGED <<pc, step, failures, complete>>
       ELSE Advance

\* Whether to send was decided before the first attempt.  What is refused once
\* is refused by every other attempt, as nothing changes in between.  The next
\* step comes after the transaction is mined, also where a script does not wait
\* for it (22_deploy_wsteth_oracle.ts:57 and others).
Transact(accepted, effect) ==
  /\ phase = "send"
  /\ Needed \/ failures > 0
  /\ UNCHANGED <<network, version, records, newRecords>>
  /\ \/ accepted /\ effect /\ Confirmed
     \/ accepted /\ effect /\ Fault /\ FailedAttempt
     \/ ~accepted /\ Abort /\ UNCHANGED <<world, faults>>
     \/ Fault /\ FailedAttempt /\ UNCHANGED world

\* activatePool is retried as a whole: it looks again.
Skip ==
  /\ pc # 0 /\ phase = "send" /\ ~Needed
  /\ failures = 0 \/ Op = "activate"
  /\ Advance
  /\ UNCHANGED <<network, version, records, newRecords, world, plan, faults>>

ReadRecords ==
  /\ Running({"read"})
  /\ IF \A n \in step.args : Recorded(n) THEN Advance /\ UNCHANGED plan ELSE Abort
  /\ UNCHANGED <<network, version, records, newRecords, world, faults>>

MakePlan ==
  /\ Running({"survey"})
  /\ plan' = [plan EXCEPT !.list = PlanFor(Name).list, !.update = PlanFor(Name).update]
  /\ Advance
  /\ UNCHANGED <<network, version, records, newRecords, world, faults>>

RecordExternal ==
  /\ Running({"external"})
  /\ records' = [records EXCEPT ![Name] = [id |-> 1, abi |-> version]]
  /\ Advance
  /\ UNCHANGED <<network, version, newRecords, world, plan, faults>>

DeployContract ==
  /\ Running({"deploy", "upgraded"})
  /\ Transact(TRUE, NewInstance(Name, Links(step.args)) /\ UNCHANGED <<core, facts, deposits>>)

DeployProxy ==
  /\ Running({"proxy", "beacon"})
  /\ Transact(TRUE, /\ IF Recorded(Name) THEN NewCode(Name) ELSE NewInstance(Name, <<>>)
                    /\ UNCHANGED <<core, facts, deposits>>)

InitializeContract ==
  /\ Running({"initialize"})
  /\ Transact(InitializerAccepted,
              /\ chain' = [chain EXCEPT ![Name][records[Name].id].links = Links(step.args)]
              /\ UNCHANGED <<core, facts, deposits>>)

SendPlannedList ==
  /\ Running({"list"})
  /\ Transact(ListAccepted, core' = Listed /\ UNCHANGED <<chain, facts, deposits>>)

SendPlannedUpdate ==
  /\ Running({"update"})
  /\ Transact(UpdateAccepted, core' = Updated /\ UNCHANGED <<chain, facts, deposits>>)

EnsureFact ==
  /\ Running({"ensure"})
  /\ Transact(step.args \/ Name \notin facts,
              facts' = facts \cup {Name} /\ UNCHANGED <<chain, core, deposits>>)

SetMinDeposit ==
  /\ Running({"minDeposit"})
  /\ Transact(CoreReady /\ core.minDeposit # step.args,
              core' = [core EXCEPT !.minDeposit = step.args] /\ UNCHANGED <<chain, facts, deposits>>)

\* The address of a fund depends on nothing that changes, and is used once;
\* the one of a pool is random.
CreateFund ==
  /\ Running({"fund"})
  /\ Transact(CoreReady /\ chain[Name] = <<>>,
              NewInstance(Name, <<>>) /\ UNCHANGED <<core, facts, deposits>>)

\* Mistake: the address of a pool is like the one of a fund.
CreatePool_OneAddress ==
  /\ Running({"pool"})
  /\ Transact("fund active" \in facts /\ chain[Name] = <<>>,
              NewInstance(Name, <<>>) /\ UNCHANGED <<core, facts, deposits>>)

CreatePool ==
  /\ Running({"pool"})
  /\ Transact("fund active" \in facts,
              NewInstance(Name, <<>>) /\ UNCHANGED <<core, facts, deposits>>)

\* The fund has no stake in a new pool.  A stake is queued first when one is
\* asked for, and the pool is not active without it.
ActivatePool ==
  /\ Running({"activate"})
  /\ Transact(core.minDeposit = 0,
              facts' = facts \cup {Name} /\ UNCHANGED <<chain, core, deposits>>)

DepositSeed ==
  /\ Running({"deposit"})
  /\ Transact(Name \in facts,
              deposits' = [deposits EXCEPT ![Name].queued = @ + 1] /\ UNCHANGED <<chain, core, facts>>)

AnswerSeed ==
  /\ Running({"answer"})
  /\ Transact(TRUE,
              /\ deposits' = [deposits EXCEPT ![Name] = [queued |-> 0, settled |-> @.settled + @.queued]]
              /\ UNCHANGED <<chain, core, facts>>)

\* Mistake: the record of an upgraded proxy keeps its ABI.
Save_OldABI ==
  LET latest == [id |-> Len(chain[Name]), abi |-> version]
  IN /\ pc # 0 /\ phase = "save"
     /\ IF Op = "upgraded" /\ Recorded(Name)
          THEN newRecords' = [newRecords EXCEPT ![Name] = latest] /\ UNCHANGED records
          ELSE /\ records' = [records EXCEPT ![Name] =
                                IF Op \in {"proxy", "beacon"} /\ Recorded(Name) THEN @ ELSE latest]
               /\ UNCHANGED newRecords
     /\ Advance
     /\ UNCHANGED <<network, version, world, plan, faults>>

\* The record of what was deployed, or the new ABI of what was upgraded.
Save ==
  LET latest == [id |-> Len(chain[Name]), abi |-> version]
      upgraded == Op \in {"proxy", "beacon"} /\ Recorded(Name)
  IN /\ pc # 0 /\ phase = "save"
     /\ IF Op = "upgraded" /\ Recorded(Name)
          THEN newRecords' = [newRecords EXCEPT ![Name] = latest] /\ UNCHANGED records
          ELSE /\ records' = [records EXCEPT ![Name] =
                                IF upgraded THEN [@ EXCEPT !.abi = version] ELSE latest]
               /\ UNCHANGED newRecords
     /\ Advance
     /\ UNCHANGED <<network, version, world, plan, faults>>

\* Mistake: both records are deleted before the new one is saved.
ForgetRecord_Both ==
  /\ Running({"forget"}) /\ Needed
  /\ records' = [records EXCEPT ![Name] = NoRecord]
  /\ newRecords' = [newRecords EXCEPT ![Name] = NoRecord]
  /\ plan' = [plan EXCEPT !.old = records[Name]]
  /\ Advance
  /\ UNCHANGED <<network, version, world, faults>>

\* The old record is deleted, the new one saved, its _NEW record deleted.
ForgetRecord ==
  /\ Running({"forget"}) /\ Needed
  /\ records' = [records EXCEPT ![Name] = NoRecord]
  /\ plan' = [plan EXCEPT !.old = records[Name]]
  /\ Advance
  /\ UNCHANGED <<network, version, newRecords, world, faults>>

RewriteRecord ==
  /\ Running({"rewrite"}) /\ Needed
  /\ records' = [records EXCEPT ![Name] = newRecords[Name]]
  /\ Advance
  /\ UNCHANGED <<network, version, newRecords, world, plan, faults>>

DropNewRecord ==
  /\ Running({"drop"}) /\ Needed
  /\ newRecords' = [newRecords EXCEPT ![Name] = NoRecord]
  /\ plan' = [plan EXCEPT !.old = NoRecord]
  /\ Advance
  /\ UNCHANGED <<network, version, records, world, faults>>

\* Mistake: the old record is not saved again.
RestoreRecord_Nothing ==
  /\ Running({"forget", "rewrite", "drop"}) /\ Name = "WSTETHOracle" /\ Needed /\ Fault
  /\ plan' = [plan EXCEPT !.old = NoRecord]
  /\ AdvanceBy(step.args)
  /\ UNCHANGED <<network, version, records, newRecords, world>>

\* One of the three writes for the oracle fails: the old record is saved again,
\* and the run goes on (replaceUpdatedContract).  Those for the controllers are
\* in no try: the run ends (Crash).
RestoreRecord ==
  /\ Running({"forget", "rewrite", "drop"}) /\ Name = "WSTETHOracle" /\ Needed /\ Fault
  /\ records' = [records EXCEPT ![Name] = IF Op = "forget" THEN @ ELSE plan.old]
  /\ plan' = [plan EXCEPT !.old = NoRecord]
  /\ AdvanceBy(step.args)
  /\ UNCHANGED <<network, version, newRecords, world>>

Crash ==
  /\ pc # 0
  /\ Fault /\ Abort
  /\ UNCHANGED <<network, version, records, newRecords, world>>

\* The scripts are run again until they end.
Start ==
  /\ pc = 0 /\ ~complete
  /\ \A n \in Names : Len(chain[n]) < MaxInstances
  /\ pc' = 1 /\ step' = Programs[network][1]
  /\ UNCHANGED <<network, version, records, newRecords, world, phase, failures, plan, complete, faults>>

NewRelease ==
  /\ pc = 0 /\ version < MaxVersion
  /\ version' = version + 1 /\ complete' = FALSE
  /\ UNCHANGED <<network, records, newRecords, world, pc, step, phase, failures, plan,
                 faults>>

Run ==
  \/ Skip \/ ReadRecords \/ MakePlan \/ RecordExternal
  \/ DeployContract \/ DeployProxy \/ InitializeContract
  \/ SendPlannedList \/ SendPlannedUpdate \/ EnsureFact \/ SetMinDeposit
  \/ CreateFund \/ CreatePool \/ ActivatePool \/ DepositSeed \/ AnswerSeed
  \/ Save \/ ForgetRecord \/ RewriteRecord \/ DropNewRecord \/ RestoreRecord

Next == Run \/ Crash \/ Start \/ NewRelease

\* A run goes on, and someone starts the next one.
Spec == Init /\ [][Next]_vars /\ WF_vars(Run) /\ WF_vars(Start)

-----------------------------------------------------------------------------
(* Properties                                                              *)

\* Every variable keeps its type, and no contract is linked to address zero.
DeploymentTypeOK ==
  /\ network \in Deployed /\ version \in 1..MaxVersion /\ faults \in 0..MaxFaults[network]
  /\ records \in [Names -> [id : Nat, abi : 0..version]]
  /\ newRecords \in [Names -> [id : Nat, abi : 0..version]]
  /\ \A n \in Names : \A i \in DOMAIN chain[n] :
       /\ chain[n][i].impl \in 1..version
       /\ \A l \in DOMAIN chain[n][i].links : l \in Names /\ chain[n][i].links[l] \in Nat \ {0}
  /\ core.listed \subseteq FeedTokens /\ core.valueTokens \subseteq ValueTokens
  /\ core.controllers \in [Controllers("local") -> Nat] /\ core.feeds \in [Tokens -> Nat]
  /\ pc \in 0..Len(Programs[network]) /\ phase \in {"send", "save"}
  /\ step = IF pc = 0 THEN NoStep ELSE Programs[network][pc]
  /\ failures < step.attempts
  /\ complete => pc = 0

\* Whatever of a run was lost and done again: a recorded contract was given the
\* addresses of the contracts that are recorded, never of one that a run left
\* behind.
RecordedWiring ==
  \A n \in Names :
    (Recorded(n) /\ records[n].id <= Len(chain[n])) =>
      \A l \in DOMAIN RecordedInstance(n).links : RecordedInstance(n).links[l] = records[l].id

\* What is published once stays: only the controllers and the oracle that a
\* run replaces ever get another address.
AddressesAreStable ==
  [][\A n \in Names :
       Recorded(n) => \/ records'[n].id = records[n].id
                      \/ n \in Replaceable(network)]_vars

\* A controller the core knows is recorded, under its name or the one with
\* _NEW, also between the writes that replace the record.
ControllerIsRecorded ==
  \A c \in Controllers(network) :
    core.controllers[c] # 0 => core.controllers[c] \in {records[c].id, newRecords[c].id}

\* A listed token has the recorded feed.  Therefore the branch that updates
\* feeds, which sends whole records where blacklistTokens takes addresses, is
\* never taken.
FeedsFollowRecords ==
  \A t \in core.listed : core.feeds[t] = records[Aggregator(t)].id

\* The dependencies the scripts declare are enough: a script finds the record
\* of every contract it reads.
RecordsAreThere ==
  Running({"read"}) => \A n \in step.args : Recorded(n)

\* A run that reaches its end leaves the core, the records and the contracts in
\* agreement, however many runs before it did not.  A record that could not be
\* replaced is there with _NEW, for the next run.
CompleteRunIsConsistent ==
  complete =>
    /\ CoreReady
    /\ \A c \in Controllers(network) :
         core.controllers[c] \in {records[c].id, newRecords[c].id} \ {0}
    /\ IsTestnet(network) => core.listed = FeedTokens
    /\ core.valueTokens = ValueTokens
    /\ \A n \in Names :
         (Recorded(n) /\ chain[n] # <<>>) => records[n].abi = RecordedInstance(n).impl
    /\ \A p \in Pools : deposits[p].queued = 0

\* A run that nothing disturbs reaches its end if those before it did:
\* releases can follow one another.
CleanRunsEnd == [][(pc # 0 /\ pc' = 0 /\ faults' = 0) => complete']_vars

\* The three states no run gets out of: the oracle has its core but the core
\* was not initialised; WSTETH was delisted for an oracle it did not get; the
\* fund exists but was not recorded.
OracleAhead == Initialized("PriceOracle") /\ Recorded("UFarmCore") /\ ~CoreReady
FeedWedged  == "WSTETH" \in FeedTokens \ core.listed /\ core.feeds["WSTETH"] # 0
FundWedged  == "TestFund" \in Names /\ chain["TestFund"] # <<>> /\ ~Recorded("TestFund")

\* After the last fault, running the scripts again and again completes the
\* deployment: a failed run is repaired by the next ones, from every state but
\* those three.
EventuallyComplete == <>[](complete \/ OracleAhead \/ FeedWedged \/ FundWedged)

\* 60_init_contracts.ts:94: "if any of that addresses is not set, we need to
\* initialize UFarmCore".  A run that finds them not set gets to it.
UnsetAddressesAreInitialized ==
  [][(Running({"initialize"}) /\ ~CoreReady /\ faults' = faults) => pc' # 0]_vars
=============================================================================
