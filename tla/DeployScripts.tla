---------------------------- MODULE DeployScripts ----------------------------
(***************************************************************************)
(* What the deployment consists of: the scripts under deploy/, the scripts *)
(* each depends on, and the steps of each, in the environments the         *)
(* deployment is made for.  Deployment.tla says what the steps do.         *)
(*                                                                         *)
(*   local       development nodes and Hardhat, tag TestEnv                *)
(*   sepolia     Arbitrum Sepolia, tag SepoliaEnv                          *)
(*   production  Arbitrum and Ethereum, tag ProductionENV                  *)
(***************************************************************************)
EXTENDS Naturals, SequencesExt

CONSTANTS
  TokenNames,    \* the sequence of the configured tokens
  PairNames,     \* the sequence of the pairs with an initial rate
  FundMembers,   \* the sequence of those who get permissions in the fund
  CoreMembers,   \* ... and in the core
  MaxAttempts    \* of retryOperation and tryDeploy: 3

Environments == {"local", "sepolia", "production"}
IsTestnet(env) == env # "production"

\* The price feed of a token.
Aggregator(token) == IF token = "WSTETH" THEN "WSTETHOracle" ELSE token \o "USDAggregator"

Tokens      == ToSet(TokenNames)
FeedTokens  == Tokens \ {"STETH"}
ValueTokens == Tokens \cap {"USDT", "USDC"}

ControllerNames(env) ==
  IF IsTestnet(env)
    THEN <<"UniV2Controller", "UniV3Controller", "OneInchV5Controller", "ArbitraryController">>
    ELSE <<"ArbitraryController">>
Controllers(env) == ToSet(ControllerNames(env))

-----------------------------------------------------------------------------
(* Steps                                                                   *)

\* The steps for each element of a sequence, one after the other.
ForEach(seq, StepsOf(_)) == FlattenSeq([i \in DOMAIN seq |-> StepsOf(seq[i])])

Step(op, name, args, attempts) ==
  [op |-> op, name |-> name, args |-> args, attempts |-> attempts]

\* deployments.get of each of the names.
Read(names) == Step("read", "", names, 1)

\* deployContract, with skipIfAlreadyDeployed and the addresses recorded for
\* args as constructor arguments; the same for a contract that a rerun
\* replaces; a UUPS proxy; a beacon.
Deploy(name, args)   == Step("deploy", name, args, MaxAttempts)
Upgraded(name, args) == Step("upgraded", name, args, MaxAttempts)
Proxy(name)          == Step("proxy", name, {}, MaxAttempts)
Beacon(name)         == Step("beacon", name, {}, MaxAttempts)

\* A contract of others that is only recorded.
External(name) == <<Step("external", name, {}, 1)>>

\* A proxy's initializer, with the addresses recorded for args.
Initialize(name, args) == Step("initialize", name, args, MaxAttempts)

\* Lists of what is to be done, made by reading the core; and the transactions
\* that send them.
Survey(what)    == Step("survey", what, {}, 1)
SendList(what)  == Step("list", what, {}, MaxAttempts)
SendUpdate(what) == Step("update", what, {}, MaxAttempts)

\* The record of contract NAME becomes the one of NAME_NEW, in three writes,
\* numbered from the last.
Replace(name) ==
  <<Step("forget", name, 3, 1), Step("rewrite", name, 2, 1), Step("drop", name, 1, 1)>>

\* A fact is made true unless it is already; the transaction is refused when
\* it is true, unless it is one that can be repeated.
Ensure(fact, attempts)     == Step("ensure", fact, FALSE, attempts)
EnsureAgain(fact, attempts) == Step("ensure", fact, TRUE, attempts)

MinDeposit(value)        == Step("minDeposit", "", value, 1)
Fund(name)               == Step("fund", name, {}, 1)
Pool(name)               == Step("pool", name, {}, 1)
Activate(name, attempts) == Step("activate", name, {}, attempts)

\* A deposit of demonstration money, and the answer of the mocked oracle.
Seed(pool) == <<Step("deposit", pool, {}, 1), Step("answer", pool, {}, 1)>>

-----------------------------------------------------------------------------
(* External systems for the testnets                                       *)

MulticallScript(env) == IF IsTestnet(env) THEN <<Deploy("Multicall3", {})>> ELSE <<>>

\* The credentials are set only when they are set already ("set" is read as
\* equal to zero), and the constructor sets the oracle and no fee: what is
\* left to do after the deployment is to resume.
LidoScript(env) ==
  IF env # "local" THEN <<>> ELSE
    <<Deploy("DepositContractMock", {}),
      Deploy("NodeOperatorsRegistry", {}),
      Deploy("STETH", {"DepositContractMock", "NodeOperatorsRegistry"}),
      Deploy("WSTETH", {"STETH"}),
      Ensure("Lido resumed", 1)>>

TokenScript(env) ==
  LET StepOf(t) ==
        IF env = "local" /\ t \in {"STETH", "WSTETH"} THEN <<Read({t})>> ELSE <<Deploy(t, {})>>
  IN IF IsTestnet(env) THEN ForEach(TokenNames, StepOf) ELSE <<>>

UniV2Script(env) ==
  IF ~IsTestnet(env) THEN <<>> ELSE
    <<Read(Tokens),
      Deploy("UniswapV2Factory", {}),
      Deploy("UniswapV2Router02", {"UniswapV2Factory", "WETH"})>>

UniV2PairScript(env) ==
  LET StepOf(pair) == <<EnsureAgain("V2 " \o pair, MaxAttempts)>>
  IN IF ~IsTestnet(env) THEN <<>> ELSE
       <<Read(Tokens \cup {"UniswapV2Router02", "UniswapV2Factory"})>> \o ForEach(PairNames, StepOf)

\* Lido's two feeds are deployed when the turn of WSTETH comes.
AggregatorScript(env) ==
  LET Aggregators(t) ==
        CASE t = "STETH"  -> <<>>
          [] t = "WSTETH" -> <<Deploy(Aggregator("STETH"), {"UniswapV2Router02", "STETH", "USDT"}),
                               Deploy("LidoRateOracle", {"WSTETH"})>>
          [] OTHER -> <<Deploy(Aggregator(t), {"UniswapV2Router02", t, "USDT"})>>
  IN IF ~IsTestnet(env) THEN <<>> ELSE
       <<Read(Tokens \cup {"UniswapV2Router02"})>> \o ForEach(TokenNames, Aggregators)

\* The token gets its new oracle by being delisted here and listed again by
\* the script that lists the tokens.
WstETHOracleScript(env) ==
  LET parts == {"WSTETH", Aggregator("STETH"), "LidoRateOracle"}
  IN IF ~IsTestnet(env) THEN <<>> ELSE
       <<Read(parts), Upgraded("WSTETHOracle", parts), Survey("feed"), SendUpdate("feed")>>
       \o Replace("WSTETHOracle")

UniV3Script(env) ==
  IF ~IsTestnet(env) THEN <<>> ELSE
    <<Read(Tokens),
      Deploy("UniswapV3Factory", {}),
      Ensure("V3 fee tier", 1),
      Deploy("SwapRouter", {"UniswapV3Factory", "WETH"}),
      Deploy("NonfungiblePositionManager", {"UniswapV3Factory", "WETH"}),
      Deploy("QuoterV2", {"UniswapV3Factory", "WETH"})>>

UniV3PairScript(env) ==
  LET StepOf(pair) == <<EnsureAgain("V3 " \o pair, MaxAttempts)>>
  IN IF ~IsTestnet(env) THEN <<>> ELSE
       <<Read(Tokens \cup {"UniswapV3Factory", "NonfungiblePositionManager"})>>
       \o ForEach(PairNames, StepOf)

OneInchScript(env) ==
  IF ~IsTestnet(env) THEN <<>> ELSE <<Read({"WETH"}), Deploy("AggregationRouterV5", {"WETH"})>>

QuexScript(env) ==
  IF ~IsTestnet(env) THEN <<>> ELSE <<Deploy("QuexCore", {}), Deploy("QuexPool", {})>>

\* Production tokens are recorded again by every run.
PrepareEnvScript(env) ==
  IF IsTestnet(env) THEN <<>> ELSE ForEach(TokenNames, External)

-----------------------------------------------------------------------------
(* The contracts of UFarm                                                  *)

PriceOracleScript(env) == <<Proxy("PriceOracle")>>
UFarmPoolScript(env)   == <<Beacon("UFarmPool")>>
PoolAdminScript(env)   == <<Beacon("PoolAdmin")>>
UFarmCoreScript(env)   == <<Proxy("UFarmCore")>>
UFarmFundScript(env)   == <<Beacon("UFarmFund")>>

PoolFactoryScript(env) ==
  LET args == {"UFarmCore", "UFarmPool", "PoolAdmin"}
  IN <<Read(args), Deploy("PoolFactory", args)>>

FundFactoryScript(env) ==
  LET args == {"UFarmCore", "UFarmFund"} IN <<Read(args), Deploy("FundFactory", args)>>

\* The oracle is given its Quex core here: the step that sets it when it is
\* zero has nothing to do.
InitializeScript(env) ==
  LET quex == IF IsTestnet(env) THEN {"QuexCore"} ELSE {}
  IN <<Read({"PriceOracle", "UFarmCore", "FundFactory", "PoolFactory"} \cup quex),
       Initialize("PriceOracle", {"UFarmCore"} \cup quex),
       Initialize("UFarmCore", {"FundFactory", "PoolFactory", "PriceOracle"})>>

WhitelistTokensScript(env) ==
  LET feeds == IF IsTestnet(env)
                 THEN <<Read(Tokens \cup {"UFarmCore"} \cup {Aggregator(t) : t \in FeedTokens}),
                        Survey("tokens"), SendList("tokens"), SendUpdate("tokens")>>
                 ELSE <<>>
  IN feeds \o <<Read((IF IsTestnet(env) THEN Tokens ELSE FeedTokens) \cup {"UFarmCore"}),
                Survey("valueTokens"), SendList("valueTokens")>>

\* The one controller that is never replaced.
UniV2ControllerScript(env) ==
  LET args == {"UniswapV2Factory", "UniswapV2Router02", "PriceOracle"}
  IN IF IsTestnet(env) THEN <<Read(args), Deploy("UniV2Controller", args)>> ELSE <<>>

UniV3ControllerScript(env) ==
  LET args == {"SwapRouter", "UniswapV3Factory", "NonfungiblePositionManager", "PriceOracle"}
  IN IF IsTestnet(env) THEN <<Read(args), Upgraded("UniV3Controller", args)>> ELSE <<>>

OneInchControllerScript(env) ==
  LET args == {"AggregationRouterV5"}
  IN IF IsTestnet(env) THEN <<Read(args), Upgraded("OneInchV5Controller", args)>> ELSE <<>>

ArbitraryControllerScript(env) ==
  <<Proxy("Guard2"), Read({"UFarmCore", "Guard2"}), Initialize("Guard2", {"UFarmCore"}),
    Upgraded("ArbitraryController", {"Guard2"})>>

WhitelistControllersScript(env) ==
  <<Read({"UFarmCore"} \cup Controllers(env)),
    Survey("controllers"), SendList("controllers"), SendUpdate("controllers")>>
  \o ForEach(ControllerNames(env), Replace)

-----------------------------------------------------------------------------
(* The environments                                                        *)

\* updateFundPermissionsIfNotYet, and the same for the core.
GrantFund(member) == <<Ensure("fund member " \o member, MaxAttempts)>>
GrantCore(member) == <<Ensure("core member " \o member, MaxAttempts)>>

TestEnvFund ==
  <<Read({"USDT", "UFarmCore", "QuexCore"}), Fund("TestFund"), Ensure("fund active", 1)>>

TestEnvPool1 ==
  <<Pool("TestPool"), MinDeposit(0), Activate("TestPool", 1)>> \o Seed("TestPool")

TestEnvMembers == ForEach(FundMembers, GrantFund)

TestEnvSwap == <<Read({"UniV2Controller", "WETH"}), EnsureAgain("pool swapped", MaxAttempts)>>

TestEnvPools == <<Pool("TestPool2"), Pool("TestPool3"), Activate("TestPool3", 1)>>

TestEnvCore == <<MinDeposit(10)>> \o ForEach(CoreMembers, GrantCore)

TestEnvScript(env) ==
  TestEnvFund \o TestEnvPool1 \o TestEnvMembers \o TestEnvSwap \o TestEnvPools
  \o Seed("TestPool3") \o TestEnvCore \o <<Ensure("commission", MaxAttempts)>>

SepoliaFund ==
  <<Read({"USDT", "UFarmCore"}), Fund("TestFund"), Ensure("fund active", 1)>>

SepoliaPools ==
  <<Pool("TestPool"), Activate("TestPool", MaxAttempts), Pool("TestPool2"), Pool("TestPool3"),
    Activate("TestPool2", MaxAttempts)>>

SepoliaRoles ==
  <<MinDeposit(100), Ensure("commission", 1)>> \o ForEach(CoreMembers, GrantCore)

SepoliaScript(env) == SepoliaFund \o SepoliaPools \o SepoliaRoles

\* The initializer of the core has set the delay after an action.
ProductionScript(env) ==
  <<Read({"UFarmCore"}), MinDeposit(1000), Ensure("commission", 1)>>
  \o ForEach(CoreMembers, GrantCore)

-----------------------------------------------------------------------------
(* The order of the scripts                                                *)

Dependencies ==
  [Multicall3 |-> <<>>,
   Lido |-> <<>>,
   Tokens |-> <<"Lido">>,
   UniV2 |-> <<"Tokens">>,
   UniV2Pairs |-> <<"UniV2">>,
   MockedAggregators |-> <<"UniV2Pairs", "Lido">>,
   WstETHOracle |-> <<"MockedAggregators">>,
   UniV3 |-> <<"Tokens">>,
   UniV3Pairs |-> <<"UniV3", "Tokens">>,
   OneInch |-> <<"Tokens">>,
   QuexCore |-> <<>>,
   PriceOracle |-> <<>>,
   UFarmPool |-> <<>>,
   PoolAdmin |-> <<>>,
   UFarmCore |-> <<>>,
   UFarmFund |-> <<>>,
   PoolFactory |-> <<"UFarmCore", "UFarmPool", "PoolAdmin">>,
   FundFactory |-> <<"UFarmCore", "UFarmPool", "PoolAdmin", "UFarmFund">>,
   InitializeUFarm |-> <<"PriceOracle", "UFarmCore", "FundFactory", "PoolFactory", "QuexCore">>,
   WhiteListTokens |-> <<"InitializeUFarm", "MockedAggregators", "WstETHOracle">>,
   UniV2Controller |-> <<"PrepareEnvARB", "UniV2", "PriceOracle", "Tokens">>,
   UniV3Controller |-> <<"UniV3", "PriceOracle">>,
   OneInchV5Controller |-> <<"OneInch">>,
   ArbitraryController |-> <<>>,
   WhitelistControllers |-> <<"InitializeUFarm", "UniV2Controller", "UniV3Controller",
                              "OneInchV5Controller", "ArbitraryController">>,
   PrepareEnvARB |-> <<>>,
   TestEnv |-> <<"Multicall3", "UniV2Pairs", "UniV3Pairs", "InitializeUFarm",
                 "WhitelistControllers", "WhiteListTokens">>,
   SepoliaEnv |-> <<"Multicall3", "UniV2Pairs", "UniV3Pairs", "InitializeUFarm",
                    "WhitelistControllers", "WhiteListTokens">>,
   ProductionENV |-> <<"PrepareEnvARB", "InitializeUFarm", "WhitelistControllers",
                       "WhiteListTokens">>]

Scripts(env) ==
  [Multicall3 |-> MulticallScript(env),
   Lido |-> LidoScript(env),
   Tokens |-> TokenScript(env),
   UniV2 |-> UniV2Script(env),
   UniV2Pairs |-> UniV2PairScript(env),
   MockedAggregators |-> AggregatorScript(env),
   WstETHOracle |-> WstETHOracleScript(env),
   UniV3 |-> UniV3Script(env),
   UniV3Pairs |-> UniV3PairScript(env),
   OneInch |-> OneInchScript(env),
   QuexCore |-> QuexScript(env),
   PriceOracle |-> PriceOracleScript(env),
   UFarmPool |-> UFarmPoolScript(env),
   PoolAdmin |-> PoolAdminScript(env),
   UFarmCore |-> UFarmCoreScript(env),
   UFarmFund |-> UFarmFundScript(env),
   PoolFactory |-> PoolFactoryScript(env),
   FundFactory |-> FundFactoryScript(env),
   InitializeUFarm |-> InitializeScript(env),
   WhiteListTokens |-> WhitelistTokensScript(env),
   UniV2Controller |-> UniV2ControllerScript(env),
   UniV3Controller |-> UniV3ControllerScript(env),
   OneInchV5Controller |-> OneInchControllerScript(env),
   ArbitraryController |-> ArbitraryControllerScript(env),
   WhitelistControllers |-> WhitelistControllersScript(env),
   PrepareEnvARB |-> PrepareEnvScript(env),
   TestEnv |-> TestEnvScript(env),
   SepoliaEnv |-> SepoliaScript(env),
   ProductionENV |-> ProductionScript(env)]

\* The elements at the given positions.
At(positions, seq) ==
  [n \in 1..Cardinality(positions) |->
     seq[CHOOSE i \in positions : Cardinality({j \in positions : j <= i}) = n]]

\* Each element once, where it occurs first.
Once(seq) ==
  At({i \in DOMAIN seq : \A j \in DOMAIN seq : j < i => seq[j] # seq[i]}, seq)

\* The scripts a tag runs (hardhat-deploy): those it depends on, depth first,
\* each once, then its own.
OrderOf(tag) ==
  LET expand[t \in DOMAIN Dependencies] ==
        Once(Append(ForEach(Dependencies[t], LAMBDA dependency : expand[dependency]), t))
  IN expand[tag]

\* The tag each environment is deployed with (package.json).
TagOf(env) ==
  CASE env = "local" -> "TestEnv" [] env = "sepolia" -> "SepoliaEnv" [] OTHER -> "ProductionENV"

\* All the steps of a run, in order.
Program(env) ==
  LET scripts == Scripts(env) IN ForEach(OrderOf(TagOf(env)), LAMBDA script : scripts[script])
=============================================================================
