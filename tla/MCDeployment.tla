----------------------------- MODULE MCDeployment -----------------------------
(***************************************************************************)
(* A small instance of Deployment for TLC: the tokens the scripts treat    *)
(* differently, one pair, one member.                                      *)
(***************************************************************************)
EXTENDS Deployment

MCTokenNames  == <<"USDT", "WETH", "STETH", "WSTETH">>
MCPairNames   == <<"USDT/WETH">>
MCFundMembers == <<"alice">>
MCCoreMembers == <<"bob">>

\* The production scripts are few.
MCMaxFaults == [local |-> 1, sepolia |-> 1, production |-> 2]
=============================================================================
