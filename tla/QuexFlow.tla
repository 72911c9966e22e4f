------------------------------ MODULE QuexFlow ------------------------------
(***************************************************************************)
(* How the pools ask for their value: the flows they register with Quex,   *)
(* the requests they make for them, and the oracles (PriceOracle.sol) that *)
(* stand between.  A pool remembers one flow and the version it had;       *)
(* the core may give a pool an oracle of its own at any time.              *)
(*                                                                         *)
(* A Quex core numbers its flows and requests 1, 2, ...; two cores use the *)
(* same numbers.  It refuses a request for a flow it does not know, and    *)
(* answers to the consumer of the flow (IQuexActionRegistry.sol,           *)
(* IFlowRegistry.sol).                                                     *)
(***************************************************************************)
EXTENDS Integers, Sequences

CONSTANTS
  Pools,
  Oracles,          \* the deployed PriceOracle contracts
  DefaultOracle,    \* UFarmCore._priceOracle, set once by its initializer
  QuexCores,
  Feeds,            \* the action data an oracle may be given
  NoOracle, NoCore, NoFeed,
  MaxVersion,       \* bound of an oracle's versions
  MaxRequests       \* bound of the requests made at a Quex core

ASSUME QuexAssumption ==
  /\ DefaultOracle \in Oracles
  /\ NoOracle \notin Oracles /\ NoCore \notin QuexCores /\ NoFeed \notin Feeds
  /\ MaxVersion \in Nat /\ MaxRequests \in Nat

VARIABLES
  oracle,          \* of each oracle: quexCore, quexActionData, quexFlowVersion
  specificOracle,  \* UFarmCore._specificOracles[pool].oracle
  pool,            \* of each pool: quexFlowId, quexFlowVersion, requestId
  flows,           \* of each Quex core: the flows, by their ids
  requests,        \* of each Quex core: the flow ids requested, by request id
  origin           \* for the properties: the oracle each pool's flow is from
                   \* and the one its last request was made by

vars == <<oracle, specificOracle, pool, flows, requests, origin>>

Init ==
  /\ oracle \in [Oracles -> [quexCore : QuexCores \cup {NoCore}, feed : {NoFeed},
                             quexFlowVersion : {0}]]
  /\ specificOracle = [p \in Pools |-> NoOracle]
  /\ pool = [p \in Pools |-> [quexFlowId |-> 0, quexFlowVersion |-> 0, requestId |-> 0]]
  /\ flows = [c \in QuexCores |-> <<>>]
  /\ requests = [c \in QuexCores |-> <<>>]
  /\ origin = [p \in Pools |-> [flow |-> NoOracle, request |-> NoOracle]]

-----------------------------------------------------------------------------
(* The core and its oracles                                                *)

\* priceOracle(), as asked by pool p.
PriceOracle(p) == IF specificOracle[p] = NoOracle THEN DefaultOracle ELSE specificOracle[p]
QuexCore(p)    == oracle[PriceOracle(p)].quexCore

\* Mistake: the Quex core can be replaced.
SetQuexCore_Again(o, c) ==
  /\ oracle' = [oracle EXCEPT ![o].quexCore = c]
  /\ UNCHANGED <<specificOracle, pool, flows, requests, origin>>

\* An oracle initialised without its Quex core gets it once.
SetQuexCore(o, c) ==
  /\ oracle[o].quexCore = NoCore
  /\ oracle' = [oracle EXCEPT ![o].quexCore = c]
  /\ UNCHANGED <<specificOracle, pool, flows, requests, origin>>

\* Mistake: the version only says that there is a feed.
SetQuexFlow_OneVersion(o, feed) ==
  /\ oracle[o].quexFlowVersion < MaxVersion
  /\ oracle' = [oracle EXCEPT ![o].feed = feed, ![o].quexFlowVersion = 1]
  /\ UNCHANGED <<specificOracle, pool, flows, requests, origin>>

SetQuexFlow(o, feed) ==
  /\ oracle[o].quexFlowVersion < MaxVersion
  /\ oracle' = [oracle EXCEPT ![o].feed = feed, ![o].quexFlowVersion = @ + 1]
  /\ UNCHANGED <<specificOracle, pool, flows, requests, origin>>

SetSpecificOracle(p, o) ==
  /\ specificOracle' = [specificOracle EXCEPT ![p] = o]
  /\ UNCHANGED <<oracle, pool, flows, requests, origin>>

RemoveSpecificOracle(p) ==
  /\ specificOracle' = [specificOracle EXCEPT ![p] = NoOracle]
  /\ UNCHANGED <<oracle, pool, flows, requests, origin>>

-----------------------------------------------------------------------------
(* A pool and its oracle                                                   *)

\* Mistake: the answers of a pool's flow go to the oracle.
NewFlow_OfTheOracle(p) == [feed |-> oracle[PriceOracle(p)].feed, consumer |-> PriceOracle(p)]

\* createFlow: the feed of the oracle, with the pool as its parameter and as
\* the consumer of the answers.
NewFlow(p) == [feed |-> oracle[PriceOracle(p)].feed, consumer |-> p]

FlowIsStale(p) == pool[p].quexFlowVersion # oracle[PriceOracle(p)].quexFlowVersion

\* createRequest fails with Flow_NotFound.
Registered(c, flowId) == flowId \in 1..Len(flows[c])

\* Mistake: a flow of another core is requested as if it were known.
RequestKnownFlow_Anywhere(p) ==
  /\ ~FlowIsStale(p)
  /\ pool' = [pool EXCEPT ![p].requestId = Len(requests[QuexCore(p)]) + 1]
  /\ requests' = [requests EXCEPT ![QuexCore(p)] = Append(@, pool[p].quexFlowId)]
  /\ origin' = [origin EXCEPT ![p].request = PriceOracle(p)]
  /\ UNCHANGED flows

\* sendQuexRequest for the flow the pool has (flow 0 before its first one).
RequestKnownFlow(p) ==
  /\ ~FlowIsStale(p)
  /\ Registered(QuexCore(p), pool[p].quexFlowId)
  /\ pool' = [pool EXCEPT ![p].requestId = Len(requests[QuexCore(p)]) + 1]
  /\ requests' = [requests EXCEPT ![QuexCore(p)] = Append(@, pool[p].quexFlowId)]
  /\ origin' = [origin EXCEPT ![p].request = PriceOracle(p)]
  /\ UNCHANGED flows

\* sendQuexRequest that registers a flow first.  An oracle without a feed has no
\* contract to register it with, and the call fails.
RequestNewFlow(p) ==
  LET c == QuexCore(p)
      flowId == Len(flows[c]) + 1
  IN /\ FlowIsStale(p)
     /\ oracle[PriceOracle(p)].feed # NoFeed
     /\ flows' = [flows EXCEPT ![c] = Append(@, NewFlow(p))]
     /\ pool' = [pool EXCEPT ![p] =
          [quexFlowId |-> flowId, quexFlowVersion |-> oracle[PriceOracle(p)].quexFlowVersion,
           requestId |-> Len(requests[c]) + 1]]
     /\ requests' = [requests EXCEPT ![c] = Append(@, flowId)]
     /\ origin' = [origin EXCEPT ![p] = [flow |-> PriceOracle(p), request |-> PriceOracle(p)]]

\* Whatever the pool queues, it sends a request unless one is outstanding.
SendQuexRequest(p) ==
  /\ pool[p].requestId = 0
  /\ QuexCore(p) # NoCore
  /\ Len(requests[QuexCore(p)]) < MaxRequests
  /\ RequestKnownFlow(p) \/ RequestNewFlow(p)
  /\ UNCHANGED <<oracle, specificOracle>>

\* Core c sends its answer to request n to p.
AnswersTo(c, n, p) ==
  /\ n \in 1..Len(requests[c])
  /\ flows[c][requests[c][n]].consumer = p

\* quexCallback, called by Quex core c with its answer to request n: early or
\* late, once or again.
QuexCallback(c, n, p) ==
  /\ AnswersTo(c, n, p)
  /\ c = QuexCore(p)
  /\ n = pool[p].requestId
  /\ pool' = [pool EXCEPT ![p].requestId = 0]
  /\ UNCHANGED <<oracle, specificOracle, flows, requests, origin>>

ResetOracleRequestId(p) ==
  /\ pool' = [pool EXCEPT ![p].requestId = 0]
  /\ UNCHANGED <<oracle, specificOracle, flows, requests, origin>>

Next ==
  \/ \E o \in Oracles, c \in QuexCores : SetQuexCore(o, c)
  \/ \E o \in Oracles, feed \in Feeds : SetQuexFlow(o, feed)
  \/ \E p \in Pools, o \in Oracles : SetSpecificOracle(p, o)
  \/ \E p \in Pools : RemoveSpecificOracle(p) \/ SendQuexRequest(p) \/ ResetOracleRequestId(p)
  \/ \E p \in Pools, c \in QuexCores : QuexCallback(c, pool[p].requestId, p)

Spec == Init /\ [][Next]_vars

-----------------------------------------------------------------------------
(* Properties                                                              *)

\* Every variable keeps its type, and a request is for a flow its core knows.
QuexTypeOK ==
  /\ oracle \in [Oracles -> [quexCore : QuexCores \cup {NoCore}, feed : Feeds \cup {NoFeed},
                             quexFlowVersion : Nat]]
  /\ specificOracle \in [Pools -> Oracles \cup {NoOracle}]
  /\ pool \in [Pools -> [quexFlowId : Nat, quexFlowVersion : Nat, requestId : Nat]]
  /\ flows \in [QuexCores -> Seq([feed : Feeds, consumer : Pools])]
  /\ requests \in [QuexCores -> Seq(Nat)]
  /\ origin \in [Pools -> [flow : Oracles \cup {NoOracle}, request : Oracles \cup {NoOracle}]]
  /\ \A c \in QuexCores : \A n \in 1..Len(requests[c]) : Registered(c, requests[c][n])

\* A pool that has the version of the oracle its flow is from has the flow of
\* that oracle's feed, with the pool as consumer: however often the feed is
\* replaced, and whatever other oracles were set and removed meanwhile, equal
\* versions of one oracle mean an up-to-date flow (sendQuexRequest compares
\* nothing else).
EqualVersionsEqualFeeds ==
  \A p \in Pools :
    LET o == origin[p].flow
    IN (o # NoOracle /\ pool[p].quexFlowVersion = oracle[o].quexFlowVersion) =>
          /\ oracle[o].quexCore # NoCore
          /\ Registered(oracle[o].quexCore, pool[p].quexFlowId)
          /\ flows[oracle[o].quexCore][pool[p].quexFlowId] =
               [feed |-> oracle[o].feed, consumer |-> p]

\* quexCallback of p accepts the answer to the outstanding request.
Answerable(p) ==
  /\ QuexCore(p) # NoCore
  /\ AnswersTo(QuexCore(p), pool[p].requestId, p)

\* A request made by the oracle that p's flow is from can be answered as long
\* as that oracle is p's: new feeds, versions and flows of others, resets and
\* the oracles p had in between do not get in the way.
OwnRequestIsAnswerable ==
  \A p \in Pools :
    ( /\ pool[p].requestId # 0
      /\ origin[p].request = PriceOracle(p)
      /\ origin[p].flow = PriceOracle(p) ) => Answerable(p)

\* Only another oracle makes an answer unacceptable that was acceptable before:
\* no one who sets feeds or cores or sends requests of other pools can.
OnlyANewOracleOrphans ==
  [][\A p \in Pools :
       ( /\ Answerable(p)
         /\ pool'[p].requestId = pool[p].requestId
         /\ PriceOracle(p)' = PriceOracle(p) ) => Answerable(p)']_vars
=============================================================================
