-------------------------- MODULE QuexFlow_proofs --------------------------
(***************************************************************************)
(* The properties of QuexFlow, for any pools, oracles, Quex cores and      *)
(* feeds.                                                                  *)
(***************************************************************************)
EXTENDS QuexFlow, TLAPS

\* A pool's flow is registered at the core of the oracle it is from and answers
\* to the pool; the oracle has not gone back behind the flow's version.
FlowIsHome ==
  \A p \in Pools :
    LET o == origin[p].flow
    IN o # NoOracle =>
         /\ oracle[o].quexCore # NoCore
         /\ Registered(oracle[o].quexCore, pool[p].quexFlowId)
         /\ flows[oracle[o].quexCore][pool[p].quexFlowId].consumer = p
         /\ pool[p].quexFlowVersion <= oracle[o].quexFlowVersion
         /\ pool[p].quexFlowVersion = oracle[o].quexFlowVersion =>
              flows[oracle[o].quexCore][pool[p].quexFlowId].feed = oracle[o].feed

\* An outstanding request exists at the core of the oracle that made it, and
\* answers to the pool if the pool's flow is from that oracle.
RequestIsHome ==
  \A p \in Pools :
    LET o == origin[p].request
    IN pool[p].requestId # 0 =>
         /\ o # NoOracle
         /\ oracle[o].quexCore # NoCore
         /\ pool[p].requestId <= Len(requests[oracle[o].quexCore])
         /\ origin[p].flow = o =>
              flows[oracle[o].quexCore]
                   [requests[oracle[o].quexCore][pool[p].requestId]].consumer = p

QuexInv == QuexTypeOK /\ FlowIsHome /\ RequestIsHome

-----------------------------------------------------------------------------

\* Flows and requests only grow: what is registered or requested stays as it is.
Grows ==
  /\ \A c \in QuexCores : \A i \in 1..Len(flows[c]) :
       i \in 1..Len(flows'[c]) /\ flows'[c][i] = flows[c][i]
  /\ \A c \in QuexCores : \A n \in 1..Len(requests[c]) :
       n \in 1..Len(requests'[c]) /\ requests'[c][n] = requests[c][n]

LEMMA PriceOracleType ==
  ASSUME QuexTypeOK, NEW p \in Pools
  PROVE  PriceOracle(p) \in Oracles /\ QuexCore(p) \in QuexCores \cup {NoCore}
BY QuexAssumption DEF QuexTypeOK, PriceOracle, QuexCore

\* What sendQuexRequest does to the state, field by field.
LEMMA SendFacts ==
  ASSUME QuexTypeOK, NEW p \in Pools, SendQuexRequest(p)
  PROVE  LET o == PriceOracle(p)
             c == QuexCore(p)
         IN /\ o \in Oracles /\ c \in QuexCores /\ c = oracle[o].quexCore
            /\ UNCHANGED <<oracle, specificOracle>>
            /\ requests' = [requests EXCEPT ![c] = Append(@, pool'[p].quexFlowId)]
            /\ pool' = [pool EXCEPT ![p] = pool'[p]]
            /\ pool'[p] \in [quexFlowId : Nat, quexFlowVersion : Nat, requestId : Nat]
            /\ pool'[p].requestId = Len(requests[c]) + 1
            /\ pool'[p].quexFlowVersion = oracle[o].quexFlowVersion
            /\ pool[p].requestId = 0
            /\ origin' = [origin EXCEPT ![p] = origin'[p]]
            /\ origin'[p] \in [flow : Oracles \cup {NoOracle}, request : Oracles \cup {NoOracle}]
            /\ origin'[p].request = o
            /\ \/ /\ UNCHANGED flows
                  /\ Registered(c, pool[p].quexFlowId)
                  /\ pool'[p].quexFlowId = pool[p].quexFlowId
                  /\ pool[p].quexFlowVersion = oracle[o].quexFlowVersion
                  /\ origin'[p].flow = origin[p].flow
               \/ /\ flows' = [flows EXCEPT ![c] = Append(@, NewFlow(p))]
                  /\ NewFlow(p) \in [feed : Feeds, consumer : Pools]
                  /\ NewFlow(p).feed = oracle[o].feed
                  /\ NewFlow(p).consumer = p
                  /\ pool'[p].quexFlowId = Len(flows[c]) + 1
                  /\ origin'[p].flow = o
<1> DEFINE o == PriceOracle(p)
           c == QuexCore(p)
<1>1. /\ o \in Oracles /\ c \in QuexCores /\ c = oracle[o].quexCore
      /\ UNCHANGED <<oracle, specificOracle>>
      /\ pool[p].requestId = 0
  BY PriceOracleType DEF SendQuexRequest, QuexCore
<1>2. /\ pool[p] \in [quexFlowId : Nat, quexFlowVersion : Nat, requestId : Nat]
      /\ origin[p] \in [flow : Oracles \cup {NoOracle}, request : Oracles \cup {NoOracle}]
      /\ requests[c] \in Seq(Nat) /\ flows[c] \in Seq([feed : Feeds, consumer : Pools])
      /\ oracle[o].quexFlowVersion \in Nat /\ oracle[o].feed \in Feeds \cup {NoFeed}
      /\ DOMAIN pool = Pools /\ DOMAIN origin = Pools
  BY <1>1 DEF QuexTypeOK
<1>3. CASE RequestKnownFlow(p)
  BY <1>1, <1>2, <1>3 DEF RequestKnownFlow, FlowIsStale
<1>4. CASE RequestNewFlow(p)
  <2>1. NewFlow(p) \in [feed : Feeds, consumer : Pools]
    BY <1>1, <1>2, <1>4 DEF RequestNewFlow, NewFlow
  <2>. QED BY <1>1, <1>2, <1>4, <2>1 DEF RequestNewFlow, NewFlow
<1>. QED BY <1>3, <1>4 DEF SendQuexRequest

\* SendQuexRequest keeps the types and only adds flows and requests.
LEMMA SendGrows ==
  ASSUME QuexTypeOK, NEW p \in Pools, SendQuexRequest(p)
  PROVE  QuexTypeOK' /\ Grows
<1> DEFINE o == PriceOracle(p)
           c == QuexCore(p)
<1>1. /\ c \in QuexCores /\ requests[c] \in Seq(Nat)
      /\ flows[c] \in Seq([feed : Feeds, consumer : Pools])
      /\ DOMAIN requests = QuexCores /\ DOMAIN flows = QuexCores
  BY SendFacts DEF QuexTypeOK
<1>2. /\ pool'[p].quexFlowId \in Nat
      /\ requests' = [requests EXCEPT ![c] = Append(@, pool'[p].quexFlowId)]
  BY SendFacts
<1>3. /\ flows' \in [QuexCores -> Seq([feed : Feeds, consumer : Pools])]
      /\ \A d \in QuexCores : \A i \in 1..Len(flows[d]) :
           i \in 1..Len(flows'[d]) /\ flows'[d][i] = flows[d][i]
      /\ pool'[p].quexFlowId \in 1..Len(flows'[c])
  <2>1. CASE UNCHANGED flows /\ pool'[p].quexFlowId = pool[p].quexFlowId
                /\ Registered(c, pool[p].quexFlowId)
    BY <1>1, <2>1 DEF QuexTypeOK, Registered
  <2>2. CASE /\ flows' = [flows EXCEPT ![c] = Append(@, NewFlow(p))]
             /\ NewFlow(p) \in [feed : Feeds, consumer : Pools]
             /\ pool'[p].quexFlowId = Len(flows[c]) + 1
    <3> DEFINE Flow == [feed : Feeds, consumer : Pools]
               longer == Append(flows[c], NewFlow(p))
    <3>1. flows[c] \in Seq(Flow) /\ NewFlow(p) \in Flow
      BY <1>1, <2>2
    <3> HIDE DEF Flow
    <3>2. /\ longer \in Seq(Flow) /\ Len(longer) = Len(flows[c]) + 1
          /\ \A i \in 1..Len(flows[c]) : i \in 1..Len(longer) /\ longer[i] = flows[c][i]
          /\ Len(flows[c]) \in Nat
      BY <3>1
    <3>3. /\ flows' = [flows EXCEPT ![c] = longer] /\ flows'[c] = longer
          /\ \A d \in QuexCores : d # c => flows'[d] = flows[d]
      BY <1>1, <2>2
    <3>4. flows \in [QuexCores -> Seq(Flow)]
      BY DEF QuexTypeOK, Flow
    <3>5. \A d \in QuexCores : \A i \in 1..Len(flows[d]) :
            i \in 1..Len(flows'[d]) /\ flows'[d][i] = flows[d][i]
      BY <3>2, <3>3
    <3>6. flows' \in [QuexCores -> Seq(Flow)]
      BY <1>1, <3>2, <3>3, <3>4
    <3>7. pool'[p].quexFlowId \in 1..Len(flows'[c])
      BY <2>2, <3>2, <3>3
    <3>. QED BY <3>5, <3>6, <3>7 DEF Flow
  <2>3. \/ UNCHANGED flows /\ pool'[p].quexFlowId = pool[p].quexFlowId
           /\ Registered(c, pool[p].quexFlowId)
        \/ /\ flows' = [flows EXCEPT ![c] = Append(@, NewFlow(p))]
           /\ NewFlow(p) \in [feed : Feeds, consumer : Pools]
           /\ pool'[p].quexFlowId = Len(flows[c]) + 1
    BY SendFacts
  <2>. QED BY <2>1, <2>2, <2>3
<1>4. /\ requests' \in [QuexCores -> Seq(Nat)]
      /\ \A d \in QuexCores : \A n \in 1..Len(requests[d]) :
           n \in 1..Len(requests'[d]) /\ requests'[d][n] = requests[d][n]
      /\ \A d \in QuexCores : \A n \in 1..Len(requests'[d]) :
           \/ n \in 1..Len(requests[d]) /\ requests'[d][n] = requests[d][n]
           \/ d = c /\ requests'[d][n] = pool'[p].quexFlowId
  BY <1>1, <1>2 DEF QuexTypeOK
<1>5. \A d \in QuexCores : \A n \in 1..Len(requests'[d]) : requests'[d][n] \in 1..Len(flows'[d])
  <2> SUFFICES ASSUME NEW d \in QuexCores, NEW n \in 1..Len(requests'[d])
               PROVE  requests'[d][n] \in 1..Len(flows'[d])
    OBVIOUS
  <2>1. CASE n \in 1..Len(requests[d]) /\ requests'[d][n] = requests[d][n]
    <3>1. requests[d][n] \in 1..Len(flows[d])
      BY <2>1 DEF QuexTypeOK, Registered
    <3>. QED BY <1>3, <2>1, <3>1
  <2>2. CASE d = c /\ requests'[d][n] = pool'[p].quexFlowId
    BY <1>3, <2>2
  <2>. QED BY <1>4, <2>1, <2>2
<1>6. /\ pool' \in [Pools -> [quexFlowId : Nat, quexFlowVersion : Nat, requestId : Nat]]
      /\ origin' \in [Pools -> [flow : Oracles \cup {NoOracle},
                                 request : Oracles \cup {NoOracle}]]
      /\ oracle' = oracle /\ specificOracle' = specificOracle
  <2>1. /\ pool' = [pool EXCEPT ![p] = pool'[p]]
        /\ pool'[p] \in [quexFlowId : Nat, quexFlowVersion : Nat, requestId : Nat]
        /\ origin' = [origin EXCEPT ![p] = origin'[p]]
        /\ origin'[p] \in [flow : Oracles \cup {NoOracle}, request : Oracles \cup {NoOracle}]
        /\ oracle' = oracle /\ specificOracle' = specificOracle
    BY SendFacts
  <2>. QED BY <2>1 DEF QuexTypeOK
<1>7. Grows
  BY <1>3, <1>4 DEF Grows
<1>8. QuexTypeOK'
  BY <1>3, <1>4, <1>5, <1>6 DEF QuexTypeOK, Registered
<1>. QED BY <1>7, <1>8

LEMMA SendKeepsHome ==
  ASSUME QuexInv, NEW p \in Pools, SendQuexRequest(p)
  PROVE  FlowIsHome' /\ RequestIsHome'
<1> DEFINE o == PriceOracle(p)
           c == QuexCore(p)
<1>1. QuexTypeOK /\ QuexTypeOK' /\ Grows
  BY SendGrows DEF QuexInv
<1>2. \A q \in Pools : q # p => pool'[q] = pool[q] /\ origin'[q] = origin[q]
  <2>1. pool' = [pool EXCEPT ![p] = pool'[p]] /\ origin' = [origin EXCEPT ![p] = origin'[p]]
    BY <1>1, SendFacts
  <2>. QED BY <1>1, <2>1 DEF QuexTypeOK
<1>3. oracle' = oracle /\ o \in Oracles /\ c \in QuexCores /\ c = oracle[o].quexCore
  BY <1>1, SendFacts
<1>4. ASSUME NEW q \in Pools, origin'[q].flow # NoOracle
      PROVE  LET r == origin'[q].flow
             IN /\ oracle[r].quexCore # NoCore
                /\ pool'[q].quexFlowId \in 1..Len(flows'[oracle[r].quexCore])
                /\ flows'[oracle[r].quexCore][pool'[q].quexFlowId].consumer = q
                /\ pool'[q].quexFlowVersion <= oracle[r].quexFlowVersion
                /\ pool'[q].quexFlowVersion = oracle[r].quexFlowVersion =>
                     flows'[oracle[r].quexCore][pool'[q].quexFlowId].feed = oracle[r].feed
  <2> DEFINE r == origin'[q].flow
             d == oracle[r].quexCore
  <2>0. r \in Oracles /\ d \in QuexCores \cup {NoCore}
    BY <1>1, <1>4 DEF QuexTypeOK
  <2>1. CASE pool'[q].quexFlowId = pool[q].quexFlowId /\ origin'[q].flow = origin[q].flow
             /\ pool'[q].quexFlowVersion = pool[q].quexFlowVersion
    BY <1>1, <1>4, <2>0, <2>1, SMTT(30) DEF QuexInv, FlowIsHome, Registered, Grows
  <2>2. CASE q = p /\ ~ (pool'[q].quexFlowId = pool[q].quexFlowId
                         /\ origin'[q].flow = origin[q].flow
                         /\ pool'[q].quexFlowVersion = pool[q].quexFlowVersion)
    <3>1. /\ pool'[p].quexFlowVersion = oracle[o].quexFlowVersion
          /\ oracle[o].quexFlowVersion \in Nat
          /\ flows' = [flows EXCEPT ![c] = Append(@, NewFlow(p))]
          /\ NewFlow(p) \in [feed : Feeds, consumer : Pools]
          /\ NewFlow(p).feed = oracle[o].feed
          /\ NewFlow(p).consumer = p
          /\ pool'[p].quexFlowId = Len(flows[c]) + 1
          /\ origin'[p].flow = o
      BY <1>1, <1>3, <2>2, SendFacts DEF QuexTypeOK
    <3>2. /\ flows[c] \in Seq([feed : Feeds, consumer : Pools]) /\ DOMAIN flows = QuexCores
          /\ c # NoCore
      BY <1>1, <1>3, QuexAssumption DEF QuexTypeOK
    <3>3. /\ flows'[c] = Append(flows[c], NewFlow(p))
          /\ pool'[p].quexFlowId \in 1..Len(flows'[c])
          /\ flows'[c][pool'[p].quexFlowId] = NewFlow(p)
      BY <1>3, <3>1, <3>2
    <3>. QED BY <1>3, <2>2, <3>1, <3>2, <3>3
  <2>3. CASE q # p
    BY <1>2, <2>1, <2>3
  <2>. QED BY <2>1, <2>2, <2>3
<1>5. FlowIsHome'
  BY <1>3, <1>4 DEF FlowIsHome, Registered
<1>6. ASSUME NEW q \in Pools, pool'[q].requestId # 0
      PROVE  LET r == origin'[q].request
             IN /\ r # NoOracle
                /\ oracle[r].quexCore # NoCore
                /\ pool'[q].requestId <= Len(requests'[oracle[r].quexCore])
                /\ origin'[q].flow = r =>
                     flows'[oracle[r].quexCore]
                          [requests'[oracle[r].quexCore][pool'[q].requestId]].consumer = q
  <2>1. CASE q = p
    <3>1. /\ requests' = [requests EXCEPT ![c] = Append(@, pool'[p].quexFlowId)]
          /\ requests[c] \in Seq(Nat) /\ DOMAIN requests = QuexCores
          /\ pool'[p].requestId = Len(requests[c]) + 1
          /\ pool'[p].quexFlowId \in Nat
          /\ origin'[p].request = o
          /\ c # NoCore /\ o # NoOracle
      BY <1>1, <1>3, SendFacts, QuexAssumption DEF QuexTypeOK
    <3>2. /\ Len(requests'[c]) = Len(requests[c]) + 1
          /\ requests'[c][pool'[p].requestId] = pool'[p].quexFlowId
      BY <1>3, <3>1
    <3>3. origin'[p].flow = o => flows'[c][pool'[p].quexFlowId].consumer = p
      BY <1>3, <1>4, <3>1
    <3>. QED BY <1>3, <2>1, <3>1, <3>2, <3>3
  <2>2. CASE q # p
    <3> DEFINE r == origin[q].request
               d == oracle[r].quexCore
    <3>0. /\ pool'[q] = pool[q] /\ origin'[q] = origin[q]
          /\ pool[q].requestId \in Nat \ {0}
      BY <1>1, <1>2, <1>6, <2>2 DEF QuexTypeOK
    <3>1. /\ r # NoOracle /\ r \in Oracles /\ d \in QuexCores
          /\ pool[q].requestId \in 1..Len(requests[d])
          /\ requests[d][pool[q].requestId] \in 1..Len(flows[d])
      <4>1. /\ r # NoOracle /\ d # NoCore /\ pool[q].requestId <= Len(requests[d])
        BY <3>0 DEF QuexInv, RequestIsHome
      <4>2. r \in Oracles /\ d \in QuexCores
        BY <1>1, <4>1 DEF QuexTypeOK
      <4>3. requests[d] \in Seq(Nat)
        BY <1>1, <4>2 DEF QuexTypeOK
      <4>4. pool[q].requestId \in 1..Len(requests[d])
        BY <3>0, <4>1, <4>3
      <4>. QED BY <1>1, <4>1, <4>2, <4>4 DEF QuexTypeOK, Registered
    <3>2. /\ pool[q].requestId \in 1..Len(requests'[d])
          /\ requests'[d][pool[q].requestId] = requests[d][pool[q].requestId]
          /\ flows'[d][requests[d][pool[q].requestId]] = flows[d][requests[d][pool[q].requestId]]
      BY <1>1, <3>1 DEF Grows
    <3>3. /\ d # NoCore
          /\ origin[q].flow = r => flows[d][requests[d][pool[q].requestId]].consumer = q
      BY <3>0 DEF QuexInv, RequestIsHome
    <3>4. pool[q].requestId <= Len(requests'[d])
      <4>1. Len(requests'[d]) \in Nat
        BY <1>1, <3>1 DEF QuexTypeOK
      <4> DEFINE n == pool[q].requestId
                 l == Len(requests'[d])
      <4>2. n \in 1..l /\ l \in Nat
        BY <3>2, <4>1
      <4> HIDE DEF n, l
      <4>3. n <= l
        BY <4>2
      <4>. QED BY <4>3 DEF n, l
    <3>. QED BY <3>0, <3>1, <3>2, <3>3, <3>4
  <2>. QED BY <2>1, <2>2
<1>7. RequestIsHome'
  BY <1>3, <1>6 DEF RequestIsHome
<1>. QED BY <1>5, <1>7

-----------------------------------------------------------------------------

\* A step that leaves flows, requests and origins alone, gives no oracle another
\* core and at most forgets outstanding requests keeps the invariant.
LEMMA QuietStep ==
  ASSUME QuexInv,
         UNCHANGED <<flows, requests, origin>>,
         oracle' \in [Oracles -> [quexCore : QuexCores \cup {NoCore},
                                  feed : Feeds \cup {NoFeed}, quexFlowVersion : Nat]],
         specificOracle' \in [Pools -> Oracles \cup {NoOracle}],
         \A o \in Oracles :
            /\ oracle[o].quexCore # NoCore => oracle'[o].quexCore = oracle[o].quexCore
            /\ \/ oracle'[o].quexFlowVersion > oracle[o].quexFlowVersion
               \/ /\ oracle'[o].quexFlowVersion = oracle[o].quexFlowVersion
                  /\ oracle'[o].feed = oracle[o].feed,
         pool' \in [Pools -> [quexFlowId : Nat, quexFlowVersion : Nat, requestId : Nat]],
         \A p \in Pools :
            /\ pool'[p].quexFlowId = pool[p].quexFlowId
            /\ pool'[p].quexFlowVersion = pool[p].quexFlowVersion
            /\ pool'[p].requestId \in {0, pool[p].requestId}
  PROVE  QuexInv'
<1>1. QuexTypeOK'
  BY DEF QuexInv, QuexTypeOK, Registered
<1>2. \A p \in Pools : origin[p].flow \in Oracles \cup {NoOracle}
                       /\ origin[p].request \in Oracles \cup {NoOracle}
  BY DEF QuexInv, QuexTypeOK
<1>3. \A o \in Oracles : oracle[o].quexFlowVersion \in Nat /\ oracle'[o].quexFlowVersion \in Nat
  BY DEF QuexInv, QuexTypeOK
<1>4. \A p \in Pools : pool[p].quexFlowVersion \in Nat
  BY DEF QuexInv, QuexTypeOK
<1>5. ASSUME NEW p \in Pools, origin'[p].flow # NoOracle
      PROVE  LET o == origin'[p].flow
             IN /\ oracle'[o].quexCore # NoCore
                /\ pool'[p].quexFlowId \in 1..Len(flows'[oracle'[o].quexCore])
                /\ flows'[oracle'[o].quexCore][pool'[p].quexFlowId].consumer = p
                /\ pool'[p].quexFlowVersion <= oracle'[o].quexFlowVersion
                /\ pool'[p].quexFlowVersion = oracle'[o].quexFlowVersion =>
                     flows'[oracle'[o].quexCore][pool'[p].quexFlowId].feed = oracle'[o].feed
  <2> DEFINE o == origin[p].flow
             c == oracle[o].quexCore
  <2>1. /\ o \in Oracles /\ origin'[p].flow = o
        /\ oracle[o].quexFlowVersion \in Nat /\ oracle'[o].quexFlowVersion \in Nat
        /\ pool[p].quexFlowVersion \in Nat
    BY <1>2, <1>3, <1>4, <1>5
  <2>2. /\ c # NoCore /\ pool[p].quexFlowId \in 1..Len(flows[c])
        /\ flows[c][pool[p].quexFlowId].consumer = p
        /\ pool[p].quexFlowVersion <= oracle[o].quexFlowVersion
        /\ pool[p].quexFlowVersion = oracle[o].quexFlowVersion =>
             flows[c][pool[p].quexFlowId].feed = oracle[o].feed
    BY <1>5 DEF QuexInv, FlowIsHome, Registered
  <2>3. /\ oracle'[o].quexCore = c /\ flows' = flows
        /\ pool'[p].quexFlowId = pool[p].quexFlowId
        /\ pool'[p].quexFlowVersion = pool[p].quexFlowVersion
    BY <2>1, <2>2
  <2>4. \/ pool[p].quexFlowVersion < oracle'[o].quexFlowVersion
        \/ /\ oracle'[o].quexFlowVersion = oracle[o].quexFlowVersion
           /\ oracle'[o].feed = oracle[o].feed
    <3>1. \/ oracle'[o].quexFlowVersion > oracle[o].quexFlowVersion
          \/ /\ oracle'[o].quexFlowVersion = oracle[o].quexFlowVersion
             /\ oracle'[o].feed = oracle[o].feed
      BY <2>1
    <3>2. ASSUME NEW u \in Nat, NEW v \in Nat, NEW w \in Nat, u <= v, w > v
          PROVE  u < w
      BY <3>2
    <3>3. CASE oracle'[o].quexFlowVersion > oracle[o].quexFlowVersion
      BY <2>1, <2>2, <3>2, <3>3
    <3>. QED BY <3>1, <3>3
  <2>. QED BY <2>1, <2>2, <2>3, <2>4, SMTT(30)
<1>6. FlowIsHome'
  BY <1>5 DEF FlowIsHome, Registered
<1>7. RequestIsHome'
  BY <1>2, ZenonT(60) DEF QuexInv, RequestIsHome
<1>. QED BY <1>1, <1>6, <1>7 DEF QuexInv

\* The invariant holds from the start and every operation keeps it.
THEOREM QuexInvariant == Spec => []QuexInv
<1>1. Init => QuexInv
  BY QuexAssumption DEF Init, QuexInv, QuexTypeOK, FlowIsHome, RequestIsHome, Registered
<1>2. QuexInv /\ [Next]_vars => QuexInv'
  <2> SUFFICES ASSUME QuexInv, [Next]_vars
               PROVE  QuexInv'
    OBVIOUS
  <2>0. QuexTypeOK
    BY DEF QuexInv
  <2>1. ASSUME NEW o \in Oracles, NEW c \in QuexCores, SetQuexCore(o, c)
        PROVE  QuexInv'
    <3>1. /\ oracle' = [oracle EXCEPT ![o].quexCore = c] /\ oracle[o].quexCore = NoCore
          /\ UNCHANGED <<specificOracle, pool, flows, requests, origin>>
      BY <2>1 DEF SetQuexCore
    <3>2. \A a \in Oracles :
            /\ oracle'[a].quexFlowVersion = oracle[a].quexFlowVersion
            /\ oracle'[a].feed = oracle[a].feed
            /\ oracle[a].quexCore # NoCore => oracle'[a].quexCore = oracle[a].quexCore
      BY <2>0, <3>1 DEF QuexTypeOK
    <3>3. oracle' \in [Oracles -> [quexCore : QuexCores \cup {NoCore},
                                  feed : Feeds \cup {NoFeed}, quexFlowVersion : Nat]]
      BY <2>0, <3>1, ZenonT(60) DEF QuexTypeOK
    <3>4. /\ specificOracle' \in [Pools -> Oracles \cup {NoOracle}]
          /\ pool' \in [Pools -> [quexFlowId : Nat, quexFlowVersion : Nat, requestId : Nat]]
      BY <2>0, <3>1 DEF QuexTypeOK
    <3>. QED BY <3>1, <3>2, <3>3, <3>4, QuietStep
  <2>2. ASSUME NEW o \in Oracles, NEW feed \in Feeds, SetQuexFlow(o, feed)
        PROVE  QuexInv'
    <3>1. /\ oracle' = [oracle EXCEPT ![o].feed = feed, ![o].quexFlowVersion = @ + 1]
          /\ UNCHANGED <<specificOracle, pool, flows, requests, origin>>
      BY <2>2 DEF SetQuexFlow
    <3>2. \A a \in Oracles :
            /\ oracle'[a].quexCore = oracle[a].quexCore
            /\ \/ oracle'[a].quexFlowVersion > oracle[a].quexFlowVersion
               \/ /\ oracle'[a].quexFlowVersion = oracle[a].quexFlowVersion
                  /\ oracle'[a].feed = oracle[a].feed
      BY <2>0, <3>1 DEF QuexTypeOK
    <3>3. oracle' \in [Oracles -> [quexCore : QuexCores \cup {NoCore},
                                  feed : Feeds \cup {NoFeed}, quexFlowVersion : Nat]]
      <4>1. oracle \in [Oracles -> [quexCore : QuexCores \cup {NoCore},
                                    feed : Feeds \cup {NoFeed}, quexFlowVersion : Nat]]
        BY <2>0 DEF QuexTypeOK
      <4>2. oracle[o].quexFlowVersion + 1 \in Nat
        BY <4>1
      <4>3. [oracle[o] EXCEPT !.feed = feed, !.quexFlowVersion = @ + 1]
              \in [quexCore : QuexCores \cup {NoCore}, feed : Feeds \cup {NoFeed},
                   quexFlowVersion : Nat]
        BY <4>1, <4>2
      <4>4. oracle' = [oracle EXCEPT ![o] = [oracle[o] EXCEPT !.feed = feed,
                                                             !.quexFlowVersion = @ + 1]]
        BY <3>1, <4>1
      <4>. QED BY <4>1, <4>3, <4>4
    <3>4. /\ specificOracle' \in [Pools -> Oracles \cup {NoOracle}]
          /\ pool' \in [Pools -> [quexFlowId : Nat, quexFlowVersion : Nat, requestId : Nat]]
      BY <2>0, <3>1 DEF QuexTypeOK
    <3>. QED BY <3>1, <3>2, <3>3, <3>4, QuietStep
  <2>3. ASSUME NEW p \in Pools, NEW o \in Oracles, SetSpecificOracle(p, o)
        PROVE  QuexInv'
    BY <2>0, <2>3, QuietStep DEF SetSpecificOracle, QuexTypeOK
  <2>4. ASSUME NEW p \in Pools, RemoveSpecificOracle(p)
        PROVE  QuexInv'
    BY <2>0, <2>4, QuietStep DEF RemoveSpecificOracle, QuexTypeOK
  <2>5. ASSUME NEW p \in Pools, SendQuexRequest(p)
        PROVE  QuexInv'
    BY <2>0, <2>5, SendGrows, SendKeepsHome DEF QuexInv
  <2>6. ASSUME NEW p \in Pools, ResetOracleRequestId(p)
        PROVE  QuexInv'
    BY <2>0, <2>6, QuietStep DEF ResetOracleRequestId, QuexTypeOK
  <2>7. ASSUME NEW p \in Pools, NEW c \in QuexCores, QuexCallback(c, pool[p].requestId, p)
        PROVE  QuexInv'
    BY <2>0, <2>7, QuietStep DEF QuexCallback, QuexTypeOK
  <2>8. CASE UNCHANGED vars
    BY <2>0, <2>8, QuietStep DEF vars, QuexTypeOK
  <2>. QED BY <2>1, <2>2, <2>3, <2>4, <2>5, <2>6, <2>7, <2>8 DEF Next
<1>. QED BY <1>1, <1>2, PTL DEF Spec

\* All variables keep their types, and no request is for a flow its core does
\* not know.
THEOREM QuexTypeCorrect == Spec => []QuexTypeOK
<1>1. QuexInv => QuexTypeOK
  BY DEF QuexInv
<1>. QED BY <1>1, QuexInvariant, PTL

\* Equal versions of one oracle mean its current feed (sendQuexRequest).
THEOREM FlowsAreCurrent == Spec => []EqualVersionsEqualFeeds
<1>1. QuexInv => EqualVersionsEqualFeeds
  <2> SUFFICES ASSUME QuexInv, NEW p \in Pools,
                      origin[p].flow # NoOracle,
                      pool[p].quexFlowVersion = oracle[origin[p].flow].quexFlowVersion
               PROVE  LET o == origin[p].flow
                      IN /\ oracle[o].quexCore # NoCore
                         /\ Registered(oracle[o].quexCore, pool[p].quexFlowId)
                         /\ flows[oracle[o].quexCore][pool[p].quexFlowId] =
                              [feed |-> oracle[o].feed, consumer |-> p]
    BY DEF EqualVersionsEqualFeeds
  <2> DEFINE o == origin[p].flow
             c == oracle[o].quexCore
             flow == flows[c][pool[p].quexFlowId]
  <2>1. /\ c # NoCore /\ Registered(c, pool[p].quexFlowId)
        /\ flow.consumer = p /\ flow.feed = oracle[o].feed
    BY DEF QuexInv, FlowIsHome
  <2>2. flow \in [feed : Feeds, consumer : Pools]
    <3> DEFINE Flow == [feed : Feeds, consumer : Pools]
               i == pool[p].quexFlowId
               sequence == flows[c]
    <3>1. c \in QuexCores
      BY <2>1 DEF QuexInv, QuexTypeOK
    <3>2. sequence \in Seq(Flow)
      BY <3>1 DEF QuexInv, QuexTypeOK
    <3>3. i \in 1..Len(sequence)
      BY <2>1 DEF Registered
    <3>4. sequence[i] \in Flow
      <4> HIDE DEF Flow, i, sequence
      <4>. QED BY <3>2, <3>3
    <3>. QED BY <3>4
  <2>3. flow = [feed |-> oracle[o].feed, consumer |-> p]
    BY <2>1, <2>2
  <2>. QED BY <2>1, <2>3
<1>. QED BY <1>1, QuexInvariant, PTL

\* What a pool asked of the oracle its flow is from can be answered.
THEOREM OwnRequestsAreAnswerable == Spec => []OwnRequestIsAnswerable
<1>1. QuexInv => OwnRequestIsAnswerable
  <2> SUFFICES ASSUME QuexInv, NEW p \in Pools, pool[p].requestId # 0,
                      origin[p].request = PriceOracle(p), origin[p].flow = PriceOracle(p)
               PROVE  Answerable(p)
    BY DEF OwnRequestIsAnswerable
  <2>1. pool[p].requestId \in Nat \ {0} /\ PriceOracle(p) \in Oracles
    BY PriceOracleType DEF QuexInv, QuexTypeOK
  <2>2. /\ QuexCore(p) # NoCore
        /\ pool[p].requestId <= Len(requests[QuexCore(p)])
        /\ flows[QuexCore(p)][requests[QuexCore(p)][pool[p].requestId]].consumer = p
    BY DEF QuexInv, RequestIsHome, QuexCore
  <2>3. Len(requests[QuexCore(p)]) \in Nat
    BY <2>1, <2>2 DEF QuexInv, QuexTypeOK, QuexCore
  <2>4. pool[p].requestId \in 1..Len(requests[QuexCore(p)])
    BY <2>1, <2>2, <2>3
  <2>. QED BY <2>2, <2>4 DEF Answerable, AnswersTo
<1>. QED BY <1>1, QuexInvariant, PTL

\* As long as a pool keeps its oracle and its request, nothing makes the answer
\* unacceptable.
THEOREM OnlyNewOracles == Spec => OnlyANewOracleOrphans
<1> DEFINE Kept == \A p \in Pools :
       ( /\ Answerable(p)
         /\ pool'[p].requestId = pool[p].requestId
         /\ PriceOracle(p)' = PriceOracle(p) ) => Answerable(p)'
<1>1. QuexInv /\ [Next]_vars => [Kept]_vars
  <2> SUFFICES ASSUME QuexTypeOK, Next, NEW p \in Pools, Answerable(p),
                      pool'[p].requestId = pool[p].requestId,
                      PriceOracle(p)' = PriceOracle(p)
               PROVE  Answerable(p)'
    BY DEF QuexInv
  <2>1. Grows
    <3>1. CASE \E q \in Pools : SendQuexRequest(q)
      BY <3>1, SendGrows
    <3>2. CASE UNCHANGED <<flows, requests>>
      BY <3>2 DEF Grows
    <3>. QED BY <3>1, <3>2 DEF Next, SetQuexCore, SetQuexFlow, SetSpecificOracle,
                RemoveSpecificOracle, ResetOracleRequestId, QuexCallback
  <2>2. \A o \in Oracles : oracle[o].quexCore # NoCore => oracle'[o].quexCore = oracle[o].quexCore
    <3>1. CASE \E o \in Oracles, d \in QuexCores : SetQuexCore(o, d)
      BY <3>1 DEF SetQuexCore, QuexTypeOK
    <3>2. CASE \E o \in Oracles, feed \in Feeds : SetQuexFlow(o, feed)
      BY <3>2 DEF SetQuexFlow, QuexTypeOK
    <3>3. CASE UNCHANGED oracle
      BY <3>3
    <3>. QED BY <3>1, <3>2, <3>3 DEF Next, SetSpecificOracle, RemoveSpecificOracle,
                SendQuexRequest, ResetOracleRequestId, QuexCallback
  <2>3. QuexCore(p) \in QuexCores /\ QuexCore(p)' = QuexCore(p)
    BY <2>2, PriceOracleType DEF Answerable, QuexCore
  <2> DEFINE c == QuexCore(p)
             n == pool[p].requestId
  <2>4. n \in 1..Len(requests[c]) /\ flows[c][requests[c][n]].consumer = p
    BY DEF Answerable, AnswersTo
  <2>5. requests[c][n] \in 1..Len(flows[c])
    BY <2>3, <2>4 DEF QuexTypeOK, Registered
  <2>6. /\ n \in 1..Len(requests'[c]) /\ requests'[c][n] = requests[c][n]
        /\ flows'[c][requests[c][n]] = flows[c][requests[c][n]]
    BY <2>1, <2>3, <2>4, <2>5 DEF Grows
  <2>7. AnswersTo(c, n, p)'
    BY <2>3, <2>4, <2>6 DEF AnswersTo
  <2>. QED BY <2>3, <2>7, QuexAssumption DEF Answerable
<1>. QED BY <1>1, QuexInvariant, PTL DEF Spec, OnlyANewOracleOrphans
=============================================================================
