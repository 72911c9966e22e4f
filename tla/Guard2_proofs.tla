---------------------------- MODULE Guard2_proofs ----------------------------
(***************************************************************************)
(* What Guard2 and the scripts promise, for any addresses, directives and  *)
(* calls.  The lists stay sound and the list FROM_LIST reads changes only  *)
(* with first entries, by an invariant of the operations; the rest is what *)
(* the loops over bytes compute, by induction on the rounds that are left: *)
(* the two loops of Guard2 agree on the length of a call, the validator    *)
(* agrees with Guard2, and what is printed for a call allows it.           *)
(***************************************************************************)
EXTENDS GuardScripts, Recursion_proofs

Entry         == {EntryOf(b) : b \in {x \in ListedBlobs : Acceptable(x)}}
SignDirective == {d \in ListedSignatures : ValidSignDirective(d)}

\* The inductive invariant: types, and the limits.
GuardInv ==
  /\ whitelist \in [Addresses -> Seq(Entry)]
  /\ eip712Whitelist \in Seq(SignDirective)
  /\ \A a \in Addresses : Len(whitelist[a]) <= MaxDirectives
  /\ Len(eip712Whitelist) <= MaxDirectives

-----------------------------------------------------------------------------
\* What a call appends is a sequence of entries.
LEMMA PushedType ==
  ASSUME NEW a \in Addresses, NEW targets \in TargetLists, NEW directives \in Batches,
         \A i \in DOMAIN directives : Acceptable(directives[i])
  PROVE  Pushed(a, targets, directives) \in Seq(Entry)
<1> DEFINE at    == {k \in DOMAIN targets : targets[k] = a}
           times == Cardinality(at)
           total == times * Len(directives)
<1>1. times \in Nat
  <2>1. targets \in Seq(Addresses)
    BY GuardAssumption
  <2>2. DOMAIN targets = 1..Len(targets) /\ Len(targets) \in Nat
    BY <2>1
  <2>3. IsFiniteSet(1..Len(targets))
    BY <2>2, FS_Interval
  <2>4. IsFiniteSet(at)
    BY <2>2, <2>3, FS_Subset
  <2>. QED BY <2>4, FS_CardinalityType
<1>2. directives \in Seq(ListedBlobs) /\ Len(directives) \in Nat
  BY GuardAssumption
<1>3. total \in Nat
  BY <1>1, <1>2
<1>4. ASSUME NEW n \in 1..total
      PROVE  EntryOf(directives[((n - 1) \div times) + 1]) \in Entry
  <2>1. times # 0 /\ Len(directives) # 0
    BY <1>1, <1>2, <1>4
  <2>. DEFINE c == Len(directives) - 1
              q == (n - 1) \div times
  <2>2. times \in Nat \ {0} /\ n - 1 \in Nat /\ c \in Nat
    BY <1>1, <1>2, <1>3, <2>1
  <2>3. q \in Nat /\ q * times <= n - 1
    <3>. HIDE DEF times
    <3>. QED BY <2>2
  <2>4. q <= c
    <3>. SUFFICES ASSUME q >= c + 1 PROVE FALSE
      BY <2>2, <2>3
    <3>. HIDE DEF times, q
    <3>1. q * times >= (c + 1) * times
      BY <2>2, <2>3
    <3>. QED BY <1>2, <2>2, <2>3, <3>1
  <2>5. q + 1 \in DOMAIN directives
    BY <1>2, <2>3, <2>4
  <2>6. directives[q + 1] \in ListedBlobs
    BY <1>2, <2>5
  <2>. QED BY <2>5, <2>6 DEF Entry
<1>. HIDE DEF total
<1>5. Pushed(a, targets, directives)
        = [n \in 1..total |-> EntryOf(directives[((n - 1) \div times) + 1])]
  BY DEF Pushed, total
<1>. QED BY <1>3, <1>4, <1>5

\* Removing an entry leaves a sequence of the others.
LEMMA SwapRemovedType ==
  ASSUME NEW S, NEW seq \in Seq(S), NEW idx \in DOMAIN seq
  PROVE  /\ SwapRemoved(seq, idx) \in Seq(S)
         /\ Len(SwapRemoved(seq, idx)) = Len(seq) - 1
         /\ (idx # 1 /\ SwapRemoved(seq, idx) # <<>>) => SwapRemoved(seq, idx)[1] = seq[1]
<1> DEFINE swapped == [seq EXCEPT ![idx] = seq[Len(seq)]]
<1>1. Len(seq) \in Nat \ {0} /\ DOMAIN seq = 1..Len(seq)
  OBVIOUS
<1>2. seq[Len(seq)] \in S
  BY <1>1
<1>3. swapped \in Seq(S) /\ Len(swapped) = Len(seq)
  BY <1>1, <1>2
<1>4. idx # 1 => swapped[1] = seq[1]
  BY <1>1
<1>. HIDE DEF swapped
<1>5. SwapRemoved(seq, idx) = SubSeq(swapped, 1, Len(seq) - 1)
  BY <1>3 DEF SwapRemoved, Front, Last, swapped
<1>. QED BY <1>1, <1>3, <1>4, <1>5

\* The lists stay within their limits and hold accepted directives.
THEOREM GuardInvariant == Spec => []GuardInv
<1>1. Init => GuardInv
  BY GuardAssumption DEF Init, GuardInv
<1>2. GuardInv /\ [Next]_vars => GuardInv'
  <2> SUFFICES ASSUME GuardInv, [Next]_vars
               PROVE  GuardInv'
    OBVIOUS
  <2>. USE DEF GuardInv
  <2>1. ASSUME NEW targets \in TargetLists, NEW directives \in Batches,
               WhitelistProtocol(targets, directives)
        PROVE  GuardInv'
    <3>1. \A a \in Addresses : Pushed(a, targets, directives) \in Seq(Entry)
      BY <2>1, PushedType DEF WhitelistProtocol
    <3>2. whitelist' = [a \in Addresses |-> whitelist[a] \o Pushed(a, targets, directives)]
      BY <2>1 DEF WhitelistProtocol
    <3>3. \A a \in Addresses : whitelist[a] \o Pushed(a, targets, directives) \in Seq(Entry)
      BY <3>1
    <3>4. ASSUME NEW a \in Addresses
          PROVE  Len(whitelist'[a]) <= MaxDirectives
      <4>1. CASE \E i \in DOMAIN targets : targets[i] = a
        BY <2>1, <3>2, <4>1 DEF WhitelistProtocol
      <4>2. CASE \A i \in DOMAIN targets : targets[i] # a
        <5>1. {k \in DOMAIN targets : targets[k] = a} = {}
          BY <4>2
        <5>2. Pushed(a, targets, directives) = <<>>
          <6>1. directives \in Seq(ListedBlobs)
            BY GuardAssumption
          <6>2. 0 * Len(directives) = 0
            BY <6>1
          <6>3. Cardinality({k \in DOMAIN targets : targets[k] = a}) = 0
            BY <5>1, FS_EmptySet
          <6>4. DOMAIN Pushed(a, targets, directives) = 1..0
            BY <6>2, <6>3 DEF Pushed
          <6>. QED BY <3>1, <6>4
        <5>. QED BY <3>2, <5>2
      <4>. QED BY <4>1, <4>2
    <3>5. whitelist' \in [Addresses -> Seq(Entry)]
      BY <3>2, <3>3
    <3>. QED BY <2>1, <3>4, <3>5 DEF WhitelistProtocol
  <2>2. ASSUME NEW directives \in SignBatches, WhitelistEIP712(directives)
        PROVE  GuardInv'
    <3>1. directives \in Seq(ListedSignatures)
      BY GuardAssumption
    <3>2. directives \in Seq(SignDirective)
      BY <2>2, <3>1 DEF WhitelistEIP712, SignDirective
    <3>. QED BY <2>2, <3>2 DEF WhitelistEIP712
  <2>3. ASSUME NEW a \in Addresses, NEW idx \in DOMAIN whitelist[a], UnwhitelistProtocol(a, idx)
        PROVE  GuardInv'
    <3>1. whitelist[a] \in Seq(Entry) /\ Len(whitelist[a]) \in Nat
      OBVIOUS
    <3>2. /\ SwapRemoved(whitelist[a], idx) \in Seq(Entry)
          /\ Len(SwapRemoved(whitelist[a], idx)) = Len(whitelist[a]) - 1
      BY <3>1, SwapRemovedType
    <3>3. /\ whitelist' = [whitelist EXCEPT ![a] = SwapRemoved(whitelist[a], idx)]
          /\ UNCHANGED eip712Whitelist
      BY <2>3 DEF UnwhitelistProtocol
    <3>. QED BY <3>1, <3>2, <3>3, GuardAssumption
  <2>4. ASSUME NEW idx \in DOMAIN eip712Whitelist, UnwhitelistEIP712(idx)
        PROVE  GuardInv'
    <3>1. /\ SwapRemoved(eip712Whitelist, idx) \in Seq(SignDirective)
          /\ Len(SwapRemoved(eip712Whitelist, idx)) = Len(eip712Whitelist) - 1
      BY SwapRemovedType
    <3>. QED BY <2>4, <3>1, GuardAssumption DEF UnwhitelistEIP712
  <2>5. CASE UNCHANGED vars
    BY <2>5 DEF vars
  <2>. QED BY <2>1, <2>2, <2>3, <2>4, <2>5 DEF Next
<1>. QED BY <1>1, <1>2, PTL DEF Spec

\* Whatever was listed, moved and removed: the lists are within their limits,
\* and every entry is one that was parsed, with its own length
\* (_whitelistProtocol, unwhitelistProtocol).
THEOREM ListsStaySound == Spec => []ListsAreSound
<1>1. GuardInv => ListsAreSound
  <2> SUFFICES ASSUME GuardInv PROVE ListsAreSound
    OBVIOUS
  <2>1. \A e \in Entries : e \in Entry
    BY DEF GuardInv, Entries, Range
  <2>2. \A e \in Entry : e = EntryOf(e.directives) /\ Acceptable(e.directives)
    BY DEF Entry, EntryOf
  <2>3. \A d \in Range(eip712Whitelist) : ValidSignDirective(d)
    BY DEF GuardInv, SignDirective, Range
  <2>. QED BY <2>1, <2>2, <2>3 DEF GuardInv, ListsAreSound
<1>. QED BY <1>1, GuardInvariant, PTL

\* An address gets on the list, or off it, only with its first entry, although
\* others take the places of those that are removed (unwhitelistProtocol).
THEOREM FirstEntryDecides == Spec => ListedByFirstEntry
<1> DEFINE Decided(a) ==
             (a \in Members) # (a \in Members') =>
               \/ whitelist[a] = <<>>
               \/ whitelist'[a] = SwapRemoved(whitelist[a], 1)
<1>1. GuardInv /\ GuardInv' /\ [Next]_vars => \A a \in Addresses : Decided(a)
  <2> SUFFICES ASSUME GuardInv, GuardInv', [Next]_vars, NEW a \in Addresses
               PROVE  Decided(a)
    OBVIOUS
  <2>0. whitelist[a] \in Seq(Entry) /\ whitelist'[a] \in Seq(Entry)
    BY DEF GuardInv
  <2>1. ASSUME whitelist[a] # <<>>, whitelist'[a] # <<>>, whitelist'[a][1] = whitelist[a][1]
        PROVE  Decided(a)
    BY <2>1 DEF Members, OnList
  <2>2. ASSUME NEW targets \in TargetLists, NEW directives \in Batches,
               WhitelistProtocol(targets, directives)
        PROVE  Decided(a)
    <3>1. whitelist'[a] = whitelist[a] \o Pushed(a, targets, directives)
      BY <2>2 DEF WhitelistProtocol
    <3>2. Pushed(a, targets, directives) \in Seq(Entry)
      BY <2>2, PushedType DEF WhitelistProtocol
    <3>3. CASE whitelist[a] # <<>>
      <4>1. whitelist'[a] # <<>> /\ whitelist'[a][1] = whitelist[a][1]
        BY <2>0, <3>1, <3>2, <3>3
      <4>. QED BY <2>1, <3>3, <4>1
    <3>. QED BY <3>3
  <2>3. ASSUME NEW b \in Addresses, NEW idx \in DOMAIN whitelist[b], UnwhitelistProtocol(b, idx)
        PROVE  Decided(a)
    <3>1. whitelist' = [whitelist EXCEPT ![b] = SwapRemoved(whitelist[b], idx)]
      BY <2>3 DEF UnwhitelistProtocol
    <3>2. CASE a # b
      <4>1. whitelist'[a] = whitelist[a]
        BY <3>1, <3>2 DEF GuardInv
      <4>. QED BY <4>1 DEF Members, OnList
    <3>3. CASE a = b
      <4>1. whitelist'[a] = SwapRemoved(whitelist[a], idx)
        BY <3>1, <3>3 DEF GuardInv
      <4>2. CASE idx = 1
        BY <4>1, <4>2
      <4>3. CASE idx # 1
        <5>1. Len(whitelist[a]) \in Nat /\ idx \in 2..Len(whitelist[a])
          BY <2>0, <2>3, <3>3, <4>3
        <5>2. /\ Len(whitelist'[a]) = Len(whitelist[a]) - 1
              /\ whitelist'[a] # <<>> => whitelist'[a][1] = whitelist[a][1]
          BY <2>0, <2>3, <3>3, <4>1, <4>3, SwapRemovedType
        <5>3. whitelist[a] # <<>> /\ whitelist'[a] # <<>>
          BY <2>0, <5>1, <5>2
        <5>. QED BY <2>1, <5>2, <5>3
      <4>. QED BY <4>2, <4>3
    <3>. QED BY <3>2, <3>3
  <2>4. ASSUME NEW directives \in SignBatches, WhitelistEIP712(directives)
        PROVE  Decided(a)
    BY <2>4 DEF WhitelistEIP712, Members, OnList
  <2>5. ASSUME NEW idx \in DOMAIN eip712Whitelist, UnwhitelistEIP712(idx)
        PROVE  Decided(a)
    BY <2>5 DEF UnwhitelistEIP712, Members, OnList
  <2>6. CASE UNCHANGED vars
    BY <2>6 DEF vars, Members, OnList
  <2>. QED BY <2>2, <2>3, <2>4, <2>5, <2>6 DEF Next
<1>2. GuardInv /\ GuardInv' /\ [Next]_vars => [\A a \in Addresses : Decided(a)]_vars
  BY <1>1
<1>. QED BY <1>2, GuardInvariant, PTL DEF Spec, ListedByFirstEntry

-----------------------------------------------------------------------------
(* The loops: each is a solution of its round.                             *)

\* A header is a number, and its span is positive.
LEMMA HeaderParts ==
  ASSUME NEW h \in Nat
  PROVE  TypeOf(h) \in Nat /\ SpanOf(h) \in 1..MaxSpan
BY DirectivesAssumption DEF TypeOf, SpanOf

\* Where the round at b of a blob goes on: later, at a number of bytes further.
LEMMA Onward ==
  ASSUME NEW blob \in Seq(Nat), NEW b \in Nat, b < Len(blob), NEW p \in Nat
  PROVE  /\ SpanOf(blob[b + 1]) \in Nat \ {0}
         /\ b + 1 \in Nat /\ b + 1 > b
         /\ b + 1 + SpanOf(blob[b + 1]) \in Nat /\ b + 1 + SpanOf(blob[b + 1]) > b
         /\ p + SpanOf(blob[b + 1]) \in Nat
         /\ p + SpanOf(blob[b + 1]) * WordLength \in Nat
<1>1. blob[b + 1] \in Nat
  OBVIOUS
<1>2. SpanOf(blob[b + 1]) \in 1..MaxSpan /\ MaxSpan \in Nat /\ WordLength \in Nat
  BY <1>1, HeaderParts, DirectivesAssumption
<1>. DEFINE span == SpanOf(blob[b + 1])
<1>. HIDE DEF span
<1>3. span \in Nat /\ span > 0
  BY <1>2 DEF span
<1>4. span * WordLength \in Nat
  BY <1>2, <1>3
<1>. QED BY <1>2, <1>3, <1>4, SMTT(30) DEF span

\* _matchDirective runs the rounds of MatchRound.
LEMMA MatchLoopRounds ==
  ASSUME NEW blob \in Seq(Nat), NEW payload \in Seq(Nat), NEW sender, NEW members,
         NEW b \in Nat, NEW p \in Nat
  PROVE  MatchLoop(blob, payload, sender, members)[b][p]
           = MatchRound(MatchLoop(blob, payload, sender, members),
                        blob, payload, sender, members, b, p)
<1> DEFINE V == {"yes", "no", "panic"}
           W == [Nat -> V]
           R(f, c, q) == MatchRound(f, blob, payload, sender, members, c, q)
           Round == [f \in [Nat -> W] |-> [c \in Nat |-> [q \in Nat |-> R(f, c, q)]]]
           Solves(f) == f = [c \in Nat |-> [q \in Nat |-> R(f, c, q)]]
<1>1. ASSUME NEW f \in [Nat -> W], NEW c \in Nat, NEW q \in Nat
      PROVE  R(f, c, q) \in V
  <2>1. CASE c < Len(blob)
    <3>. DEFINE span == SpanOf(blob[c + 1])
                exact == ExactBytes(blob, c + 1, payload, q, span)
    <3>1. /\ f[c + 1][q + span] \in V /\ f[c + 1 + span][q + span] \in V
          /\ f[c + 1][q + span * WordLength] \in V
      BY <2>1, Onward
    <3>2. exact \in V
      BY DEF ExactBytes
    <3>. QED BY <2>1, <3>1, <3>2 DEF MatchRound
  <2>2. CASE c >= Len(blob)
    BY <2>2 DEF MatchRound
  <2>. QED BY <2>1, <2>2
<1>2. ASSUME NEW f \in [Nat -> W], NEW g \in [Nat -> W], NEW c \in Nat,
             c < Len(blob) => \A d \in Nat : d > c => f[d] = g[d], NEW q \in Nat
      PROVE  R(f, c, q) = R(g, c, q)
  <2>1. CASE c < Len(blob)
    <3>. DEFINE span == SpanOf(blob[c + 1])
    <3>1. f[c + 1] = g[c + 1] /\ f[c + 1 + span] = g[c + 1 + span]
      BY <1>2, <2>1, Onward
    <3>. QED BY <3>1 DEF MatchRound
  <2>2. CASE c >= Len(blob)
    BY <2>2 DEF MatchRound
  <2>. QED BY <2>1, <2>2
<1>3. Round \in [[Nat -> W] -> [Nat -> W]]
  BY <1>1
<1>4. CountsLater(Round, V, Len(blob))
  <2>1. \A f \in [Nat -> W], c \in Nat, q \in Nat : Round[f][c][q] = R(f, c, q)
    OBVIOUS
  <2>2. ASSUME NEW f \in [Nat -> W], NEW g \in [Nat -> W], NEW c \in Nat, NEW q \in Nat,
               c < Len(blob) => \A d \in Nat : d > c => f[d] = g[d]
        PROVE  Round[f][c][q] = Round[g][c][q]
    <3>1. R(f, c, q) = R(g, c, q)
      BY <1>2, <2>2
    <3>2. Round[f][c][q] = R(f, c, q) /\ Round[g][c][q] = R(g, c, q)
      BY <2>1
    <3>. QED BY <3>1, <3>2, Zenon
  <2>. HIDE DEF Round
  <2>. QED BY <2>2 DEF CountsLater
<1>5. Len(blob) \in Nat /\ V # {}
  OBVIOUS
<1>6. \E f \in [Nat -> [Nat -> V]] : f = Round[f]
  <2>. HIDE DEF Round, V
  <2>. QED BY <1>3, <1>4, <1>5, CountingLoopHasSolution
<1>7. \E f : Solves(f)
  BY <1>6
<1>. DEFINE loop == MatchLoop(blob, payload, sender, members)
<1>8. loop = CHOOSE f : Solves(f)
  BY DEF MatchLoop
<1>9. Solves(loop)
  <2>. HIDE DEF Solves, loop
  <2>. QED BY <1>7, <1>8
<1>10. loop[b] = [q \in Nat |-> R(loop, b, q)]
  <2>. HIDE DEF loop
  <2>. QED BY <1>9
<1>. QED BY <1>10, Zenon

\* _whitelistProtocol runs the rounds of LengthRound.
LEMMA LengthLoopRounds ==
  ASSUME NEW blob \in Seq(Nat),
         NEW b \in Nat, NEW p \in Nat
  PROVE  LengthLoop(blob)[b][p]
           = LengthRound(LengthLoop(blob), blob, b, p)
<1> DEFINE V == Nat \cup {AnyLength, Invalid}
           W == [Nat -> V]
           R(f, c, q) == LengthRound(f, blob, c, q)
           Round == [f \in [Nat -> W] |-> [c \in Nat |-> [q \in Nat |-> R(f, c, q)]]]
           Solves(f) == f = [c \in Nat |-> [q \in Nat |-> R(f, c, q)]]
<1>1. ASSUME NEW f \in [Nat -> W], NEW c \in Nat, NEW q \in Nat
      PROVE  R(f, c, q) \in V
  <2>1. CASE c < Len(blob)
    <3>. DEFINE span == SpanOf(blob[c + 1])
    <3>1. /\ f[c + 1][q + span] \in V /\ f[c + 1 + span][q + span] \in V
          /\ f[c + 1][q + span * WordLength] \in V
      BY <2>1, Onward, ZenonT(60)
    <3>. QED BY <2>1, <3>1, SMTT(30) DEF LengthRound, Covered, WILDCARD_WORDS, EXACT, SELF, FROM_LIST
  <2>2. CASE c >= Len(blob)
    BY <2>2 DEF LengthRound
  <2>. QED BY <2>1, <2>2
<1>2. ASSUME NEW f \in [Nat -> W], NEW g \in [Nat -> W], NEW c \in Nat,
             c < Len(blob) => \A d \in Nat : d > c => f[d] = g[d], NEW q \in Nat
      PROVE  R(f, c, q) = R(g, c, q)
  <2>1. CASE c < Len(blob)
    <3>. DEFINE span == SpanOf(blob[c + 1])
    <3>1. f[c + 1] = g[c + 1] /\ f[c + 1 + span] = g[c + 1 + span]
      BY <1>2, <2>1, Onward
    <3>. QED BY <3>1 DEF LengthRound
  <2>2. CASE c >= Len(blob)
    BY <2>2 DEF LengthRound
  <2>. QED BY <2>1, <2>2
<1>3. Round \in [[Nat -> W] -> [Nat -> W]]
  BY <1>1
<1>4. CountsLater(Round, V, Len(blob))
  <2>1. \A f \in [Nat -> W], c \in Nat, q \in Nat : Round[f][c][q] = R(f, c, q)
    OBVIOUS
  <2>2. ASSUME NEW f \in [Nat -> W], NEW g \in [Nat -> W], NEW c \in Nat, NEW q \in Nat,
               c < Len(blob) => \A d \in Nat : d > c => f[d] = g[d]
        PROVE  Round[f][c][q] = Round[g][c][q]
    <3>1. R(f, c, q) = R(g, c, q)
      BY <1>2, <2>2
    <3>2. Round[f][c][q] = R(f, c, q) /\ Round[g][c][q] = R(g, c, q)
      BY <2>1
    <3>. QED BY <3>1, <3>2, Zenon
  <2>. HIDE DEF Round
  <2>. QED BY <2>2 DEF CountsLater
<1>5. Len(blob) \in Nat /\ V # {}
  OBVIOUS
<1>6. \E f \in [Nat -> [Nat -> V]] : f = Round[f]
  <2>. HIDE DEF Round, V
  <2>. QED BY <1>3, <1>4, <1>5, CountingLoopHasSolution
<1>7. \E f : Solves(f)
  BY <1>6
<1>. DEFINE loop == LengthLoop(blob)
<1>8. loop = CHOOSE f : Solves(f)
  BY DEF LengthLoop
<1>9. Solves(loop)
  <2>. HIDE DEF Solves, loop
  <2>. QED BY <1>7, <1>8
<1>10. loop[b] = [q \in Nat |-> R(loop, b, q)]
  <2>. HIDE DEF loop
  <2>. QED BY <1>9
<1>. QED BY <1>10, Zenon

\* The end is found by the rounds of EndRound.
LEMMA EndLoopRounds ==
  ASSUME NEW blob \in Seq(Nat),
         NEW b \in Nat, NEW p \in Nat
  PROVE  EndLoop(blob)[b][p]
           = EndRound(EndLoop(blob), blob, b, p)
<1> DEFINE V == [blob : Nat, call : Nat]
           W == [Nat -> V]
           R(f, c, q) == EndRound(f, blob, c, q)
           Round == [f \in [Nat -> W] |-> [c \in Nat |-> [q \in Nat |-> R(f, c, q)]]]
           Solves(f) == f = [c \in Nat |-> [q \in Nat |-> R(f, c, q)]]
<1>1. ASSUME NEW f \in [Nat -> W], NEW c \in Nat, NEW q \in Nat
      PROVE  R(f, c, q) \in V
  <2>1. CASE c < Len(blob)
    <3>. DEFINE span == SpanOf(blob[c + 1])
    <3>1. /\ f[c + 1][q + span] \in V /\ f[c + 1 + span][q + span] \in V
          /\ f[c + 1][q + span * WordLength] \in V
      BY <2>1, Onward
    <3>2. [blob |-> c, call |-> q] \in V
      OBVIOUS
    <3>3. R(f, c, q) \in {[blob |-> c, call |-> q], f[c + 1][q + span],
                           f[c + 1 + span][q + span], f[c + 1][q + span * WordLength]}
      BY <2>1 DEF EndRound, Covered
    <3>. HIDE DEF V, R, span
    <3>. QED BY <3>1, <3>2, <3>3
  <2>2. CASE c >= Len(blob)
    BY <2>2 DEF EndRound
  <2>. QED BY <2>1, <2>2
<1>2. ASSUME NEW f \in [Nat -> W], NEW g \in [Nat -> W], NEW c \in Nat,
             c < Len(blob) => \A d \in Nat : d > c => f[d] = g[d], NEW q \in Nat
      PROVE  R(f, c, q) = R(g, c, q)
  <2>1. CASE c < Len(blob)
    <3>. DEFINE span == SpanOf(blob[c + 1])
    <3>1. f[c + 1] = g[c + 1] /\ f[c + 1 + span] = g[c + 1 + span]
      BY <1>2, <2>1, Onward
    <3>. QED BY <3>1 DEF EndRound
  <2>2. CASE c >= Len(blob)
    BY <2>2 DEF EndRound
  <2>. QED BY <2>1, <2>2
<1>3. Round \in [[Nat -> W] -> [Nat -> W]]
  BY <1>1
<1>4. CountsLater(Round, V, Len(blob))
  <2>1. \A f \in [Nat -> W], c \in Nat, q \in Nat : Round[f][c][q] = R(f, c, q)
    OBVIOUS
  <2>2. ASSUME NEW f \in [Nat -> W], NEW g \in [Nat -> W], NEW c \in Nat, NEW q \in Nat,
               c < Len(blob) => \A d \in Nat : d > c => f[d] = g[d]
        PROVE  Round[f][c][q] = Round[g][c][q]
    <3>1. R(f, c, q) = R(g, c, q)
      BY <1>2, <2>2
    <3>2. Round[f][c][q] = R(f, c, q) /\ Round[g][c][q] = R(g, c, q)
      BY <2>1
    <3>. QED BY <3>1, <3>2, Zenon
  <2>. HIDE DEF Round
  <2>. QED BY <2>2 DEF CountsLater
<1>5. Len(blob) \in Nat /\ V # {}
  <2>1. [blob |-> 0, call |-> 0] \in V
    OBVIOUS
  <2>2. Len(blob) \in Nat
    OBVIOUS
  <2>. HIDE DEF V
  <2>. QED BY <2>1, <2>2
<1>6. \E f \in [Nat -> [Nat -> V]] : f = Round[f]
  <2>. HIDE DEF Round, V
  <2>. QED BY <1>3, <1>4, <1>5, CountingLoopHasSolution
<1>7. \E f : Solves(f)
  BY <1>6
<1>. DEFINE loop == EndLoop(blob)
<1>8. loop = CHOOSE f : Solves(f)
  BY DEF EndLoop
<1>9. Solves(loop)
  <2>. HIDE DEF Solves, loop
  <2>. QED BY <1>7, <1>8
<1>10. loop[b] = [q \in Nat |-> R(loop, b, q)]
  <2>. HIDE DEF loop
  <2>. QED BY <1>9
<1>. QED BY <1>10, Zenon

\* validateDirective runs the rounds of ValidateRound.
LEMMA ValidateLoopRounds ==
  ASSUME NEW data \in Seq(Nat), NEW dir \in Seq(Nat), NEW sender, NEW listed,
         NEW b \in Nat, NEW p \in Nat
  PROVE  ValidateLoop(data, dir, sender, listed)[b][p]
           = ValidateRound(ValidateLoop(data, dir, sender, listed), data, dir, sender, listed, b, p)
<1> DEFINE V == {"yes", "no"}
           W == [Nat -> V]
           R(f, c, q) == ValidateRound(f, data, dir, sender, listed, c, q)
           Round == [f \in [Nat -> W] |-> [c \in Nat |-> [q \in Nat |-> R(f, c, q)]]]
           Solves(f) == f = [c \in Nat |-> [q \in Nat |-> R(f, c, q)]]
<1>1. ASSUME NEW f \in [Nat -> W], NEW c \in Nat, NEW q \in Nat
      PROVE  R(f, c, q) \in V
  <2>1. CASE c < Len(dir)
    <3>. DEFINE span == SpanOf(dir[c + 1])
    <3>1. /\ f[c + 1][q + span] \in V /\ f[c + 1 + span][q + span] \in V
          /\ f[c + 1][q + span * WordLength] \in V
      BY <2>1, Onward
    <3>. QED BY <2>1, <3>1 DEF ValidateRound
  <2>2. CASE c >= Len(dir)
    BY <2>2 DEF ValidateRound
  <2>. QED BY <2>1, <2>2
<1>2. ASSUME NEW f \in [Nat -> W], NEW g \in [Nat -> W], NEW c \in Nat,
             c < Len(dir) => \A d \in Nat : d > c => f[d] = g[d], NEW q \in Nat
      PROVE  R(f, c, q) = R(g, c, q)
  <2>1. CASE c < Len(dir)
    <3>. DEFINE span == SpanOf(dir[c + 1])
    <3>1. f[c + 1] = g[c + 1] /\ f[c + 1 + span] = g[c + 1 + span]
      BY <1>2, <2>1, Onward
    <3>. QED BY <3>1 DEF ValidateRound
  <2>2. CASE c >= Len(dir)
    BY <2>2 DEF ValidateRound
  <2>. QED BY <2>1, <2>2
<1>3. Round \in [[Nat -> W] -> [Nat -> W]]
  BY <1>1
<1>4. CountsLater(Round, V, Len(dir))
  <2>1. \A f \in [Nat -> W], c \in Nat, q \in Nat : Round[f][c][q] = R(f, c, q)
    OBVIOUS
  <2>2. ASSUME NEW f \in [Nat -> W], NEW g \in [Nat -> W], NEW c \in Nat, NEW q \in Nat,
               c < Len(dir) => \A d \in Nat : d > c => f[d] = g[d]
        PROVE  Round[f][c][q] = Round[g][c][q]
    <3>1. R(f, c, q) = R(g, c, q)
      BY <1>2, <2>2
    <3>2. Round[f][c][q] = R(f, c, q) /\ Round[g][c][q] = R(g, c, q)
      BY <2>1
    <3>. QED BY <3>1, <3>2, Zenon
  <2>. HIDE DEF Round
  <2>. QED BY <2>2 DEF CountsLater
<1>5. Len(dir) \in Nat /\ V # {}
  OBVIOUS
<1>6. \E f \in [Nat -> [Nat -> V]] : f = Round[f]
  <2>. HIDE DEF Round, V
  <2>. QED BY <1>3, <1>4, <1>5, CountingLoopHasSolution
<1>7. \E f : Solves(f)
  BY <1>6
<1>. DEFINE loop == ValidateLoop(data, dir, sender, listed)
<1>8. loop = CHOOSE f : Solves(f)
  BY DEF ValidateLoop
<1>9. Solves(loop)
  <2>. HIDE DEF Solves, loop
  <2>. QED BY <1>7, <1>8
<1>10. loop[b] = [q \in Nat |-> R(loop, b, q)]
  <2>. HIDE DEF loop
  <2>. QED BY <1>9
<1>. QED BY <1>10, Zenon

-----------------------------------------------------------------------------
(* What the loops agree on                                                 *)

\* The directives that allow a call give it its length, or any, or none: the
\* second loop of Guard2 counts the bytes the first one counted.
LEMMA MatchedLength ==
  ASSUME NEW blob \in Seq(Nat), NEW payload \in Seq(Nat), NEW sender, NEW members,
         Match(blob, payload, sender, members) = "yes"
  PROVE  PayloadLength(blob) \in {AnyLength, Len(payload), Invalid}
<1> DEFINE matched == MatchLoop(blob, payload, sender, members)
           counted == LengthLoop(blob)
           Agrees(b) == \A p \in Nat :
             matched[b][p] = "yes" => counted[b][p] \in {AnyLength, Len(payload), Invalid}
           S == {b \in Nat : Agrees(b)}
<1>1. ASSUME NEW b \in Nat, b < Len(blob) => \A c \in Nat : c > b => c \in S
      PROVE  b \in S
  <2> SUFFICES ASSUME NEW p \in Nat, matched[b][p] = "yes"
               PROVE  counted[b][p] \in {AnyLength, Len(payload), Invalid}
    OBVIOUS
  <2>. DEFINE header == blob[b + 1]
              span   == SpanOf(header)
  <2>1. /\ matched[b][p] = MatchRound(matched, blob, payload, sender, members, b, p)
        /\ counted[b][p] = LengthRound(counted, blob, b, p)
    BY MatchLoopRounds, LengthLoopRounds
  <2>. HIDE DEF matched, counted
  <2>2. CASE b >= Len(blob)
    BY <2>1, <2>2 DEF MatchRound, LengthRound
  <2>3. CASE b < Len(blob)
    <3>0. /\ b + 1 \in Nat /\ b + 1 > b /\ b + 1 + span \in Nat /\ b + 1 + span > b
          /\ p + span \in Nat /\ p + span * WordLength \in Nat
      BY <2>3, Onward
    <3>1. b + 1 \in S /\ b + 1 + span \in S
      <4>. HIDE DEF S, span
      <4>. QED BY <1>1, <2>3, <3>0
    <3>2. /\ \A q \in Nat : matched[b + 1][q] = "yes" =>
                counted[b + 1][q] \in {AnyLength, Len(payload), Invalid}
          /\ \A q \in Nat : matched[b + 1 + span][q] = "yes" =>
                counted[b + 1 + span][q] \in {AnyLength, Len(payload), Invalid}
      BY <3>1
    <3>. HIDE DEF S, Agrees
    <3>. USE DEF WILDCARD_WORDS, WILDCARD_BYTES, ANY, SELF, FROM_LIST, EXACT
    <3>3. CASE TypeOf(header) = WILDCARD_WORDS
      <4>1. matched[b + 1][p + span * WordLength] = "yes"
        BY <2>1, <2>3, <3>3 DEF MatchRound
      <4>2. counted[b][p] = counted[b + 1][p + span * WordLength]
        BY <2>1, <2>3, <3>3 DEF LengthRound, Covered
      <4>. QED BY <3>0, <3>2, <4>1, <4>2
    <3>4. CASE TypeOf(header) = WILDCARD_BYTES
      <4>1. matched[b + 1][p + span] = "yes"
        BY <2>1, <2>3, <3>4 DEF MatchRound
      <4>2. counted[b][p] = counted[b + 1][p + span]
        BY <2>1, <2>3, <3>4 DEF LengthRound, Covered
      <4>. QED BY <3>0, <3>2, <4>1, <4>2
    <3>5. CASE TypeOf(header) = EXACT
      <4>1. matched[b + 1 + span][p + span] = "yes"
        BY <2>1, <2>3, <3>5 DEF MatchRound
      <4>2. counted[b][p] = counted[b + 1 + span][p + span]
        BY <2>1, <2>3, <3>5 DEF LengthRound, Covered
      <4>. QED BY <3>0, <3>2, <4>1, <4>2
    <3>6. CASE TypeOf(header) \in {SELF, FROM_LIST}
      <4>1. span \in AddressSpans /\ matched[b + 1][p + span] = "yes"
        BY <2>1, <2>3, <3>6
           DEF MatchRound
      <4>2. counted[b][p] = counted[b + 1][p + span]
        BY <2>1, <2>3, <3>6, <4>1
           DEF LengthRound, Covered
      <4>. QED BY <3>0, <3>2, <4>1, <4>2
    <3>7. CASE TypeOf(header) = ANY
      BY <2>1, <2>3, <3>7
         DEF MatchRound, LengthRound, Covered, WILDCARD_WORDS, WILDCARD_BYTES, ANY, SELF, FROM_LIST, EXACT
    <3>8. CASE TypeOf(header) \notin {WILDCARD_WORDS, WILDCARD_BYTES, EXACT, SELF, FROM_LIST, ANY}
      BY <2>1, <2>3, <3>8 DEF MatchRound, LengthRound
    <3>. QED BY <3>3, <3>4, <3>5, <3>6, <3>7, <3>8
  <2>. QED BY <2>2, <2>3
<1>2. 0 \in S
  <2>1. S \in SUBSET Nat /\ Len(blob) \in Nat
    OBVIOUS
  <2>. HIDE DEF S
  <2>. QED BY <1>1, <2>1, BackwardInduction
<1>. QED BY <1>2 DEF Match, PayloadLength

\* What the end of a place is: that place, if nothing but ANY is left, or the end of
\* the place where the directive leads.
LEMMA EndCases ==
  ASSUME NEW blob \in Seq(Nat), NEW b \in Nat, NEW p \in Nat
  PROVE  LET end  == EndLoop(blob)
             type == TypeOf(blob[b + 1])
             span == SpanOf(blob[b + 1])
         IN /\ b >= Len(blob) => end[b][p] = [blob |-> b, call |-> p]
            /\ b < Len(blob) =>
                 /\ type = ANY => end[b][p] = [blob |-> b, call |-> p]
                 /\ type = EXACT => end[b][p] = end[b + 1 + span][p + span]
                 /\ type = WILDCARD_WORDS => end[b][p] = end[b + 1][p + span * WordLength]
                 /\ type \notin {ANY, EXACT, WILDCARD_WORDS} => end[b][p] = end[b + 1][p + span]
<1>1. EndLoop(blob)[b][p] = EndRound(EndLoop(blob), blob, b, p)
  BY EndLoopRounds
<1>. QED BY <1>1 DEF EndRound, Covered, ANY, EXACT, WILDCARD_WORDS

\* The end is not before the place.
LEMMA EndIsAhead ==
  ASSUME NEW blob \in Seq(Nat), NEW b \in Nat, NEW p \in Nat
  PROVE  /\ EndLoop(blob)[b][p] \in [blob : Nat, call : Nat]
         /\ EndLoop(blob)[b][p].blob >= b /\ EndLoop(blob)[b][p].call >= p
<1> DEFINE end == EndLoop(blob)
           Ahead(c) == \A q \in Nat : /\ end[c][q] \in [blob : Nat, call : Nat]
                                      /\ end[c][q].blob >= c /\ end[c][q].call >= q
           S == {c \in Nat : Ahead(c)}
<1>1. ASSUME NEW c \in Nat, c < Len(blob) => \A d \in Nat : d > c => d \in S
      PROVE  c \in S
  <2> SUFFICES ASSUME NEW q \in Nat
               PROVE  /\ end[c][q] \in [blob : Nat, call : Nat]
                      /\ end[c][q].blob >= c /\ end[c][q].call >= q
    OBVIOUS
  <2>1. CASE end[c][q] = [blob |-> c, call |-> q]
    <3>. HIDE DEF end
    <3>. QED BY <2>1
  <2>2. CASE c < Len(blob) /\ end[c][q] # [blob |-> c, call |-> q]
    <3>. DEFINE span == SpanOf(blob[c + 1])
    <3>0. /\ span \in Nat
          /\ c + 1 \in Nat /\ c + 1 > c /\ c + 1 + span \in Nat /\ c + 1 + span > c
          /\ q + span \in Nat /\ q + span * WordLength \in Nat
      BY <2>2, Onward
    <3>1. c + 1 \in S /\ c + 1 + span \in S
      <4>. HIDE DEF S, span
      <4>. QED BY <1>1, <2>2, <3>0
    <3>2. PICK d \in {c + 1, c + 1 + span}, r \in {q + span, q + span * WordLength} :
            end[c][q] = end[d][r]
      BY <2>2, EndCases
    <3>3. q + span * WordLength >= q
      <4>1. span * WordLength \in Nat
        BY <3>0, DirectivesAssumption, SMTT(30)
      <4>. HIDE DEF span
      <4>. DEFINE words == span * WordLength
      <4>2. words \in Nat
        BY <4>1
      <4>. HIDE DEF words
      <4>3. q + words >= q
        BY <4>2
      <4>. QED BY <4>3 DEF words
    <3>4. /\ d \in Nat /\ d > c /\ r \in Nat /\ r >= q
      <4>. HIDE DEF span
      <4>. QED BY <3>0, <3>2, <3>3
    <3>5. /\ end[d][r] \in [blob : Nat, call : Nat]
          /\ end[d][r].blob >= d /\ end[d][r].call >= r
      <4>1. d \in S
        BY <3>1, <3>2
      <4>. HIDE DEF end
      <4>. QED BY <3>4, <4>1
    <3>. HIDE DEF end, span, S
    <3>. QED BY <3>2, <3>4, <3>5
  <2>3. c >= Len(blob) => end[c][q] = [blob |-> c, call |-> q]
    BY EndCases
  <2>. QED BY <2>1, <2>2, <2>3
<1>2. b \in S
  <2>1. S \in SUBSET Nat /\ Len(blob) \in Nat
    OBVIOUS
  <2>. HIDE DEF S
  <2>. QED BY <1>1, <2>1, BackwardInduction
<1>. QED BY <1>2

\* An exact match panics only if its bytes are not all there.
LEMMA ExactBytesPanic ==
  ASSUME NEW blob \in Seq(Nat), NEW payload \in Seq(Nat),
         NEW b \in Nat, NEW p \in Nat, NEW span \in Nat,
         ExactBytes(blob, b, payload, p, span) = "panic"
  PROVE  b + span > Len(blob) \/ p + span > Len(payload)
<1> SUFFICES ASSUME b + span <= Len(blob), p + span <= Len(payload) PROVE FALSE
  OBVIOUS
<1>1. {k \in 1..span : b + k <= Len(blob) /\ p + k <= Len(payload)} = 1..span
  BY SMTT(30)
<1>. QED BY <1>1 DEF ExactBytes

\* The comparison panics only if the directives end after the blob or after the call.
LEMMA PanicsBeyondTheEnd ==
  ASSUME NEW blob \in Seq(Nat), NEW payload \in Seq(Nat), NEW sender, NEW members,
         Match(blob, payload, sender, members) = "panic"
  PROVE  EndOf(blob).blob > Len(blob) \/ EndOf(blob).call > Len(payload)
<1> DEFINE matched == MatchLoop(blob, payload, sender, members)
           end == EndLoop(blob)
           Beyond(c, q) == end[c][q].blob > Len(blob) \/ end[c][q].call > Len(payload)
           S == {c \in Nat : \A q \in Nat : matched[c][q] = "panic" => Beyond(c, q)}
<1>1. ASSUME NEW c \in Nat, c < Len(blob) => \A d \in Nat : d > c => d \in S
      PROVE  c \in S
  <2> SUFFICES ASSUME NEW q \in Nat, matched[c][q] = "panic" PROVE Beyond(c, q)
    OBVIOUS
  <2>. DEFINE type  == TypeOf(blob[c + 1])
              span  == SpanOf(blob[c + 1])
              exact == ExactBytes(blob, c + 1, payload, q, span)
  <2>1. matched[c][q] = MatchRound(matched, blob, payload, sender, members, c, q)
    BY MatchLoopRounds
  <2>. HIDE DEF matched
  <2>2. c < Len(blob)
    BY <2>1 DEF MatchRound
  <2>3. /\ span \in Nat
        /\ c + 1 \in Nat /\ c + 1 > c /\ c + 1 + span \in Nat /\ c + 1 + span > c
        /\ q + span \in Nat /\ q + span * WordLength \in Nat
    BY <2>2, Onward
  <2>4. c + 1 \in S /\ c + 1 + span \in S
    <3>. HIDE DEF S, span
    <3>. QED BY <1>1, <2>2, <2>3
  <2>. USE DEF WILDCARD_WORDS, WILDCARD_BYTES, ANY, SELF, FROM_LIST, EXACT
  <2>5. CASE type = EXACT /\ exact = "panic"
    <3>1. c + 1 + span > Len(blob) \/ q + span > Len(payload)
      <4>. HIDE DEF span
      <4>. QED BY <2>3, <2>5, ExactBytesPanic
    <3>2. /\ end[c + 1 + span][q + span] \in [blob : Nat, call : Nat]
          /\ end[c + 1 + span][q + span].blob >= c + 1 + span
          /\ end[c + 1 + span][q + span].call >= q + span
      <4>. HIDE DEF span
      <4>. QED BY <2>3, EndIsAhead
    <3>3. end[c][q] = end[c + 1 + span][q + span]
      BY <2>2, <2>5, EndCases
    <3>. DEFINE last == end[c + 1 + span][q + span]
    <3>4. last \in [blob : Nat, call : Nat] /\ last.blob >= c + 1 + span /\ last.call >= q + span
      BY <3>2
    <3>5. last.blob > Len(blob) \/ last.call > Len(payload)
      <4>. HIDE DEF last, span
      <4>1. /\ last.blob \in Nat /\ last.call \in Nat
            /\ Len(blob) \in Nat /\ Len(payload) \in Nat
        BY <3>4
      <4>. QED BY <2>3, <3>1, <3>4, <4>1
    <3>. HIDE DEF end, span
    <3>. QED BY <3>3, <3>5
  <2>6. CASE type = EXACT /\ exact # "panic"
    <3>1. matched[c + 1 + span][q + span] = "panic"
      BY <2>1, <2>2, <2>6 DEF MatchRound
    <3>2. end[c][q] = end[c + 1 + span][q + span]
      BY <2>2, <2>6, EndCases
    <3>. HIDE DEF end, span
    <3>. QED BY <2>3, <2>4, <3>1, <3>2
  <2>7. CASE type = WILDCARD_WORDS
    <3>1. matched[c + 1][q + span * WordLength] = "panic"
      BY <2>1, <2>2, <2>7 DEF MatchRound
    <3>2. end[c][q] = end[c + 1][q + span * WordLength]
      BY <2>2, <2>7, EndCases
    <3>. HIDE DEF end, span
    <3>. QED BY <2>3, <2>4, <3>1, <3>2
  <2>8. CASE type \in {WILDCARD_BYTES, SELF, FROM_LIST}
    <3>1. matched[c + 1][q + span] = "panic"
      BY <2>1, <2>2, <2>8 DEF MatchRound
    <3>2. end[c][q] = end[c + 1][q + span]
      <4>1. type \notin {ANY, EXACT, WILDCARD_WORDS}
        BY <2>8
      <4>. HIDE DEF type
      <4>. QED BY <2>2, <4>1, EndCases DEF type
    <3>. HIDE DEF end, span
    <3>. QED BY <2>3, <2>4, <3>1, <3>2
  <2>9. type \in {EXACT, WILDCARD_WORDS, WILDCARD_BYTES, SELF, FROM_LIST}
    BY <2>1, <2>2 DEF MatchRound
  <2>. QED BY <2>5, <2>6, <2>7, <2>8, <2>9
<1>2. 0 \in S
  <2>1. S \in SUBSET Nat /\ Len(blob) \in Nat
    OBVIOUS
  <2>. HIDE DEF S
  <2>. QED BY <1>1, <2>1, BackwardInduction
<1>. QED BY <1>2 DEF Match, EndOf

\* A length that is neither any nor none is that of a call the directives end with.
LEMMA LengthIsTheEnd ==
  ASSUME NEW blob \in Seq(Nat), PayloadLength(blob) \notin {AnyLength, Invalid}
  PROVE  PayloadLength(blob) = EndOf(blob).call
<1> DEFINE counted == LengthLoop(blob)
           end == EndLoop(blob)
           S == {c \in Nat : \A q \in Nat :
                   counted[c][q] \notin {AnyLength, Invalid} => counted[c][q] = end[c][q].call}
<1>1. ASSUME NEW c \in Nat, c < Len(blob) => \A d \in Nat : d > c => d \in S
      PROVE  c \in S
  <2> SUFFICES ASSUME NEW q \in Nat, counted[c][q] \notin {AnyLength, Invalid}
               PROVE  counted[c][q] = end[c][q].call
    OBVIOUS
  <2>. DEFINE type == TypeOf(blob[c + 1])
              span == SpanOf(blob[c + 1])
  <2>1. counted[c][q] = LengthRound(counted, blob, c, q)
    BY LengthLoopRounds
  <2>. HIDE DEF counted
  <2>2. CASE c >= Len(blob)
    <3>1. end[c][q] = [blob |-> c, call |-> q]
      BY <2>2, EndCases
    <3>. HIDE DEF end
    <3>. QED BY <2>1, <2>2, <3>1 DEF LengthRound
  <2>3. CASE c < Len(blob)
    <3>0. /\ c + 1 \in Nat /\ c + 1 > c /\ c + 1 + span \in Nat /\ c + 1 + span > c
          /\ q + span \in Nat /\ q + span * WordLength \in Nat
      BY <2>3, Onward
    <3>1. c + 1 \in S /\ c + 1 + span \in S
      <4>. HIDE DEF S, span
      <4>. QED BY <1>1, <2>3, <3>0
    <3>. USE DEF WILDCARD_WORDS, WILDCARD_BYTES, ANY, SELF, FROM_LIST, EXACT
    <3>2. CASE type = EXACT
      <4>1. counted[c][q] = counted[c + 1 + span][q + span]
        BY <2>1, <2>3, <3>2 DEF LengthRound, Covered
      <4>2. end[c][q] = end[c + 1 + span][q + span]
        BY <2>3, <3>2, EndCases
      <4>. HIDE DEF end, span
      <4>. QED BY <3>0, <3>1, <4>1, <4>2
    <3>3. CASE type = WILDCARD_WORDS
      <4>1. counted[c][q] = counted[c + 1][q + span * WordLength]
        BY <2>1, <2>3, <3>3 DEF LengthRound, Covered
      <4>2. end[c][q] = end[c + 1][q + span * WordLength]
        BY <2>3, <3>3, EndCases
      <4>. HIDE DEF end, span
      <4>. QED BY <3>0, <3>1, <4>1, <4>2
    <3>4. CASE type \in {WILDCARD_BYTES, SELF, FROM_LIST}
      <4>1. counted[c][q] = counted[c + 1][q + span]
        BY <2>1, <2>3, <3>4 DEF LengthRound, Covered
      <4>2. end[c][q] = end[c + 1][q + span]
        <5>1. type \notin {ANY, EXACT, WILDCARD_WORDS}
          BY <3>4
        <5>. QED BY <2>3, <5>1, EndCases
      <4>. HIDE DEF end, span
      <4>. QED BY <3>0, <3>1, <4>1, <4>2
    <3>5. type \in {EXACT, WILDCARD_WORDS, WILDCARD_BYTES, SELF, FROM_LIST}
      BY <2>1, <2>3 DEF LengthRound
    <3>. QED BY <3>2, <3>3, <3>4, <3>5
  <2>. QED BY <2>2, <2>3
<1>2. 0 \in S
  <2>1. S \in SUBSET Nat /\ Len(blob) \in Nat
    OBVIOUS
  <2>. HIDE DEF S
  <2>. QED BY <1>1, <2>1, BackwardInduction
<1>. QED BY <1>2 DEF PayloadLength, EndOf

\* Bytes of a sequence, one by one.
LEMMA BytesFacts ==
  ASSUME NEW seq \in Seq(Nat), NEW from \in Nat, NEW n \in Nat, from + n <= Len(seq)
  PROVE  /\ Bytes(seq, from, n) \in Seq(Nat) /\ Len(Bytes(seq, from, n)) = n
         /\ Bytes(seq, from, n) = [k \in 1..n |-> seq[from + k]]
<1>1. \A k \in 1..n : from + k \in 1..Len(seq) /\ seq[from + k] \in Nat
  OBVIOUS
<1>2. SubSeq(seq, from + 1, from + n) = [k \in 1..n |-> seq[from + k]]
  BY <1>1
<1>3. [k \in 1..n |-> seq[from + k]] \in Seq(Nat)
  BY <1>1
<1>. QED BY <1>2, <1>3 DEF Bytes

\* The bytes of both are there and equal.
SameBytes(blob, b, payload, p, span) ==
  /\ b + span <= Len(blob) /\ p + span <= Len(payload)
  /\ Bytes(payload, p, span) = Bytes(blob, b, span)

\* The comparison of Guard2, which stops at a byte that is not there, succeeds
\* exactly in that case.
LEMMA ExactBytesEqual ==
  ASSUME NEW blob \in Seq(Nat), NEW payload \in Seq(Nat),
         NEW b \in Nat, NEW p \in Nat, NEW span \in Nat \ {0}
  PROVE  ExactBytes(blob, b, payload, p, span) = "yes" <=> SameBytes(blob, b, payload, p, span)
<1> DEFINE there == {k \in 1..span : b + k <= Len(blob) /\ p + k <= Len(payload)}
           differ == \E k \in there : blob[b + k] # payload[p + k]
<1>1. ExactBytes(blob, b, payload, p, span) = "yes" <=> ~differ /\ there = 1..span
  BY DEF ExactBytes
<1>2. there = 1..span <=> b + span <= Len(blob) /\ p + span <= Len(payload)
  <2>1. ASSUME there = 1..span
        PROVE  b + span <= Len(blob) /\ p + span <= Len(payload)
    <3>1. span \in 1..span
      OBVIOUS
    <3>2. span \in there
      <4>. HIDE DEF there
      <4>. QED BY <2>1, <3>1
    <3>. QED BY <3>2
  <2>2. ASSUME b + span <= Len(blob), p + span <= Len(payload)
        PROVE  there = 1..span
    <3>1. \A k \in 1..span : b + k <= Len(blob) /\ p + k <= Len(payload)
      BY <2>2
    <3>. QED BY <3>1
  <2>. QED BY <2>1, <2>2
<1>3. ASSUME there = 1..span
      PROVE  ~differ <=> Bytes(payload, p, span) = Bytes(blob, b, span)
  <2>1. /\ Bytes(payload, p, span) = [k \in 1..span |-> payload[p + k]]
        /\ Bytes(blob, b, span) = [k \in 1..span |-> blob[b + k]]
    BY <1>2, <1>3, BytesFacts
  <2>. DEFINE left == [k \in 1..span |-> payload[p + k]]
              right == [k \in 1..span |-> blob[b + k]]
  <2>2. left = right <=> \A k \in 1..span : payload[p + k] = blob[b + k]
    <3>1. left = right => \A k \in 1..span : left[k] = right[k]
      OBVIOUS
    <3>2. \A k \in 1..span : left[k] = payload[p + k] /\ right[k] = blob[b + k]
      OBVIOUS
    <3>. QED BY <3>1, <3>2, Zenon
  <2>. QED BY <1>3, <2>1, <2>2
<1>. QED BY <1>1, <1>2, <1>3 DEF SameBytes

\* The loop of the script accepts a call exactly if that of Guard2 does: it asks
\* before a directive whether the call is long enough for it, Guard2 after it.
LEMMA ValidatorMatches ==
  ASSUME NEW blob \in Seq(Nat), NEW payload \in Seq(Nat), NEW sender, NEW members
  PROVE  Validate(payload, blob, sender, members) = "yes"
           <=> Match(blob, payload, sender, members) = "yes"
<1> DEFINE matched == MatchLoop(blob, payload, sender, members)
           valid == ValidateLoop(payload, blob, sender, members)
           Agrees(b) == \A p \in 0..Len(payload) : valid[b][p] = "yes" <=> matched[b][p] = "yes"
           S == {b \in Nat : b <= Len(blob) => Agrees(b)}
<1>1. ASSUME NEW b \in Nat, b < Len(blob) => \A c \in Nat : c > b => c \in S
      PROVE  b \in S
  <2> SUFFICES ASSUME b <= Len(blob), NEW p \in 0..Len(payload)
               PROVE  valid[b][p] = "yes" <=> matched[b][p] = "yes"
    OBVIOUS
  <2>. DEFINE header == blob[b + 1]
              span   == SpanOf(header)
  <2>0. \A c \in Nat, q \in Nat :
          /\ matched[c][q] = MatchRound(matched, blob, payload, sender, members, c, q)
          /\ valid[c][q] = ValidateRound(valid, payload, blob, sender, members, c, q)
    BY MatchLoopRounds, ValidateLoopRounds
  <2>. HIDE DEF matched, valid
  <2>1. /\ matched[b][p] = MatchRound(matched, blob, payload, sender, members, b, p)
        /\ valid[b][p] = ValidateRound(valid, payload, blob, sender, members, b, p)
    BY <2>0
  <2>2. CASE b >= Len(blob)
    <3>1. valid[b][p] = "yes" <=> p = Len(payload)
      BY <2>1, <2>2 DEF ValidateRound, Unmatched
    <3>2. matched[b][p] = "yes" <=> p = Len(payload) /\ b = Len(blob)
      BY <2>1, <2>2 DEF MatchRound
    <3>. QED BY <2>2, <3>1, <3>2
  <2>3. CASE b < Len(blob)
    <3>0. /\ span \in Nat \ {0}
          /\ b + 1 \in Nat /\ b + 1 > b /\ b + 1 + span \in Nat /\ b + 1 + span > b
          /\ p + span \in Nat /\ p + span * WordLength \in Nat
      BY <2>3, Onward
    <3>1. b + 1 \in S /\ b + 1 + span \in S
      <4>. HIDE DEF S, span
      <4>. QED BY <1>1, <2>3, <3>0
    \* Beyond the end of the call Guard2 says no.
    <3>2. /\ \A q \in Nat : q <= Len(payload) => (valid[b + 1][q] = "yes" <=> matched[b + 1][q] = "yes")
          /\ \A q \in Nat : b + 1 + span <= Len(blob) /\ q <= Len(payload) =>
               (valid[b + 1 + span][q] = "yes" <=> matched[b + 1 + span][q] = "yes")
      BY <2>3, <3>1
    <3>3. \A q \in Nat : q > Len(payload) => matched[b + 1][q] # "yes" /\ matched[b + 1 + span][q] # "yes"
      BY <2>0, <3>0 DEF MatchRound
    <3>. HIDE DEF S, Agrees
    <3>. USE DEF WILDCARD_WORDS, WILDCARD_BYTES, ANY, SELF, FROM_LIST, EXACT
    <3>4. CASE TypeOf(header) = WILDCARD_WORDS
      <4>. DEFINE q == p + span * WordLength
      <4>1. matched[b][p] = matched[b + 1][q]
        BY <2>1, <2>3, <3>4 DEF MatchRound
      <4>2. valid[b][p] = IF q <= Len(payload) THEN valid[b + 1][q] ELSE "no"
        BY <2>1, <2>3, <3>4 DEF ValidateRound
      <4>. HIDE DEF q
      <4>3. q \in Nat
        BY <3>0 DEF q
      <4>. QED BY <3>2, <3>3, <4>1, <4>2, <4>3
    <3>5. CASE TypeOf(header) = WILDCARD_BYTES
      <4>1. matched[b][p] = matched[b + 1][p + span]
        BY <2>1, <2>3, <3>5 DEF MatchRound
      <4>2. valid[b][p] = IF p + span <= Len(payload) THEN valid[b + 1][p + span] ELSE "no"
        BY <2>1, <2>3, <3>5 DEF ValidateRound
      <4>. QED BY <3>0, <3>2, <3>3, <4>1, <4>2
    <3>6. CASE TypeOf(header) = EXACT
      <4>. DEFINE equal == ExactBytes(blob, b + 1, payload, p, span) = "yes"
      <4>1. matched[b][p] = "yes" <=> equal /\ matched[b + 1 + span][p + span] = "yes"
        BY <2>1, <2>3, <3>6 DEF MatchRound
      <4>2. equal <=> SameBytes(blob, b + 1, payload, p, span)
        <5>1. b + 1 \in Nat /\ p \in Nat /\ span \in Nat \ {0}
          BY <3>0
        <5>. HIDE DEF span
        <5>. QED BY <5>1, ExactBytesEqual
      <4>3. valid[b][p] = IF SameBytes(blob, b + 1, payload, p, span)
                            THEN valid[b + 1 + span][p + span] ELSE "no"
        BY <2>1, <2>3, <3>6 DEF ValidateRound, SameBytes
      <4>4. SameBytes(blob, b + 1, payload, p, span) =>
              b + 1 + span <= Len(blob) /\ p + span <= Len(payload)
        BY DEF SameBytes
      <4>. HIDE DEF equal
      <4>. QED BY <3>0, <3>2, <4>1, <4>2, <4>3, <4>4
    <3>7. CASE TypeOf(header) \in {SELF, FROM_LIST}
      <4>. DEFINE here == /\ span \in AddressSpans /\ p + span <= Len(payload)
                          /\ Bytes(payload, p + span - AddressLength, AddressLength)
                               \in (IF TypeOf(header) = SELF THEN {sender} ELSE members)
      <4>1. matched[b][p] = IF here THEN matched[b + 1][p + span] ELSE "no"
        BY <2>1, <2>3, <3>7 DEF MatchRound
      <4>2. valid[b][p] = IF here THEN valid[b + 1][p + span] ELSE "no"
        BY <2>1, <2>3, <3>7 DEF ValidateRound
      <4>. QED BY <3>0, <3>2, <4>1, <4>2
    <3>8. CASE TypeOf(header) = ANY
      BY <2>1, <2>3, <3>8 DEF MatchRound, ValidateRound
    <3>9. CASE TypeOf(header) \notin {WILDCARD_WORDS, WILDCARD_BYTES, EXACT, SELF, FROM_LIST, ANY}
      BY <2>1, <2>3, <3>9 DEF MatchRound, ValidateRound
    <3>. QED BY <3>4, <3>5, <3>6, <3>7, <3>8, <3>9
  <2>. QED BY <2>2, <2>3
<1>2. 0 \in S
  <2>1. S \in SUBSET Nat /\ Len(blob) \in Nat
    OBVIOUS
  <2>. HIDE DEF S
  <2>. QED BY <1>1, <2>1, BackwardInduction
<1>3. 0 \in 0..Len(payload)
  OBVIOUS
<1>. QED BY <1>2, <1>3 DEF Match, Validate

\* Every entry was listed, with the length the first loop gave it.
LEMMA EntryFacts ==
  ASSUME GuardInv, NEW e \in Entries
  PROVE  /\ e.directives \in Seq(Nat)
         /\ e.payloadLength = PayloadLength(e.directives) /\ e.payloadLength # Invalid
<1>0. e \in Entry
  BY DEF GuardInv, Entries, Range
<1>1. PICK b \in ListedBlobs : e = EntryOf(b) /\ Acceptable(b)
  BY <1>0 DEF Entry
<1>2. b \in Seq(Nat)
  BY GuardAssumption
<1>3. e.directives = b /\ e.payloadLength = PayloadLength(b)
  BY <1>1 DEF EntryOf
<1>. QED BY <1>1, <1>2, <1>3 DEF Acceptable

\* Of the calls an entry is asked about only those panic for which it runs out.
LEMMA EntriesRunOut ==
  ASSUME GuardInv, NEW e \in Entries, NEW c \in Seq(Nat), NEW s,
         e.payloadLength \in {AnyLength, Len(c)}, Match(e.directives, c, s, Members) = "panic"
  PROVE  RunsOut(e, c)
<1>1. /\ e.directives \in Seq(Nat)
      /\ e.payloadLength = PayloadLength(e.directives) /\ e.payloadLength # Invalid
  BY EntryFacts
<1>2. EndOf(e.directives).blob > Len(e.directives) \/ EndOf(e.directives).call > Len(c)
  BY <1>1, PanicsBeyondTheEnd
<1>3. e.payloadLength # AnyLength => EndOf(e.directives).call = Len(c)
  BY <1>1, LengthIsTheEnd
<1>. QED BY <1>2, <1>3 DEF RunsOut

\* The length an entry was given is that of every call its directives allow, and
\* only entries that run out panic, for any directives that were accepted
\* (_whitelistProtocol, _matchDirective).
THEOREM LengthsStaySound == Spec => []EntriesAreSound
<1>1. GuardInv /\ ListsAreSound => EntriesAreSound
  <2> SUFFICES ASSUME GuardInv, NEW e \in Entries, NEW c \in Calls, NEW s \in Senders
               PROVE  /\ Match(e.directives, c, s, Members) = "yes"
                           => e.payloadLength \in {AnyLength, Len(c)}
                      /\ (e.payloadLength \in {AnyLength, Len(c)}
                            /\ Match(e.directives, c, s, Members) = "panic") => RunsOut(e, c)
    BY DEF EntriesAreSound
  <2>1. c \in Seq(Nat)
    BY GuardAssumption
  <2>2. Match(e.directives, c, s, Members) = "yes" => e.payloadLength \in {AnyLength, Len(c)}
    BY <2>1, EntryFacts, MatchedLength
  <2>. QED BY <2>1, <2>2, EntriesRunOut
<1>. QED BY <1>1, GuardInvariant, ListsStaySound, PTL

\* What the script says of a listed directive is what Guard2 says, for any
\* directives and calls (validateDirective, isProtocolAllowed).
THEOREM ValidatorAgreement == Spec => []ValidatorAgrees
<1>1. GuardInv => ValidatorAgrees
  <2> SUFFICES ASSUME GuardInv, NEW e \in Entries, NEW c \in Calls, NEW s \in Senders
               PROVE  Validate(c, e.directives, s, Members) = "yes"
                        <=> /\ Match(e.directives, c, s, Members) = "yes"
                            /\ e.payloadLength \in {AnyLength, Len(c)}
    BY DEF ValidatorAgrees
  <2>1. c \in Seq(Nat)
    BY GuardAssumption
  <2>2. e.directives \in Seq(Nat)
    BY EntryFacts
  <2>3. Validate(c, e.directives, s, Members) = "yes" <=> Match(e.directives, c, s, Members) = "yes"
    BY <2>1, <2>2, ValidatorMatches
  <2>4. Match(e.directives, c, s, Members) = "yes" => e.payloadLength \in {AnyLength, Len(c)}
    BY <2>1, EntryFacts, MatchedLength
  <2>. QED BY <2>3, <2>4
<1>. QED BY <1>1, GuardInvariant, PTL

-----------------------------------------------------------------------------
(* What the scan prints                                                    *)

\* Dividing undoes multiplying.
LEMMA Division ==
  ASSUME NEW m \in Nat \ {0}, NEW q \in Nat, NEW r \in Nat, r < m
  PROVE  (q * m + r) \div m = q /\ (q * m + r) % m = r
<1> DEFINE x == q * m + r
           d == x \div m
<1>1. x \in Nat /\ d \in Nat /\ x % m \in Nat /\ x % m < m /\ x = d * m + (x % m)
  OBVIOUS
<1>2. q * m + r = d * m + (x % m)
  BY <1>1
<1>. HIDE DEF x, d
<1>3. d < q + 1
  <2> SUFFICES ASSUME d >= q + 1 PROVE FALSE
    BY <1>1
  <2>1. d * m >= (q + 1) * m
    BY <1>1
  <2>. QED BY <1>1, <1>2, <2>1
<1>4. q < d + 1
  <2> SUFFICES ASSUME q >= d + 1 PROVE FALSE
    BY <1>1
  <2>1. q * m >= (d + 1) * m
    BY <1>1
  <2>. QED BY <1>1, <1>2, <2>1
<1>5. d = q
  BY <1>1, <1>3, <1>4
<1>. QED BY <1>2, <1>5, <1>1 DEF x, d

\* A header says the type and the span it was made of.
LEMMA HeaderSays ==
  ASSUME NEW type \in Nat, NEW span \in 1..MaxSpan
  PROVE  /\ Header(type, span) \in Nat
         /\ TypeOf(Header(type, span)) = type /\ SpanOf(Header(type, span)) = span
<1>1. MaxSpan \in Nat \ {0} /\ span - 1 \in Nat /\ span - 1 < MaxSpan
  BY DirectivesAssumption
<1>2. (span - 1) % MaxSpan = span - 1
  BY <1>1
<1>3. /\ (type * MaxSpan + (span - 1)) \div MaxSpan = type
      /\ (type * MaxSpan + (span - 1)) % MaxSpan = span - 1
  BY <1>1, Division
<1>4. Header(type, span) = type * MaxSpan + (span - 1)
  BY <1>2 DEF Header
<1>. QED BY <1>1, <1>3, <1>4 DEF TypeOf, SpanOf

\* Where s stands in a blob, and where it is the rest of it.
Holds(blob, b, s)  == b + Len(s) <= Len(blob) /\ \A k \in 1..Len(s) : blob[b + k] = s[k]
Suffix(blob, b, s) == Holds(blob, b, s) /\ b + Len(s) = Len(blob)

\* A sequence stands where its parts do.
LEMMA HoldsParts ==
  ASSUME NEW blob \in Seq(Nat), NEW b \in Nat, NEW s \in Seq(Nat), NEW t \in Seq(Nat)
  PROVE  /\ Holds(blob, b, s \o t) => Holds(blob, b, s) /\ Holds(blob, b + Len(s), t)
         /\ Suffix(blob, b, s \o t) => Holds(blob, b, s) /\ Suffix(blob, b + Len(s), t)
<1>1. Len(s \o t) = Len(s) + Len(t) /\ Len(s) \in Nat /\ Len(t) \in Nat /\ Len(blob) \in Nat
  OBVIOUS
<1>2. \A k \in 1..Len(s) : (s \o t)[k] = s[k] /\ k \in 1..Len(s \o t)
  BY <1>1
<1>3. \A k \in 1..Len(t) : (s \o t)[Len(s) + k] = t[k] /\ Len(s) + k \in 1..Len(s \o t)
  BY <1>1
<1>4. ASSUME Holds(blob, b, s \o t)
      PROVE  Holds(blob, b, s) /\ Holds(blob, b + Len(s), t)
  <2>1. b + (Len(s) + Len(t)) <= Len(blob) /\ \A k \in 1..Len(s \o t) : blob[b + k] = (s \o t)[k]
    BY <1>1, <1>4 DEF Holds
  <2>2. Holds(blob, b, s)
    BY <1>1, <1>2, <2>1 DEF Holds
  <2>3. ASSUME NEW k \in 1..Len(t)
        PROVE  blob[(b + Len(s)) + k] = t[k]
    <3>1. (b + Len(s)) + k = b + (Len(s) + k)
      BY <1>1
    <3>2. blob[b + (Len(s) + k)] = t[k]
      BY <1>3, <2>1
    <3>. QED BY <3>1, <3>2
  <2>. QED BY <1>1, <2>1, <2>2, <2>3 DEF Holds
<1>5. Suffix(blob, b, s \o t) => (b + Len(s)) + Len(t) = Len(blob)
  BY <1>1 DEF Suffix
<1>. QED BY <1>4, <1>5 DEF Suffix

\* From place b of a blob and p of a call the loop goes on at c and q.
Leads(matched, b, p, c, q) == matched[b][p] = matched[c][q]

\* What the round at a header does with the directive it was made of: it skips
\* words or bytes, compares bytes, or looks for an address.
LEMMA SkippedWords ==
  ASSUME NEW blob \in Seq(Nat), NEW payload \in Seq(Nat), NEW sender, NEW members,
         NEW matched, matched = MatchLoop(blob, payload, sender, members),
         NEW b \in Nat, b < Len(blob), NEW p \in Nat, p <= Len(payload), NEW span \in 1..MaxSpan,
         blob[b + 1] = Header(WILDCARD_WORDS, span)
  PROVE  Leads(matched, b, p, b + 1, p + span * WordLength)
<1>. USE DEF WILDCARD_WORDS, WILDCARD_BYTES, ANY, SELF, FROM_LIST, EXACT
<1>1. matched[b][p] = MatchRound(matched, blob, payload, sender, members, b, p)
  BY MatchLoopRounds
<1>2. TypeOf(Header(WILDCARD_WORDS, span)) = WILDCARD_WORDS /\ SpanOf(Header(WILDCARD_WORDS, span)) = span
  BY HeaderSays
<1>3. TypeOf(blob[b + 1]) = WILDCARD_WORDS /\ SpanOf(blob[b + 1]) = span
  BY <1>2
<1>4. ~(p > Len(payload)) /\ ~(b >= Len(blob))
  OBVIOUS
<1>. QED BY <1>1, <1>2, <1>3, <1>4 DEF MatchRound, Leads

\* A header of wildcard bytes skips its span.
LEMMA SkippedBytes ==
  ASSUME NEW blob \in Seq(Nat), NEW payload \in Seq(Nat), NEW sender, NEW members,
         NEW matched, matched = MatchLoop(blob, payload, sender, members),
         NEW b \in Nat, b < Len(blob), NEW p \in Nat, p <= Len(payload), NEW span \in 1..MaxSpan,
         blob[b + 1] = Header(WILDCARD_BYTES, span)
  PROVE  Leads(matched, b, p, b + 1, p + span)
<1>. USE DEF WILDCARD_WORDS, WILDCARD_BYTES, ANY, SELF, FROM_LIST, EXACT
<1>1. matched[b][p] = MatchRound(matched, blob, payload, sender, members, b, p)
  BY MatchLoopRounds
<1>2. TypeOf(Header(WILDCARD_BYTES, span)) = WILDCARD_BYTES /\ SpanOf(Header(WILDCARD_BYTES, span)) = span
  BY HeaderSays
<1>3. TypeOf(blob[b + 1]) = WILDCARD_BYTES /\ SpanOf(blob[b + 1]) = span
  BY <1>2
<1>4. ~(p > Len(payload)) /\ ~(b >= Len(blob))
  OBVIOUS
<1>. QED BY <1>1, <1>2, <1>3, <1>4 DEF MatchRound, Leads

\* A header of exact bytes skips them if the call has the same ones.
LEMMA ComparedBytes ==
  ASSUME NEW blob \in Seq(Nat), NEW payload \in Seq(Nat), NEW sender, NEW members,
         NEW matched, matched = MatchLoop(blob, payload, sender, members),
         NEW b \in Nat, b < Len(blob), NEW p \in Nat, p <= Len(payload), NEW span \in 1..MaxSpan,
         blob[b + 1] = Header(EXACT, span),
         SameBytes(blob, b + 1, payload, p, span)
  PROVE  Leads(matched, b, p, b + 1 + span, p + span)
<1>. USE DEF WILDCARD_WORDS, WILDCARD_BYTES, ANY, SELF, FROM_LIST, EXACT
<1>1. matched[b][p] = MatchRound(matched, blob, payload, sender, members, b, p)
  BY MatchLoopRounds
<1>2. TypeOf(Header(EXACT, span)) = EXACT /\ SpanOf(Header(EXACT, span)) = span
  BY HeaderSays
<1>3. TypeOf(blob[b + 1]) = EXACT /\ SpanOf(blob[b + 1]) = span
  BY <1>2
<1>4. ~(p > Len(payload)) /\ ~(b >= Len(blob))
  OBVIOUS
<1>5. ExactBytes(blob, b + 1, payload, p, span) = "yes"
  <2>1. b + 1 \in Nat /\ span \in Nat \ {0}
    BY DirectivesAssumption
  <2>. QED BY <2>1, ExactBytesEqual
<1>. QED BY <1>1, <1>2, <1>3, <1>4, <1>5, SMTT(30) DEF MatchRound, Leads

\* A header for the pool skips its span if the pool is in its last bytes.
LEMMA FoundSelf ==
  ASSUME NEW blob \in Seq(Nat), NEW payload \in Seq(Nat), NEW sender, NEW members,
         NEW matched, matched = MatchLoop(blob, payload, sender, members),
         NEW b \in Nat, b < Len(blob), NEW p \in Nat, p <= Len(payload), NEW span \in 1..MaxSpan,
         blob[b + 1] = Header(SELF, span),
         span \in AddressSpans,
         p + span <= Len(payload),
         Bytes(payload, p + span - AddressLength, AddressLength) = sender
  PROVE  Leads(matched, b, p, b + 1, p + span)
<1>. USE DEF WILDCARD_WORDS, WILDCARD_BYTES, ANY, SELF, FROM_LIST, EXACT
<1>1. matched[b][p] = MatchRound(matched, blob, payload, sender, members, b, p)
  BY MatchLoopRounds
<1>2. TypeOf(Header(SELF, span)) = SELF /\ SpanOf(Header(SELF, span)) = span
  BY HeaderSays
<1>3. TypeOf(blob[b + 1]) = SELF /\ SpanOf(blob[b + 1]) = span
  BY <1>2
<1>4. ~(p > Len(payload)) /\ ~(b >= Len(blob))
  OBVIOUS
<1>. QED BY <1>1, <1>2, <1>3, <1>4 DEF MatchRound, Leads

\* A header for the list skips its span if a member is in its last bytes.
LEMMA FoundMember ==
  ASSUME NEW blob \in Seq(Nat), NEW payload \in Seq(Nat), NEW sender, NEW members,
         NEW matched, matched = MatchLoop(blob, payload, sender, members),
         NEW b \in Nat, b < Len(blob), NEW p \in Nat, p <= Len(payload), NEW span \in 1..MaxSpan,
         blob[b + 1] = Header(FROM_LIST, span),
         span \in AddressSpans,
         p + span <= Len(payload),
         Bytes(payload, p + span - AddressLength, AddressLength) \in members
  PROVE  Leads(matched, b, p, b + 1, p + span)
<1>. USE DEF WILDCARD_WORDS, WILDCARD_BYTES, ANY, SELF, FROM_LIST, EXACT
<1>1. matched[b][p] = MatchRound(matched, blob, payload, sender, members, b, p)
  BY MatchLoopRounds
<1>2. TypeOf(Header(FROM_LIST, span)) = FROM_LIST /\ SpanOf(Header(FROM_LIST, span)) = span
  BY HeaderSays
<1>3. TypeOf(blob[b + 1]) = FROM_LIST /\ SpanOf(blob[b + 1]) = span
  BY <1>2
<1>4. ~(p > Len(payload)) /\ ~(b >= Len(blob))
  OBVIOUS
<1>. QED BY <1>1, <1>2, <1>3, <1>4, SMTT(30) DEF MatchRound, Leads

\* A header is a byte.
LEMMA HeaderType ==
  ASSUME NEW type \in Nat, NEW span \in Nat
  PROVE  <<Header(type, span)>> \in Seq(Nat) /\ Len(<<Header(type, span)>>) = 1
<1>1. MaxSpan \in Nat \ {0} /\ span - 1 \in Int
  BY DirectivesAssumption
<1>2. (span - 1) % MaxSpan \in Nat
  BY <1>1
<1>3. type * MaxSpan \in Nat
  BY <1>1
<1>4. Header(type, span) \in Nat
  BY <1>2, <1>3 DEF Header
<1>. QED BY <1>4

\* Wildcards over words are a sequence of headers, the full ones first.
LEMMA WordsParts ==
  ASSUME NEW words \in Nat
  PROVE  \E full \in Nat, rest \in 0..(MaxSpan - 1), heads \in Seq(Nat), last \in Seq(Nat) :
           /\ words = full * MaxSpan + rest
           /\ WildcardWords(words) = heads \o last
           /\ Len(heads) = full /\ \A i \in 1..full : heads[i] = Header(WILDCARD_WORDS, MaxSpan)
           /\ rest > 0 => last = <<Header(WILDCARD_WORDS, rest)>>
           /\ rest = 0 => last = <<>>
<1> DEFINE full == words \div MaxSpan
           rest == words % MaxSpan
           heads == [i \in 1..full |-> Header(WILDCARD_WORDS, MaxSpan)]
           last == IF rest > 0 THEN <<Header(WILDCARD_WORDS, rest)>> ELSE <<>>
<1>1. MaxSpan \in Nat \ {0} /\ WILDCARD_WORDS \in Nat
  BY DirectivesAssumption DEF WILDCARD_WORDS
<1>2. full \in Nat /\ rest \in 0..(MaxSpan - 1) /\ words = full * MaxSpan + rest
  BY <1>1
<1>3. WildcardWords(words) = heads \o last
  BY DEF WildcardWords
<1>. HIDE DEF full, rest
<1>4. Header(WILDCARD_WORDS, MaxSpan) \in Nat
  BY <1>1, HeaderSays
<1>5. heads \in Seq(Nat) /\ Len(heads) = full /\ \A i \in 1..full : heads[i] = Header(WILDCARD_WORDS, MaxSpan)
  BY <1>2, <1>4
<1>6. rest \in Nat
  BY <1>1, <1>2
<1>7. last \in Seq(Nat)
  BY <1>1, <1>6, HeaderType
<1>8. (rest > 0 => last = <<Header(WILDCARD_WORDS, rest)>>) /\ (rest = 0 => last = <<>>)
  BY <1>6
<1>. HIDE DEF heads, last
<1>. QED BY <1>2, <1>3, <1>5, <1>7, <1>8

\* Wildcards over words are a sequence of bytes.
LEMMA WordsType ==
  ASSUME NEW words \in Nat
  PROVE  WildcardWords(words) \in Seq(Nat)
<1>1. PICK full \in Nat, rest \in 0..(MaxSpan - 1), heads \in Seq(Nat), last \in Seq(Nat) :
        WildcardWords(words) = heads \o last
  BY WordsParts
<1>. QED BY <1>1

\* They skip the words they were made for.
LEMMA WordsSkipped ==
  ASSUME NEW blob \in Seq(Nat), NEW payload \in Seq(Nat), NEW sender, NEW members,
         NEW matched, matched = MatchLoop(blob, payload, sender, members),
         NEW b \in Nat, NEW p \in Nat, NEW words \in Nat,
         p + words * WordLength <= Len(payload), Holds(blob, b, WildcardWords(words))
  PROVE  matched[b][p] = matched[b + Len(WildcardWords(words))][p + words * WordLength]
<1>1. PICK full \in Nat, rest \in 0..(MaxSpan - 1), heads \in Seq(Nat), last \in Seq(Nat) :
        /\ words = full * MaxSpan + rest
        /\ WildcardWords(words) = heads \o last
        /\ Len(heads) = full /\ \A i \in 1..full : heads[i] = Header(WILDCARD_WORDS, MaxSpan)
        /\ rest > 0 => last = <<Header(WILDCARD_WORDS, rest)>>
        /\ rest = 0 => last = <<>>
  BY WordsParts
<1>. DEFINE U == MaxSpan * WordLength
            S == {i \in Nat : i <= full => matched[b][p] = matched[b + i][p + i * U]}
<1>0. MaxSpan \in Nat \ {0} /\ WordLength \in Nat \ {0}
  BY DirectivesAssumption
<1>2. MaxSpan \in Nat \ {0} /\ WordLength \in Nat \ {0} /\ rest \in Nat /\ U \in Nat
  BY <1>0
<1>3. words * WordLength = full * U + rest * WordLength
  BY <1>1, <1>2
<1>. HIDE DEF U
<1>4. full * U \in Nat /\ rest * WordLength \in Nat
  BY <1>2
<1>5. Holds(blob, b, heads) /\ Holds(blob, b + full, last)
  <2>1. Holds(blob, b, heads \o last) /\ Len(heads) = full
    BY <1>1
  <2>. QED BY <2>1, HoldsParts
<1>6. b + full <= Len(blob) /\ \A i \in 1..full : blob[b + i] = Header(WILDCARD_WORDS, MaxSpan)
  BY <1>1, <1>5 DEF Holds
<1>7. ASSUME NEW i \in Nat, i < full
      PROVE  matched[b + i][p + i * U] = matched[b + (i + 1)][p + (i + 1) * U]
  <2>1. i * U \in Nat /\ (i + 1) * U = i * U + U
    BY <1>2
  <2>2. (i + 1) * U <= full * U
    BY <1>2, <1>7
  <2>3. p + i * U <= Len(payload)
    <3>. HIDE DEF S
    <3>. DEFINE x == i * U
                y == full * U
                z == rest * WordLength
    <3>1. x \in Nat /\ y \in Nat /\ z \in Nat /\ x + U <= y /\ p + (y + z) <= Len(payload)
      BY <1>3, <1>4, <2>1, <2>2
    <3>. HIDE DEF x, y, z
    <3>2. p + x <= Len(payload)
      BY <1>2, <3>1
    <3>. QED BY <3>2 DEF x
  <2>4. b + i \in Nat /\ b + i < Len(blob) /\ (b + i) + 1 = b + (i + 1) /\ i + 1 \in 1..full
    BY <1>6, <1>7
  <2>5. blob[(b + i) + 1] = Header(WILDCARD_WORDS, MaxSpan)
    BY <1>6, <2>4
  <2>6. p + i * U \in Nat /\ (p + i * U) + MaxSpan * WordLength = p + (i + 1) * U
    BY <1>2, <2>1 DEF U
  <2>7. MaxSpan \in 1..MaxSpan
    BY <1>2
  <2>8. Leads(matched, b + i, p + i * U, (b + i) + 1, (p + i * U) + MaxSpan * WordLength)
    BY <2>3, <2>4, <2>5, <2>6, <2>7, SkippedWords, Zenon
  <2>. QED BY <2>4, <2>6, <2>8 DEF Leads
<1>8. matched[b][p] = matched[b + full][p + full * U]
  <2>1. 0 \in S
    <3>1. 0 * U = 0 /\ b + 0 = b /\ p + 0 = p
      BY <1>2
    <3>. QED BY <3>1
  <2>2. S \in SUBSET Nat
    OBVIOUS
  <2>3. ASSUME NEW i \in Nat, i \in S, i < full
        PROVE  i + 1 \in S
    BY <1>7, <2>3
  <2>. HIDE DEF S
  <2>4. \A i \in 0..full : i \in S
    BY <2>1, <2>2, <2>3, SetInduction
  <2>5. full \in S
    BY <2>4
  <2>. QED BY <2>5 DEF S
<1>9. Len(WildcardWords(words)) = full + Len(last) /\ Len(last) \in Nat
  BY <1>1
<1>10. CASE rest = 0
  <2>1. Len(last) = 0 /\ rest * WordLength = 0
    BY <1>1, <1>2, <1>10
  <2>. QED BY <1>3, <1>4, <1>8, <1>9, <2>1
<1>11. CASE rest > 0
  <2>1. last = <<Header(WILDCARD_WORDS, rest)>>
    BY <1>1, <1>11
  <2>2. Len(last) = 1 /\ last[1] = Header(WILDCARD_WORDS, rest)
    BY <2>1
  <2>3. b + full \in Nat /\ b + full < Len(blob) /\ blob[(b + full) + 1] = Header(WILDCARD_WORDS, rest)
    BY <1>5, <2>2 DEF Holds
  <2>4. rest \in 1..MaxSpan
    BY <1>1, <1>2, <1>11
  <2>5. p + full * U \in Nat /\ p + full * U <= Len(payload)
    BY <1>3, <1>4
  <2>6. matched[b + full][p + full * U] = matched[(b + full) + 1][(p + full * U) + rest * WordLength]
    <3>. DEFINE c == b + full
                q == p + full * U
    <3>1. /\ c \in Nat /\ c < Len(blob) /\ blob[c + 1] = Header(WILDCARD_WORDS, rest)
          /\ q \in Nat /\ q <= Len(payload)
      BY <2>3, <2>5
    <3>. HIDE DEF c, q, S
    <3>2. Leads(matched, c, q, c + 1, q + rest * WordLength)
      BY <3>1, <2>4, SkippedWords, Zenon
    <3>. QED BY <3>2 DEF c, q, Leads
  <2>7. (p + full * U) + rest * WordLength = p + words * WordLength /\ (b + full) + 1 = b + (full + 1)
    BY <1>3, <1>4
  <2>. QED BY <1>8, <1>9, <2>2, <2>6, <2>7
<1>. QED BY <1>2, <1>10, <1>11

\* The wildcards for some bytes, and that they skip them.
LEMMA FlushParts ==
  ASSUME NEW bytes \in Nat
  PROVE  \E words \in Nat, leftover \in 0..MaxSpan, last \in Seq(Nat) :
           /\ bytes = words * WordLength + leftover
           /\ FlushWildcards(bytes) = WildcardWords(words) \o last
           /\ leftover > 0 => last = <<Header(WILDCARD_BYTES, leftover)>>
           /\ leftover = 0 => last = <<>>
<1> DEFINE words == bytes \div WordLength
           leftover == bytes % WordLength
           last == IF leftover > 0 THEN <<Header(WILDCARD_BYTES, leftover)>> ELSE <<>>
<1>1. MaxSpan \in Nat /\ WordLength \in Nat \ {0} /\ WordLength <= MaxSpan /\ WILDCARD_BYTES \in Nat
  BY DirectivesAssumption DEF WILDCARD_BYTES
<1>2. words \in Nat /\ leftover \in Nat /\ leftover < WordLength /\ bytes = words * WordLength + leftover
  BY <1>1
<1>3. FlushWildcards(bytes) = WildcardWords(words) \o last
  BY DEF FlushWildcards
<1>. HIDE DEF words, leftover
<1>4. leftover \in 0..MaxSpan
  BY <1>1, <1>2
<1>5. last \in Seq(Nat)
  BY <1>1, <1>2, HeaderType
<1>6. (leftover > 0 => last = <<Header(WILDCARD_BYTES, leftover)>>) /\ (leftover = 0 => last = <<>>)
  BY <1>2
<1>. HIDE DEF last
<1>. QED BY <1>2, <1>3, <1>4, <1>5, <1>6

\* So are the wildcards over a run of bytes.
LEMMA FlushType ==
  ASSUME NEW bytes \in Nat
  PROVE  FlushWildcards(bytes) \in Seq(Nat)
<1>1. PICK words \in Nat, leftover \in 0..MaxSpan, last \in Seq(Nat) :
        FlushWildcards(bytes) = WildcardWords(words) \o last
  BY FlushParts
<1>2. WildcardWords(words) \in Seq(Nat)
  BY WordsType
<1>. QED BY <1>1, <1>2

\* A flushed run of bytes is skipped by what was printed for it.
LEMMA FlushSkipped ==
  ASSUME NEW blob \in Seq(Nat), NEW payload \in Seq(Nat), NEW sender, NEW members,
         NEW matched, matched = MatchLoop(blob, payload, sender, members),
         NEW b \in Nat, NEW p \in Nat, NEW bytes \in Nat,
         p + bytes <= Len(payload), Holds(blob, b, FlushWildcards(bytes))
  PROVE  matched[b][p] = matched[b + Len(FlushWildcards(bytes))][p + bytes]
<1>1. PICK words \in Nat, leftover \in 0..MaxSpan, last \in Seq(Nat) :
        /\ bytes = words * WordLength + leftover
        /\ FlushWildcards(bytes) = WildcardWords(words) \o last
        /\ leftover > 0 => last = <<Header(WILDCARD_BYTES, leftover)>>
        /\ leftover = 0 => last = <<>>
  BY FlushParts
<1>2. MaxSpan \in Nat /\ WordLength \in Nat
  BY DirectivesAssumption
<1>. DEFINE w == words * WordLength
            skip == WildcardWords(words)
            c == b + Len(skip)
<1>3. w \in Nat /\ leftover \in Nat /\ bytes = w + leftover
  BY <1>1, <1>2
<1>. HIDE DEF skip, w
<1>4. skip \in Seq(Nat) /\ Len(skip) \in Nat
  <2>1. skip \in Seq(Nat)
    BY WordsType DEF skip
  <2>. QED BY <2>1
<1>5. Holds(blob, b, skip) /\ Holds(blob, c, last)
  <2>1. Holds(blob, b, skip \o last)
    BY <1>1 DEF skip
  <2>. QED BY <1>4, <2>1, HoldsParts
<1>6. p + w <= Len(payload)
  BY <1>3
<1>7. matched[b][p] = matched[c][p + w]
  BY <1>5, <1>6, WordsSkipped DEF skip, w, c
<1>. DEFINE end == b + Len(FlushWildcards(bytes))
<1>8. Len(FlushWildcards(bytes)) = Len(skip) + Len(last) /\ Len(last) \in Nat
  BY <1>1, <1>4 DEF skip
<1>11. end = c + Len(last) /\ c \in Nat
  BY <1>4, <1>8
<1>. HIDE DEF end, c
<1>9. CASE leftover = 0
  <2>1. Len(last) = 0
    BY <1>1, <1>9
  <2>2. p + bytes = p + w /\ end = c
    BY <1>3, <1>9, <1>11, <2>1
  <2>. QED BY <1>7, <2>2 DEF end
<1>10. CASE leftover > 0
  <2>1. last = <<Header(WILDCARD_BYTES, leftover)>>
    BY <1>1, <1>10
  <2>2. Len(last) = 1 /\ last[1] = Header(WILDCARD_BYTES, leftover)
    BY <2>1
  <2>3. c \in Nat /\ c < Len(blob) /\ blob[c + 1] = Header(WILDCARD_BYTES, leftover)
    BY <1>5, <1>11, <2>2 DEF Holds
  <2>4. leftover \in 1..MaxSpan
    BY <1>1, <1>3, <1>10
  <2>5. p + w \in Nat
    BY <1>3
  <2>6. c + 1 = end /\ (p + w) + leftover = p + bytes
    BY <1>3, <1>11, <2>2
  <2>7. matched[c][p + w] = matched[c + 1][(p + w) + leftover]
    <3>. DEFINE q == p + w
    <3>1. q \in Nat /\ q <= Len(payload)
      BY <1>6, <2>5
    <3>. HIDE DEF q
    <3>2. Leads(matched, c, q, c + 1, q + leftover)
      BY <2>3, <2>4, <3>1, SkippedBytes, Zenon
    <3>. QED BY <3>2 DEF q, Leads
  <2>. QED BY <1>7, <2>6, <2>7 DEF end
<1>. QED BY <1>3, <1>9, <1>10

\* One pattern of those that fit is taken.
LEMMA LongestExists ==
  ASSUME NEW fits \in SUBSET Patterns, fits # {}
  PROVE  (CHOOSE x \in fits : \A y \in fits : Len(y) <= Len(x)) \in fits
<1> DEFINE S == {MaxSpan - Len(x) : x \in fits}
<1>1. MaxSpan \in Nat /\ \A x \in fits : Len(x) \in 1..MaxSpan
  BY ScriptsAssumption, DirectivesAssumption
<1>2. S \in SUBSET Nat /\ S # {}
  BY <1>1
<1>3. PICK m \in S : \A n \in S : m <= n
  <2>. HIDE DEF S
  <2>. QED BY <1>2, LeastNatural
<1>4. PICK x \in fits : m = MaxSpan - Len(x)
  BY <1>3
<1>5. \A y \in fits : Len(y) <= Len(x)
  <2> SUFFICES ASSUME NEW y \in fits PROVE Len(y) <= Len(x)
    OBVIOUS
  <2>1. MaxSpan - Len(x) <= MaxSpan - Len(y)
    BY <1>3, <1>4
  <2>. QED BY <1>1, <2>1
<1>. QED BY <1>5

\* What a round of the scan may do: skip a byte, print bytes, or print a role.
Skips(data, self, listed, ptr) ==
  \A f : \A pending \in Nat :
    ScanRound(f, data, self, listed, Patterns, ptr, pending) = f[ptr + 1][pending + 1]

PrintsExact(data, self, listed, ptr, n) ==
  /\ n \in 1..MaxSpan /\ ptr + n <= Len(data)
  /\ \A f : \A pending \in Nat :
       ScanRound(f, data, self, listed, Patterns, ptr, pending)
         = FlushWildcards(pending) \o <<Header(EXACT, n)>> \o Bytes(data, ptr, n) \o f[ptr + n][0]

PrintsRole(data, self, listed, ptr, n, type) ==
  /\ n \in AddressSpans /\ ptr + n <= Len(data)
  /\ \/ type = SELF /\ Bytes(data, ptr + n - AddressLength, AddressLength) = self
     \/ type = FROM_LIST /\ Bytes(data, ptr + n - AddressLength, AddressLength) \in listed
  /\ \A f : \A pending \in Nat :
       ScanRound(f, data, self, listed, Patterns, ptr, pending)
         = FlushWildcards(pending) \o <<Header(type, n)>> \o f[ptr + n][0]

\* What the scan does at a place: it skips a byte, prints a pattern with its
\* bytes, or prints the role of an address, padded or packed.
LEMMA ScanCases ==
  ASSUME NEW data \in Seq(Nat), NEW self, NEW listed, NEW ptr \in Nat, ptr < Len(data)
  PROVE  \/ Skips(data, self, listed, ptr)
         \/ \E n \in 1..MaxSpan : PrintsExact(data, self, listed, ptr, n)
         \/ \E n \in AddressSpans, type \in {SELF, FROM_LIST} :
              PrintsRole(data, self, listed, ptr, n, type)
<1> DEFINE fits   == {pat \in Patterns : ptr + Len(pat) <= Len(data) /\ Bytes(data, ptr, Len(pat)) = pat}
           known  == {self} \cup listed
           padded == Bytes(data, ptr, WordLength)
           inWord == Bytes(data, ptr + WordLength - AddressLength, AddressLength)
           packed == Bytes(data, ptr, AddressLength)
           Role(address) == IF address = self THEN SELF ELSE FROM_LIST
           isWord == /\ ptr + WordLength <= Len(data)
                     /\ Bytes(padded, 0, WordLength - AddressLength) = Zeros(WordLength - AddressLength)
                     /\ inWord \in known
           isPacked == ptr + AddressLength <= Len(data) /\ packed \in known
<1>1. WordLength \in Nat \ {0} /\ AddressLength \in Nat \ {0} /\ ~(ptr >= Len(data))
  BY DirectivesAssumption
<1>2. CASE fits # {}
  <2>. DEFINE pat == CHOOSE x \in fits : \A y \in fits : Len(y) <= Len(x)
  <2>1. pat \in fits
    <3>1. fits \in SUBSET Patterns
      OBVIOUS
    <3>. HIDE DEF fits
    <3>. QED BY <1>2, <3>1, LongestExists
  <2>2. Len(pat) \in 1..MaxSpan /\ ptr + Len(pat) <= Len(data) /\ Bytes(data, ptr, Len(pat)) = pat
    <3>. HIDE DEF pat
    <3>. QED BY <2>1, ScriptsAssumption
  <2>3. ASSUME NEW f, NEW pending \in Nat
        PROVE  ScanRound(f, data, self, listed, Patterns, ptr, pending)
                 = FlushWildcards(pending) \o <<Header(EXACT, Len(pat))>> \o pat \o f[ptr + Len(pat)][0]
    BY <1>1, <1>2 DEF ScanRound
  <2>. HIDE DEF pat, fits
  <2>. QED BY <2>2, <2>3 DEF PrintsExact
<1>3. CASE fits = {} /\ isWord
  <2>1. ASSUME NEW f, NEW pending \in Nat
        PROVE  ScanRound(f, data, self, listed, Patterns, ptr, pending)
                 = FlushWildcards(pending) \o <<Header(Role(inWord), WordLength)>> \o f[ptr + WordLength][0]
    BY <1>1, <1>3 DEF ScanRound
  <2>2. PrintsRole(data, self, listed, ptr, WordLength, Role(inWord))
    BY <1>3, <2>1 DEF PrintsRole, AddressSpans
  <2>3. WordLength \in AddressSpans /\ Role(inWord) \in {SELF, FROM_LIST}
    BY DEF AddressSpans
  <2>. QED BY <2>2, <2>3
<1>4. CASE fits = {} /\ ~isWord /\ isPacked
  <2>1. ASSUME NEW f, NEW pending \in Nat
        PROVE  ScanRound(f, data, self, listed, Patterns, ptr, pending)
                 = FlushWildcards(pending) \o <<Header(Role(packed), AddressLength)>>
                     \o f[ptr + AddressLength][0]
    BY <1>1, <1>4 DEF ScanRound
  <2>2. ptr + AddressLength - AddressLength = ptr
    BY <1>1
  <2>3. PrintsRole(data, self, listed, ptr, AddressLength, Role(packed))
    BY <1>4, <2>1, <2>2 DEF PrintsRole, AddressSpans
  <2>4. AddressLength \in AddressSpans /\ Role(packed) \in {SELF, FROM_LIST}
    BY DEF AddressSpans
  <2>. QED BY <2>3, <2>4
<1>5. CASE fits = {} /\ ~isWord /\ ~isPacked
  <2>1. ASSUME NEW f, NEW pending \in Nat
        PROVE  ScanRound(f, data, self, listed, Patterns, ptr, pending) = f[ptr + 1][pending + 1]
    BY <1>1, <1>5 DEF ScanRound
  <2>. QED BY <2>1 DEF Skips
<1>. QED BY <1>2, <1>3, <1>4, <1>5

\* At the end of the call the bytes skipped before it are left to print.
LEMMA ScanEnd ==
  ASSUME NEW f, NEW data \in Seq(Nat), NEW self, NEW listed, NEW ptr \in Nat, NEW pending,
         ptr >= Len(data)
  PROVE  ScanRound(f, data, self, listed, Patterns, ptr, pending) = FlushWildcards(pending)
<1>1. ~(ptr < Len(data)) /\ ~(ptr + WordLength <= Len(data))
  BY DirectivesAssumption
<1>. QED BY <1>1 DEF ScanRound

\* generateDirectivesFromCalldata runs the rounds of ScanRound, and prints bytes.
LEMMA ScanLoopRounds ==
  ASSUME NEW data \in Seq(Nat), NEW self, NEW listed, NEW b \in Nat, NEW p \in Nat
  PROVE  ScanLoop(data, self, listed, Patterns)[b][p]
           = ScanRound(ScanLoop(data, self, listed, Patterns), data, self, listed, Patterns, b, p)
<1> DEFINE V == Seq(Nat)
           W == [Nat -> V]
           R(f, c, q) == ScanRound(f, data, self, listed, Patterns, c, q)
           Round == [f \in [Nat -> W] |-> [c \in Nat |-> [q \in Nat |-> R(f, c, q)]]]
           Solves(f) == f = [c \in Nat |-> [q \in Nat |-> R(f, c, q)]]
<1>0. ASSUME NEW c \in Nat, c >= Len(data), NEW f, NEW q \in Nat
      PROVE  R(f, c, q) = FlushWildcards(q)
  BY <1>0, ScanEnd
<1>1. ASSUME NEW f \in [Nat -> W], NEW c \in Nat, NEW q \in Nat
      PROVE  R(f, c, q) \in V
  <2>0. FlushWildcards(q) \in Seq(Nat)
    BY FlushType
  <2>1. CASE c >= Len(data)
    <3>1. R(f, c, q) = FlushWildcards(q)
      BY <1>0, <2>1
    <3>. QED BY <2>0, <3>1
  <2>. HIDE DEF R
  <2>2. ASSUME Skips(data, self, listed, c)
        PROVE  R(f, c, q) \in V
    <3>1. f[c + 1][q + 1] \in V
      BY SMTT(30)
    <3>. QED BY <2>2, <3>1 DEF Skips, R
  <2>3. ASSUME NEW n \in 1..MaxSpan, PrintsExact(data, self, listed, c, n)
        PROVE  R(f, c, q) \in V
    <3>1. n \in Nat /\ c + n <= Len(data) /\ EXACT \in Nat
      BY <2>3, DirectivesAssumption DEF PrintsExact, EXACT
    <3>2. f[c + n][0] \in V
      BY <3>1
    <3>3. <<Header(EXACT, n)>> \in Seq(Nat)
      BY <3>1, HeaderType
    <3>4. Bytes(data, c, n) \in Seq(Nat)
      BY <3>1, BytesFacts
    <3>5. R(f, c, q) = FlushWildcards(q) \o <<Header(EXACT, n)>> \o Bytes(data, c, n) \o f[c + n][0]
      BY <2>3 DEF PrintsExact, R
    <3>. QED BY <2>0, <3>2, <3>3, <3>4, <3>5
  <2>4. ASSUME NEW n \in AddressSpans, NEW type \in {SELF, FROM_LIST},
               PrintsRole(data, self, listed, c, n, type)
        PROVE  R(f, c, q) \in V
    <3>1. n \in Nat /\ type \in Nat
      BY DirectivesAssumption DEF AddressSpans, SELF, FROM_LIST
    <3>2. f[c + n][0] \in V
      BY <3>1
    <3>3. <<Header(type, n)>> \in Seq(Nat)
      BY <3>1, HeaderType
    <3>4. R(f, c, q) = FlushWildcards(q) \o <<Header(type, n)>> \o f[c + n][0]
      BY <2>4 DEF PrintsRole, R
    <3>. QED BY <2>0, <3>2, <3>3, <3>4
  <2>5. CASE c < Len(data)
    <3>1. \/ Skips(data, self, listed, c)
          \/ \E n \in 1..MaxSpan : PrintsExact(data, self, listed, c, n)
          \/ \E n \in AddressSpans, type \in {SELF, FROM_LIST} :
               PrintsRole(data, self, listed, c, n, type)
      BY <2>5, ScanCases
    <3>. QED BY <2>2, <2>3, <2>4, <3>1
  <2>. QED BY <2>1, <2>5
<1>2. ASSUME NEW f \in [Nat -> W], NEW g \in [Nat -> W], NEW c \in Nat,
             c < Len(data) => \A d \in Nat : d > c => f[d] = g[d], NEW q \in Nat
      PROVE  R(f, c, q) = R(g, c, q)
  <2>1. CASE c >= Len(data)
    BY <1>0, <2>1
  <2>. HIDE DEF R
  <2>2. ASSUME c < Len(data), Skips(data, self, listed, c)
        PROVE  R(f, c, q) = R(g, c, q)
    <3>1. f[c + 1] = g[c + 1]
      BY <1>2, <2>2
    <3>. QED BY <2>2, <3>1 DEF Skips, R
  <2>3. ASSUME c < Len(data), NEW n \in 1..MaxSpan, PrintsExact(data, self, listed, c, n)
        PROVE  R(f, c, q) = R(g, c, q)
    <3>0. n \in Nat \ {0}
      BY DirectivesAssumption
    <3>1. f[c + n] = g[c + n]
      BY <1>2, <2>3, <3>0
    <3>2. /\ R(f, c, q) = FlushWildcards(q) \o <<Header(EXACT, n)>> \o Bytes(data, c, n) \o f[c + n][0]
          /\ R(g, c, q) = FlushWildcards(q) \o <<Header(EXACT, n)>> \o Bytes(data, c, n) \o g[c + n][0]
      BY <2>3 DEF PrintsExact, R
    <3>. QED BY <3>1, <3>2, Zenon
  <2>4. ASSUME c < Len(data), NEW n \in AddressSpans, NEW type \in {SELF, FROM_LIST},
               PrintsRole(data, self, listed, c, n, type)
        PROVE  R(f, c, q) = R(g, c, q)
    <3>0. n \in Nat \ {0}
      BY DirectivesAssumption DEF AddressSpans
    <3>1. f[c + n] = g[c + n]
      BY <1>2, <2>4, <3>0
    <3>2. /\ R(f, c, q) = FlushWildcards(q) \o <<Header(type, n)>> \o f[c + n][0]
          /\ R(g, c, q) = FlushWildcards(q) \o <<Header(type, n)>> \o g[c + n][0]
      BY <2>4 DEF PrintsRole, R
    <3>. QED BY <3>1, <3>2, Zenon
  <2>5. CASE c < Len(data)
    <3>1. \/ Skips(data, self, listed, c)
          \/ \E n \in 1..MaxSpan : PrintsExact(data, self, listed, c, n)
          \/ \E n \in AddressSpans, type \in {SELF, FROM_LIST} :
               PrintsRole(data, self, listed, c, n, type)
      BY <2>5, ScanCases
    <3>. QED BY <2>2, <2>3, <2>4, <2>5, <3>1
  <2>. QED BY <2>1, <2>5
<1>3. Round \in [[Nat -> W] -> [Nat -> W]]
  <2>. HIDE DEF R, V
  <2>. QED BY <1>1
<1>4. CountsLater(Round, V, Len(data))
  <2>. HIDE DEF R
  <2>1. \A f \in [Nat -> W], c \in Nat, q \in Nat : Round[f][c][q] = R(f, c, q)
    OBVIOUS
  <2>2. ASSUME NEW f \in [Nat -> W], NEW g \in [Nat -> W], NEW c \in Nat, NEW q \in Nat,
               c < Len(data) => \A d \in Nat : d > c => f[d] = g[d]
        PROVE  Round[f][c][q] = Round[g][c][q]
    <3>1. R(f, c, q) = R(g, c, q)
      BY <1>2, <2>2
    <3>2. Round[f][c][q] = R(f, c, q) /\ Round[g][c][q] = R(g, c, q)
      BY <2>1
    <3>. QED BY <3>1, <3>2, Zenon
  <2>. HIDE DEF Round
  <2>. QED BY <2>2 DEF CountsLater
<1>5. Len(data) \in Nat /\ V # {}
  OBVIOUS
<1>6. \E f \in [Nat -> [Nat -> V]] : f = Round[f]
  <2>. HIDE DEF Round, V
  <2>. QED BY <1>3, <1>4, <1>5, CountingLoopHasSolution
<1>7. \E f : Solves(f)
  <2>. HIDE DEF R
  <2>. QED BY <1>6
<1>. DEFINE loop == ScanLoop(data, self, listed, Patterns)
<1>8. loop = CHOOSE f : Solves(f)
  BY DEF ScanLoop
<1>9. Solves(loop)
  <2>. HIDE DEF Solves, loop
  <2>. QED BY <1>7, <1>8
<1>10. loop[b] = [q \in Nat |-> R(loop, b, q)]
  <2>. HIDE DEF loop, R
  <2>. QED BY <1>9
<1>. QED BY <1>10, Zenon

\* What is left to print at any place is a sequence of bytes.
LEMMA ScanType ==
  ASSUME NEW data \in Seq(Nat), NEW self, NEW listed, NEW ptr \in Nat, NEW pending \in Nat
  PROVE  ScanLoop(data, self, listed, Patterns)[ptr][pending] \in Seq(Nat)
<1> DEFINE loop == ScanLoop(data, self, listed, Patterns)
           S == {c \in Nat : \A q \in Nat : loop[c][q] \in Seq(Nat)}
<1>1. ASSUME NEW c \in Nat, c < Len(data) => \A d \in Nat : d > c => d \in S
      PROVE  c \in S
  <2> SUFFICES ASSUME NEW q \in Nat PROVE loop[c][q] \in Seq(Nat)
    OBVIOUS
  <2>0. FlushWildcards(q) \in Seq(Nat)
    BY FlushType
  <2>1. loop[c][q] = ScanRound(loop, data, self, listed, Patterns, c, q)
    BY ScanLoopRounds
  <2>. HIDE DEF loop
  <2>2. CASE c >= Len(data)
    <3>1. loop[c][q] = FlushWildcards(q)
      BY <2>1, <2>2, ScanEnd
    <3>. QED BY <2>0, <3>1
  <2>3. ASSUME c < Len(data), Skips(data, self, listed, c)
        PROVE  loop[c][q] \in Seq(Nat)
    <3>1. c + 1 \in S
      BY <1>1, <2>3
    <3>2. loop[c + 1][q + 1] \in Seq(Nat)
      <4>1. \A r \in Nat : loop[c + 1][r] \in Seq(Nat)
        BY <3>1
      <4>2. q + 1 \in Nat
        OBVIOUS
      <4>. QED BY <4>1, <4>2, Zenon
    <3>3. loop[c][q] = loop[c + 1][q + 1]
      BY <2>1, <2>3 DEF Skips
    <3>. QED BY <3>2, <3>3, Zenon
  <2>4. ASSUME c < Len(data), NEW n \in 1..MaxSpan, PrintsExact(data, self, listed, c, n)
        PROVE  loop[c][q] \in Seq(Nat)
    <3>1. n \in Nat \ {0} /\ c + n <= Len(data) /\ EXACT \in Nat
      BY <2>4, DirectivesAssumption DEF PrintsExact, EXACT
    <3>2. c + n \in S
      <4>. HIDE DEF S
      <4>. QED BY <1>1, <2>4, <3>1
    <3>3. loop[c + n][0] \in Seq(Nat)
      BY <3>2
    <3>4. <<Header(EXACT, n)>> \in Seq(Nat)
      BY <3>1, HeaderType
    <3>5. Bytes(data, c, n) \in Seq(Nat)
      BY <3>1, BytesFacts
    <3>6. loop[c][q] = FlushWildcards(q) \o <<Header(EXACT, n)>> \o Bytes(data, c, n) \o loop[c + n][0]
      BY <2>1, <2>4 DEF PrintsExact
    <3>. HIDE DEF S
    <3>. QED BY <2>0, <3>3, <3>4, <3>5, <3>6
  <2>5. ASSUME c < Len(data), NEW n \in AddressSpans, NEW type \in {SELF, FROM_LIST},
               PrintsRole(data, self, listed, c, n, type)
        PROVE  loop[c][q] \in Seq(Nat)
    <3>1. n \in Nat \ {0} /\ type \in Nat
      BY DirectivesAssumption DEF AddressSpans, SELF, FROM_LIST
    <3>2. c + n \in S
      <4>. HIDE DEF S
      <4>. QED BY <1>1, <2>5, <3>1
    <3>3. loop[c + n][0] \in Seq(Nat)
      BY <3>2
    <3>4. <<Header(type, n)>> \in Seq(Nat)
      BY <3>1, HeaderType
    <3>5. loop[c][q] = FlushWildcards(q) \o <<Header(type, n)>> \o loop[c + n][0]
      BY <2>1, <2>5 DEF PrintsRole
    <3>. HIDE DEF S
    <3>. QED BY <2>0, <3>3, <3>4, <3>5
  <2>. QED BY <2>2, <2>3, <2>4, <2>5, ScanCases
<1>2. ptr \in S
  <2>1. S \in SUBSET Nat /\ Len(data) \in Nat
    OBVIOUS
  <2>. HIDE DEF S
  <2>. QED BY <1>1, <2>1, BackwardInduction
<1>. QED BY <1>2

\* Bytes of the call that stand in the blob compare equal.
LEMMA PrintedBytesCompare ==
  ASSUME NEW blob \in Seq(Nat), NEW data \in Seq(Nat), NEW b \in Nat, NEW p \in Nat, NEW n \in Nat,
         p + n <= Len(data), Holds(blob, b, Bytes(data, p, n))
  PROVE  SameBytes(blob, b, data, p, n)
<1>1. /\ Len(Bytes(data, p, n)) = n
      /\ Bytes(data, p, n) = [k \in 1..n |-> data[p + k]]
  BY BytesFacts
<1>2. b + n <= Len(blob) /\ \A k \in 1..n : blob[b + k] = data[p + k]
  BY <1>1 DEF Holds
<1>3. Bytes(blob, b, n) = [k \in 1..n |-> blob[b + k]]
  BY <1>2, BytesFacts
<1>4. [k \in 1..n |-> blob[b + k]] = [k \in 1..n |-> data[p + k]]
  BY <1>2
<1>. QED BY <1>1, <1>2, <1>3, <1>4 DEF SameBytes

\* The length of two sequences put together.
LEMMA ConcatLength ==
  ASSUME NEW s \in Seq(Nat), NEW t \in Seq(Nat)
  PROVE  Len(s \o t) = Len(s) + Len(t) /\ Len(s) \in Nat /\ Len(t) \in Nat
OBVIOUS

\* From place b of the blob and p of the call on, all is as it should be.
RestMatches(blob, data, self, members, b, p) == MatchLoop(blob, data, self, members)[b][p] = "yes"

\* From any place of the scan on, what is printed allows what is left of the call.
LEMMA ScanAllows ==
  ASSUME NEW data \in Seq(Nat), NEW self, NEW members, NEW listed, listed \subseteq members,
         NEW blob \in Seq(Nat), NEW at \in 0..Len(data), NEW start \in Nat,
         Suffix(blob, start, ScanLoop(data, self, listed, Patterns)[at][0])
  PROVE  RestMatches(blob, data, self, members, start, at)
<1> DEFINE scan == ScanLoop(data, self, listed, Patterns)
           matched == MatchLoop(blob, data, self, members)
           Allowed(ptr, pending) ==
             \A b \in Nat : Suffix(blob, b, scan[ptr][pending]) => matched[b][ptr - pending] = "yes"
           S == {ptr \in Nat : ptr <= Len(data) => \A pending \in 0..ptr : Allowed(ptr, pending)}
<1>1. ASSUME NEW ptr \in Nat, ptr < Len(data) => \A c \in Nat : c > ptr => c \in S
      PROVE  ptr \in S
  <2> SUFFICES ASSUME ptr <= Len(data), NEW pending \in 0..ptr, NEW b \in Nat,
                      Suffix(blob, b, scan[ptr][pending])
               PROVE  matched[b][ptr - pending] = "yes"
    OBVIOUS
  <2>. DEFINE skip == FlushWildcards(pending)
              c == b + Len(skip)
  <2>1. scan[ptr][pending] = ScanRound(scan, data, self, listed, Patterns, ptr, pending)
    BY ScanLoopRounds
  <2>2. skip \in Seq(Nat) /\ c \in Nat
    <3>1. skip \in Seq(Nat)
      BY FlushType
    <3>. HIDE DEF skip
    <3>. QED BY <3>1
  <2>3. ASSUME Holds(blob, b, skip)
        PROVE  matched[b][ptr - pending] = matched[c][ptr]
    <3>1. ptr - pending \in Nat /\ pending \in Nat /\ (ptr - pending) + pending = ptr
      OBVIOUS
    <3>. DEFINE from == ptr - pending
    <3>. HIDE DEF from, matched
    <3>2. matched[b][from] = matched[b + Len(FlushWildcards(pending))][from + pending]
      <4>1. from \in Nat /\ from + pending <= Len(data) /\ pending \in Nat
        BY <3>1 DEF from
      <4>2. matched = MatchLoop(blob, data, self, members)
        BY DEF matched
      <4>. QED BY <2>3, <4>1, <4>2, FlushSkipped
    <3>. QED BY <3>1, <3>2 DEF from
  <2>4. \A n \in Nat \ {0} : ptr + n <= Len(data) => \A d \in Nat :
          Suffix(blob, d, scan[ptr + n][0]) => matched[d][ptr + n] = "yes"
    <3>. SUFFICES ASSUME NEW n \in Nat \ {0}, ptr + n <= Len(data), NEW d \in Nat,
                         Suffix(blob, d, scan[ptr + n][0])
                  PROVE  matched[d][ptr + n] = "yes"
      OBVIOUS
    <3>. HIDE DEF scan, matched
    <3>1. ptr + n \in S
      <4>1. ptr < Len(data) /\ ptr + n \in Nat /\ ptr + n > ptr
        OBVIOUS
      <4>. HIDE DEF S
      <4>. QED BY <1>1, <4>1
    <3>2. Allowed(ptr + n, 0)
      BY <3>1
    <3>3. (ptr + n) - 0 = ptr + n
      OBVIOUS
    <3>. QED BY <3>2, <3>3
  <2>5. \A n \in Nat : scan[ptr + n][0] \in Seq(Nat)
    BY ScanType
  <2>6. matched = MatchLoop(blob, data, self, members)
    OBVIOUS
  <2>12. pending \in Nat
    OBVIOUS
  <2>7. CASE ptr = Len(data)
    <3>1. scan[ptr][pending] = skip
      BY <2>1, <2>7, ScanEnd
    <3>2. Holds(blob, b, skip) /\ c = Len(blob)
      BY <3>1 DEF Suffix
    <3>3. matched[c][ptr] = MatchRound(matched, blob, data, self, members, c, ptr)
      BY <2>2, MatchLoopRounds
    <3>. HIDE DEF matched, scan, skip, c, S
    <3>4. matched[c][ptr] = "yes"
      BY <2>7, <3>2, <3>3 DEF MatchRound
    <3>. QED BY <2>3, <3>2, <3>4
  <2>8. ASSUME ptr < Len(data), Skips(data, self, listed, ptr)
        PROVE  matched[b][ptr - pending] = "yes"
    <3>. HIDE DEF matched, scan, skip, c
    <3>1. scan[ptr][pending] = scan[ptr + 1][pending + 1]
      BY <2>1, <2>8 DEF Skips
    <3>2. ptr + 1 \in S
      <4>. HIDE DEF S
      <4>. QED BY <1>1, <2>8
    <3>3. ptr + 1 <= Len(data) /\ pending + 1 \in 0..(ptr + 1)
      BY <2>8
    <3>4. Allowed(ptr + 1, pending + 1)
      BY <3>2, <3>3
    <3>5. (ptr + 1) - (pending + 1) = ptr - pending
      OBVIOUS
    <3>. QED BY <3>1, <3>4, <3>5
  <2>. HIDE DEF matched, scan, skip, S
  <2>9. ASSUME NEW n \in 1..MaxSpan, PrintsExact(data, self, listed, ptr, n)
        PROVE  matched[b][ptr - pending] = "yes"
    <3>. DEFINE head == <<Header(EXACT, n)>>
                bytes == Bytes(data, ptr, n)
                rest == scan[ptr + n][0]
    <3>1. n \in Nat \ {0} /\ ptr + n <= Len(data) /\ EXACT \in Nat
      BY <2>9, DirectivesAssumption, SMTT(30) DEF PrintsExact, EXACT
    <3>2. head \in Seq(Nat) /\ Len(head) = 1 /\ head[1] = Header(EXACT, n)
      BY <3>1, HeaderType
    <3>3. bytes \in Seq(Nat) /\ Len(bytes) = n
      BY <3>1, BytesFacts
    <3>4. rest \in Seq(Nat)
      BY <2>5, <3>1
    <3>5. scan[ptr][pending] = skip \o head \o bytes \o rest
      <4>1. \A f : \A q \in Nat : ScanRound(f, data, self, listed, Patterns, ptr, q)
              = FlushWildcards(q) \o <<Header(EXACT, n)>> \o Bytes(data, ptr, n) \o f[ptr + n][0]
        BY <2>9, Zenon DEF PrintsExact
      <4>. QED BY <2>1, <2>12, <4>1, Zenon DEF skip
    <3>. HIDE DEF head, bytes, rest
    <3>6. skip \o head \in Seq(Nat) /\ skip \o head \o bytes \in Seq(Nat)
      BY <2>2, <3>2, <3>3
    <3>7. /\ Holds(blob, b, skip \o head \o bytes)
          /\ Suffix(blob, b + Len(skip \o head \o bytes), rest)
      BY <3>4, <3>5, <3>6, HoldsParts
    <3>8. Holds(blob, b, skip \o head) /\ Holds(blob, b + Len(skip \o head), bytes)
      BY <3>3, <3>6, <3>7, HoldsParts
    <3>9. Holds(blob, b, skip) /\ Holds(blob, c, head)
      BY <2>2, <3>2, <3>8, HoldsParts
    <3>10. /\ Len(skip \o head) = Len(skip) + Len(head) /\ Len(skip) \in Nat
           /\ Len(skip \o head \o bytes) = Len(skip \o head) + Len(bytes)
      BY <2>2, <3>2, <3>3, <3>6, ConcatLength, Zenon
    <3>11. b + Len(skip \o head) = c + 1 /\ b + Len(skip \o head \o bytes) = c + 1 + n
      <4>. DEFINE x == Len(skip)
                  y == Len(skip \o head)
                  z == Len(skip \o head \o bytes)
      <4>1. x \in Nat /\ y = x + 1 /\ z = y + n /\ c = b + x
        BY <3>2, <3>3, <3>10
      <4>. HIDE DEF x, y, z, c
      <4>2. b + y = c + 1 /\ b + z = c + 1 + n
        BY <3>1, <4>1
      <4>. QED BY <4>2 DEF y, z
    <3>. HIDE DEF c
    <3>12. c < Len(blob) /\ blob[c + 1] = Header(EXACT, n)
      BY <2>2, <3>2, <3>9 DEF Holds
    <3>13. SameBytes(blob, c + 1, data, ptr, n)
      <4>1. c + 1 \in Nat /\ Holds(blob, c + 1, Bytes(data, ptr, n))
        BY <2>2, <3>8, <3>11 DEF bytes
      <4>. QED BY <3>1, <4>1, PrintedBytesCompare
    <3>14. Leads(matched, c, ptr, c + 1 + n, ptr + n)
      BY <2>2, <2>6, <3>12, <3>13, ComparedBytes, Zenon
    <3>15. matched[c + 1 + n][ptr + n] = "yes"
      <4>1. c + 1 + n \in Nat /\ Suffix(blob, c + 1 + n, scan[ptr + n][0])
        BY <2>2, <3>1, <3>7, <3>11 DEF rest
      <4>. QED BY <2>4, <3>1, <4>1
    <3>. QED BY <2>3, <3>9, <3>14, <3>15 DEF Leads
  <2>10. ASSUME NEW n \in AddressSpans, NEW type \in {SELF, FROM_LIST},
                PrintsRole(data, self, listed, ptr, n, type)
         PROVE  matched[b][ptr - pending] = "yes"
    <3>. DEFINE head == <<Header(type, n)>>
                rest == scan[ptr + n][0]
    <3>1. n \in Nat \ {0} /\ n \in 1..MaxSpan /\ ptr + n <= Len(data) /\ type \in Nat
      BY <2>10, DirectivesAssumption, SMTT(30) DEF PrintsRole, AddressSpans, SELF, FROM_LIST
    <3>2. head \in Seq(Nat) /\ Len(head) = 1 /\ head[1] = Header(type, n)
      BY <3>1, HeaderType
    <3>4. rest \in Seq(Nat)
      BY <2>5, <3>1
    <3>5. scan[ptr][pending] = skip \o head \o rest
      <4>1. \A f : \A q \in Nat : ScanRound(f, data, self, listed, Patterns, ptr, q)
              = FlushWildcards(q) \o <<Header(type, n)>> \o f[ptr + n][0]
        BY <2>10, Zenon DEF PrintsRole
      <4>. QED BY <2>1, <2>12, <4>1, Zenon DEF skip
    <3>. HIDE DEF head, rest
    <3>6. skip \o head \in Seq(Nat)
      BY <2>2, <3>2
    <3>7. Holds(blob, b, skip \o head) /\ Suffix(blob, b + Len(skip \o head), rest)
      BY <3>4, <3>5, <3>6, HoldsParts
    <3>9. Holds(blob, b, skip) /\ Holds(blob, c, head)
      BY <2>2, <3>2, <3>7, HoldsParts
    <3>10. Len(skip \o head) = Len(skip) + Len(head) /\ Len(skip) \in Nat
      BY <2>2, <3>2, ConcatLength, Zenon
    <3>11. b + Len(skip \o head) = c + 1
      <4>. DEFINE x == Len(skip)
                  y == Len(skip \o head)
      <4>1. x \in Nat /\ y = x + 1 /\ c = b + x
        BY <3>2, <3>10
      <4>. HIDE DEF x, y, c
      <4>2. b + y = c + 1
        BY <4>1
      <4>. QED BY <4>2 DEF y
    <3>. HIDE DEF c
    <3>12. c < Len(blob) /\ blob[c + 1] = Header(type, n)
      BY <2>2, <3>2, <3>9 DEF Holds
    <3>15. matched[c + 1][ptr + n] = "yes"
      <4>1. c + 1 \in Nat /\ Suffix(blob, c + 1, scan[ptr + n][0])
        BY <2>2, <3>7, <3>11 DEF rest
      <4>. QED BY <2>4, <3>1, <4>1
    <3>13. CASE type = SELF
      <4>1. Bytes(data, ptr + n - AddressLength, AddressLength) = self
        BY <2>10, <3>13 DEF PrintsRole, SELF, FROM_LIST
      <4>2. Leads(matched, c, ptr, c + 1, ptr + n)
        <5>1. /\ c \in Nat /\ c < Len(blob) /\ ptr <= Len(data) /\ n \in 1..MaxSpan
              /\ blob[c + 1] = Header(SELF, n) /\ ptr + n <= Len(data)
          BY <2>2, <3>1, <3>12, <3>13
        <5>. QED BY <2>6, <4>1, <5>1, FoundSelf, Zenon
      <4>. QED BY <2>3, <3>9, <3>15, <4>2 DEF Leads
    <3>14. CASE type = FROM_LIST
      <4>1. Bytes(data, ptr + n - AddressLength, AddressLength) \in members
        BY <2>10, <3>14 DEF PrintsRole, SELF, FROM_LIST
      <4>2. Leads(matched, c, ptr, c + 1, ptr + n)
        <5>1. /\ c \in Nat /\ c < Len(blob) /\ ptr <= Len(data) /\ n \in 1..MaxSpan
              /\ blob[c + 1] = Header(FROM_LIST, n) /\ ptr + n <= Len(data)
          BY <2>2, <3>1, <3>12, <3>14
        <5>. QED BY <2>6, <4>1, <5>1, FoundMember, Zenon
      <4>. QED BY <2>3, <3>9, <3>15, <4>2 DEF Leads
    <3>. QED BY <3>13, <3>14
  <2>11. CASE ptr < Len(data)
    BY <2>8, <2>9, <2>10, <2>11, ScanCases
  <2>. QED BY <2>7, <2>11
<1>2. at \in S
  <2>1. S \in SUBSET Nat /\ Len(data) \in Nat /\ at \in Nat
    OBVIOUS
  <2>. HIDE DEF S
  <2>. QED BY <1>1, <2>1, BackwardInduction
<1>3. Allowed(at, 0) /\ at - 0 = at
  BY <1>2
<1>. QED BY <1>3 DEF RestMatches

\* What is printed for a call of a pool allows it to that pool, whatever else is
\* on the list.
LEMMA PrintedAllows ==
  ASSUME NEW data \in Seq(Nat), Len(data) >= SelectorLength,
         NEW self, NEW members, NEW listed, listed \subseteq members
  PROVE  Match(Generate(data, self, listed, Patterns), data, self, members) = "yes"
<1> DEFINE head == <<Header(EXACT, SelectorLength)>>
           bytes == Bytes(data, 0, SelectorLength)
           rest == ScanLoop(data, self, listed, Patterns)[SelectorLength][0]
           blob == head \o bytes \o rest
           matched == MatchLoop(blob, data, self, members)
           n == SelectorLength
<1>1. /\ n \in Nat \ {0} /\ n \in 1..MaxSpan /\ n <= Len(data) /\ Len(data) \in Nat /\ 0 + n = n
      /\ EXACT \in Nat /\ n \in 0..Len(data)
  BY DirectivesAssumption DEF EXACT
<1>2. head \in Seq(Nat) /\ Len(head) = 1 /\ head[1] = Header(EXACT, n)
  BY <1>1, HeaderType
<1>3. bytes \in Seq(Nat) /\ Len(bytes) = n
  BY <1>1, BytesFacts
<1>4. rest \in Seq(Nat)
  BY <1>1, ScanType
<1>5. Generate(data, self, listed, Patterns) = blob
  BY DEF Generate
<1>. HIDE DEF head, bytes, rest
<1>6. head \o bytes \in Seq(Nat) /\ blob \in Seq(Nat)
  BY <1>2, <1>3, <1>4
<1>7. Suffix(blob, 0, blob)
  <2>. HIDE DEF blob
  <2>. QED BY <1>6 DEF Suffix, Holds
<1>8. Holds(blob, 0, head \o bytes) /\ Suffix(blob, 0 + Len(head \o bytes), rest)
  BY <1>4, <1>6, <1>7, HoldsParts
<1>. HIDE DEF blob
<1>9. Holds(blob, 0, head) /\ Holds(blob, 0 + Len(head), bytes)
  BY <1>2, <1>3, <1>6, <1>8, HoldsParts
<1>10. Len(head \o bytes) = Len(head) + Len(bytes)
  BY <1>2, <1>3, ConcatLength, Zenon
<1>11. 0 + Len(head \o bytes) = 1 + n /\ 0 + Len(head) = 1 /\ 0 + 1 = 1
  BY <1>1, <1>2, <1>3, <1>10
<1>12. 0 < Len(blob) /\ blob[0 + 1] = Header(EXACT, n)
  BY <1>2, <1>6, <1>9 DEF Holds
<1>13. SameBytes(blob, 0 + 1, data, 0, n)
  <2>1. Holds(blob, 1, Bytes(data, 0, n))
    BY <1>9, <1>11 DEF bytes
  <2>. QED BY <1>1, <1>6, <1>11, <2>1, PrintedBytesCompare
<1>14. matched[0][0] = matched[0 + 1 + n][0 + n]
  <2>1. matched = MatchLoop(blob, data, self, members)
    OBVIOUS
  <2>. HIDE DEF matched, n
  <2>2. ASSUME NEW b \in Nat, NEW p \in Nat, p <= Len(data), b < Len(blob),
               blob[b + 1] = Header(EXACT, n), SameBytes(blob, b + 1, data, p, n)
        PROVE  Leads(matched, b, p, b + 1 + n, p + n)
    <3>1. n \in 1..MaxSpan /\ blob \in Seq(Nat)
      BY <1>1, <1>6
    <3>. QED BY <2>1, <2>2, <3>1, ComparedBytes, Zenon
  <2>3. 0 <= Len(data) /\ 0 \in Nat
    BY <1>1
  <2>. QED BY <1>12, <1>13, <2>2, <2>3, Zenon DEF Leads
<1>15. RestMatches(blob, data, self, members, 1 + n, n)
  <2>1. 1 + n \in Nat /\ Suffix(blob, 1 + n, ScanLoop(data, self, listed, Patterns)[n][0])
    BY <1>1, <1>8, <1>11 DEF rest
  <2>2. ASSUME NEW start \in Nat, NEW at \in 0..Len(data),
               Suffix(blob, start, ScanLoop(data, self, listed, Patterns)[at][0])
        PROVE  RestMatches(blob, data, self, members, start, at)
    <3>1. blob \in Seq(Nat)
      BY <1>6
    <3>. QED BY <2>2, <3>1, ScanAllows, Zenon
  <2>3. n \in 0..Len(data)
    BY <1>1
  <2>. HIDE DEF n
  <2>. QED BY <2>1, <2>2, <2>3, Zenon
<1>. QED BY <1>1, <1>5, <1>11, <1>14, <1>15 DEF Match, RestMatches

\* Guard2 says yes, says no, or panics.
LEMMA MatchType ==
  ASSUME NEW blob \in Seq(Nat), NEW payload \in Seq(Nat), NEW sender, NEW members
  PROVE  Match(blob, payload, sender, members) \in {"yes", "no", "panic"}
<1> DEFINE V == {"yes", "no", "panic"}
           matched == MatchLoop(blob, payload, sender, members)
           S == {c \in Nat : \A q \in Nat : matched[c][q] \in V}
<1>1. ASSUME NEW c \in Nat, c < Len(blob) => \A d \in Nat : d > c => d \in S
      PROVE  c \in S
  <2> SUFFICES ASSUME NEW q \in Nat PROVE matched[c][q] \in V
    OBVIOUS
  <2>1. matched[c][q] = MatchRound(matched, blob, payload, sender, members, c, q)
    BY MatchLoopRounds
  <2>. HIDE DEF matched
  <2>2. CASE c >= Len(blob)
    BY <2>1, <2>2 DEF MatchRound
  <2>3. CASE c < Len(blob)
    <3>. DEFINE span == SpanOf(blob[c + 1])
                exact == ExactBytes(blob, c + 1, payload, q, span)
    <3>1. /\ c + 1 \in Nat /\ c + 1 > c /\ c + 1 + span \in Nat /\ c + 1 + span > c
          /\ q + span \in Nat /\ q + span * WordLength \in Nat
      BY <2>3, Onward
    <3>2. c + 1 \in S /\ c + 1 + span \in S
      <4>. HIDE DEF S, span
      <4>. QED BY <1>1, <2>3, <3>1
    <3>3. /\ matched[c + 1][q + span] \in V /\ matched[c + 1 + span][q + span] \in V
          /\ matched[c + 1][q + span * WordLength] \in V
      <4>. HIDE DEF span
      <4>. QED BY <3>1, <3>2
    <3>4. exact \in V
      BY DEF ExactBytes
    <3>. HIDE DEF S
    <3>. QED BY <2>1, <2>3, <3>3, <3>4 DEF MatchRound
  <2>. QED BY <2>2, <2>3
<1>2. 0 \in S
  <2>1. S \in SUBSET Nat /\ Len(blob) \in Nat
    OBVIOUS
  <2>. HIDE DEF S
  <2>. QED BY <1>1, <2>1, BackwardInduction
<1>. QED BY <1>2 DEF Match

\* isProtocolAllowed follows the first entry that does not say no.
LEMMA FirstVerdictCounts ==
  ASSUME GuardInv, NEW a \in Addresses, NEW c \in Seq(Nat), NEW s, NEW i \in DOMAIN whitelist[a],
         Match(whitelist[a][i].directives, c, s, Members) = "yes"
  PROVE  Admits(a, i, c, s)
<1> DEFINE entries == whitelist[a]
           verdict(j) == IF entries[j].payloadLength \in {AnyLength, Len(c)}
                           THEN Match(entries[j].directives, c, s, Members) ELSE "no"
           verdicts == [j \in DOMAIN entries |-> verdict(j)]
           I == {j \in 1..Len(verdicts) : verdicts[j] # "no"}
           first == CHOOSE j \in I : \A k \in I : j <= k
<1>1. entries \in Seq(Entry) /\ c \in Seq(Nat)
  BY GuardAssumption DEF GuardInv
<1>2. Len(entries) \in Nat /\ DOMAIN entries = 1..Len(entries) /\ i \in 1..Len(entries)
  BY <1>1
<1>3. \A j \in 1..Len(entries) : entries[j] \in Entries
  BY <1>2 DEF Entries, Range
<1>4. ASSUME NEW j \in 1..Len(entries)
      PROVE  verdict(j) \in {"yes", "no", "panic"}
  <2>1. entries[j].directives \in Seq(Nat)
    BY <1>3, EntryFacts
  <2>2. Match(entries[j].directives, c, s, Members) \in {"yes", "no", "panic"}
    BY <1>1, <2>1, MatchType
  <2>. QED BY <2>2
<1>5. verdict(i) = "yes"
  <2>1. entries[i] \in Entries
    BY <1>2, <1>3
  <2>2. entries[i].payloadLength \in {AnyLength, Len(c)}
    BY <1>1, <2>1, EntryFacts, MatchedLength
  <2>. QED BY <2>2
<1>. HIDE DEF verdict
<1>6. Len(verdicts) = Len(entries) /\ \A j \in 1..Len(entries) : verdicts[j] = verdict(j)
  <2>1. verdicts = [j \in 1..Len(entries) |-> verdict(j)]
    BY <1>2
  <2>. QED BY <1>2, <1>4, <2>1
<1>7. I = {j \in 1..Len(entries) : verdict(j) # "no"} /\ i \in I
  BY <1>2, <1>5, <1>6
<1>8. first \in I /\ \A k \in I : first <= k
  <2>1. I \in SUBSET Nat /\ I # {}
    BY <1>7
  <2>. HIDE DEF I
  <2>2. \E j \in I : \A k \in I : j <= k
    BY <2>1, LeastNatural
  <2>. QED BY <2>2
<1>9. IsProtocolAllowed(a, c, s) = verdict(first)
  <2>1. SelectInSeq(verdicts, LAMBDA v : v # "no") = first
    <3>1. I # {}
      BY <1>7
    <3>. QED BY <3>1, Zenon DEF SelectInSeq, Min
  <2>2. first # 0
    <3>. HIDE DEF first
    <3>1. first \in 1..Len(entries)
      BY <1>7, <1>8, Zenon
    <3>. QED BY <1>2, <3>1
  <2>3. IsProtocolAllowed(a, c, s)
          = IF SelectInSeq(verdicts, LAMBDA v : v # "no") = 0 THEN "no"
            ELSE verdict(SelectInSeq(verdicts, LAMBDA v : v # "no"))
    BY Zenon DEF IsProtocolAllowed, verdict
  <2>. HIDE DEF first
  <2>. QED BY <2>1, <2>2, <2>3
<1>. HIDE DEF first
<1>10. first \in 1..i /\ verdict(first) \in {"yes", "panic"}
  <2>1. first \in 1..Len(entries) /\ verdict(first) # "no" /\ first <= i
    BY <1>7, <1>8, Zenon
  <2>. QED BY <1>2, <1>4, <2>1
<1>11. CASE verdict(first) = "yes"
  BY <1>9, <1>11 DEF Admits
<1>12. CASE verdict(first) = "panic"
  <2>1. first # i
    BY <1>5, <1>12
  <2>2. first \in 1..(i - 1)
    BY <1>2, <1>10, <2>1
  <2>3. /\ whitelist[a][first].payloadLength \in {AnyLength, Len(c)}
        /\ Match(whitelist[a][first].directives, c, s, Members) = "panic"
    BY <1>12 DEF verdict
  <2>4. whitelist[a][first] \in Entries
    BY <1>2, <1>3, <1>10
  <2>. DEFINE e == whitelist[a][first]
  <2>5. /\ e \in Entries /\ e.payloadLength \in {AnyLength, Len(c)}
        /\ Match(e.directives, c, s, Members) = "panic"
    BY <2>3, <2>4
  <2>6. RunsOut(e, c)
    <3>. HIDE DEF e
    <3>. QED BY <2>5, EntriesRunOut
  <2>. QED BY <2>2, <2>3, <2>6 DEF Admits
<1>. QED BY <1>10, <1>11, <1>12

\* Once listed, what is printed for a call allows it, whatever the call, the
\* patterns and the addresses (generateDirectivesFromCalldata, isProtocolAllowed).
THEOREM PrintedDirectivesAllow == Spec => []ExtractedDirectivesAllow
<1>1. GuardInv => ExtractedDirectivesAllow
  <2> SUFFICES ASSUME GuardInv, NEW a \in Addresses, NEW i \in DOMAIN whitelist[a],
                      NEW c \in Calls, NEW s \in Senders, NEW l \in SUBSET Members,
                      whitelist[a][i].directives = Extracted[c][s][l]
               PROVE  Admits(a, i, c, s)
    BY DEF ExtractedDirectivesAllow
  <2>1. l \in SUBSET Addresses
    BY DEF Members
  <2>2. Extracted[c][s][l] = Generate(c, s, l, Patterns)
    BY <2>1 DEF Extracted
  <2>3. c \in Seq(Nat) /\ Len(c) >= SelectorLength
    BY GuardAssumption, ScriptsAssumption
  <2>4. Match(whitelist[a][i].directives, c, s, Members) = "yes"
    BY <2>2, <2>3, PrintedAllows
  <2>. QED BY <2>3, <2>4, FirstVerdictCounts
<1>. QED BY <1>1, GuardInvariant, PTL
=============================================================================
