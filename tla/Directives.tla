----------------------------- MODULE Directives -----------------------------
(***************************************************************************)
(* The directives that say which calls of a dapp a pool may make, as       *)
(* Guard2.sol reads them.                                                  *)
(*                                                                         *)
(* A blob is a sequence of bytes.  Each directive is a header byte, a type *)
(* and a span, and after the header of an exact match the bytes to match.  *)
(* Guard2 walks a blob in two loops, one when it is listed and one when a  *)
(* call is checked.  A loop is a recursive function of the place in the    *)
(* blob, and an operator ...Round says what one round of it makes of the   *)
(* rounds that follow.  Lengths are parameters: 32, 20 and 4 bytes in the  *)
(* code.                                                                   *)
(***************************************************************************)
EXTENDS Naturals, Sequences, SequencesExt

CONSTANTS
  WordLength,        \* of an argument of a call
  AddressLength,
  SelectorLength,
  MaxSpan,           \* what the span of a header can say
  AnyLength,         \* payloadLength of a blob that ends with ANY
  Invalid            \* InvalidInput

ASSUME DirectivesAssumption ==
  /\ {WordLength, AddressLength, SelectorLength, MaxSpan} \subseteq Nat \ {0}
  /\ SelectorLength <= MaxSpan
  /\ AddressLength < WordLength /\ WordLength <= MaxSpan

WILDCARD_WORDS == 0
ANY            == 1
SELF           == 2
FROM_LIST      == 3
EXACT          == 4
WILDCARD_BYTES == 5

Header(type, span) == type * MaxSpan + ((span - 1) % MaxSpan)
TypeOf(header)     == header \div MaxSpan
SpanOf(header)     == (header % MaxSpan) + 1

AddressSpans == {AddressLength, WordLength}
Zeros(n) == [i \in 1..n |-> 0]
Bytes(seq, from, n) == SubSeq(seq, from + 1, from + n)

-----------------------------------------------------------------------------
(* Guard2                                                                  *)

ExtractSelector(blob) ==
  IF Len(blob) > SelectorLength /\ blob[1] = Header(EXACT, SelectorLength)
    THEN Bytes(blob, 1, SelectorLength)
    ELSE Zeros(SelectorLength)

\* Mistake: skipped bytes are counted as words.
Covered_Words(type, span) ==
  IF type \in {WILDCARD_WORDS, WILDCARD_BYTES} THEN span * WordLength ELSE span

\* The bytes of a call that a directive covers.
Covered(type, span) == IF type = WILDCARD_WORDS THEN span * WordLength ELSE span

\* A round of the loop of _whitelistProtocol.  Exact bytes that are missing at
\* the end of the blob are not noticed.
LengthRound(Rest, blob, b, total) ==
  IF b >= Len(blob) THEN total
  ELSE LET type == TypeOf(blob[b + 1])
           span == SpanOf(blob[b + 1])
       IN CASE type \in {WILDCARD_WORDS, WILDCARD_BYTES} -> Rest[b + 1][total + Covered(type, span)]
            [] type = EXACT -> Rest[b + 1 + span][total + Covered(type, span)]
            [] type \in {SELF, FROM_LIST} /\ span \in AddressSpans -> Rest[b + 1][total + Covered(type, span)]
            [] type = ANY /\ b + 1 = Len(blob) -> AnyLength
            [] OTHER -> Invalid

LengthLoop(blob) ==
  LET From[b \in Nat] == [total \in Nat |-> LengthRound(From, blob, b, total)] IN From

\* The length of the calls a blob allows.
PayloadLength(blob) == LengthLoop(blob)[0][0]

\* The comparison of an exact match, byte by byte: bytes that differ end it,
\* and so does a byte that is not there, by a panic.
ExactBytes(blob, b, payload, p, span) ==
  LET there == {k \in 1..span : b + k <= Len(blob) /\ p + k <= Len(payload)}
  IN CASE \E k \in there : blob[b + k] # payload[p + k] -> "no"
       [] there # 1..span -> "panic"
       [] OTHER -> "yes"

\* A round of the loop of _matchDirective, at b in the blob and p in the call.
MatchRound(Rest, blob, payload, sender, members, b, p) ==
  IF p > Len(payload) THEN "no"
  ELSE IF b >= Len(blob) THEN IF b = Len(blob) /\ p = Len(payload) THEN "yes" ELSE "no"
  ELSE
    LET type  == TypeOf(blob[b + 1])
        span  == SpanOf(blob[b + 1])
        exact == ExactBytes(blob, b + 1, payload, p, span)
        got   == Bytes(payload, p + span - AddressLength, AddressLength)
    IN CASE type = ANY -> "yes"
         [] type = WILDCARD_WORDS -> Rest[b + 1][p + span * WordLength]
         [] type = WILDCARD_BYTES -> Rest[b + 1][p + span]
         [] type = EXACT -> IF exact = "yes" THEN Rest[b + 1 + span][p + span] ELSE exact
         [] /\ type \in {SELF, FROM_LIST} /\ span \in AddressSpans
            /\ p + span <= Len(payload)
            /\ got \in (IF type = SELF THEN {sender} ELSE members) -> Rest[b + 1][p + span]
         [] OTHER -> "no"

MatchLoop(blob, payload, sender, members) ==
  LET From[b \in Nat] == [p \in Nat |-> MatchRound(From, blob, payload, sender, members, b, p)] IN From

\* Does the blob allow sender to make this call, when members are the addresses
\* on the list?
Match(blob, payload, sender, members) == MatchLoop(blob, payload, sender, members)[0][0]

\* Where the loop is in the blob and in the call when every directive before ANY
\* was followed.
EndRound(Rest, blob, b, p) ==
  IF b >= Len(blob) THEN [blob |-> b, call |-> p]
  ELSE LET type == TypeOf(blob[b + 1])
           span == SpanOf(blob[b + 1])
       IN CASE type = ANY   -> [blob |-> b, call |-> p]
            [] type = EXACT -> Rest[b + 1 + span][p + span]
            [] OTHER        -> Rest[b + 1][p + Covered(type, span)]

EndLoop(blob) ==
  LET From[b \in Nat] == [p \in Nat |-> EndRound(From, blob, b, p)] IN From

EndOf(blob) == EndLoop(blob)[0][0]
=============================================================================
