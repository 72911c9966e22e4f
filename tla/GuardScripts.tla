---------------------------- MODULE GuardScripts ----------------------------
(***************************************************************************)
(* The operators' scripts that read calls: what validateGuardDir.ts says   *)
(* of a directive and a call, and what extractGuardDir.ts prints for a     *)
(* call a pool once made.  Like those of Guard2 their loops are recursive  *)
(* functions.                                                              *)
(***************************************************************************)
EXTENDS Guard2

CONSTANTS
  Patterns           \* to match exactly, for extractGuardDir.ts

ASSUME ScriptsAssumption ==
  /\ \A pat \in Patterns : pat \in Seq(Nat) /\ Len(pat) \in 1..MaxSpan
  /\ \A c \in Calls : Len(c) >= SelectorLength

-----------------------------------------------------------------------------
(* validateGuardDir.ts                                                     *)

\* Mistake: what is left of the call when the directives end is accepted.
Unmatched_Ignored(data, d) == FALSE

Unmatched(data, d) == d # Len(data)

\* A round of the loop of validateDirective, at b in the directives and d in
\* the call.
ValidateRound(Rest, data, dir, sender, listed, b, d) ==
  IF b >= Len(dir) THEN IF Unmatched(data, d) THEN "no" ELSE "yes"
  ELSE
    LET type  == TypeOf(dir[b + 1])
        span  == SpanOf(dir[b + 1])
        Has(n) == d + n <= Len(data)
    IN CASE type = ANY -> "yes"
         [] type = WILDCARD_WORDS /\ Has(span * WordLength) -> Rest[b + 1][d + span * WordLength]
         [] type = WILDCARD_BYTES /\ Has(span) -> Rest[b + 1][d + span]
         [] /\ type = EXACT /\ b + 1 + span <= Len(dir) /\ Has(span)
            /\ Bytes(data, d, span) = Bytes(dir, b + 1, span) -> Rest[b + 1 + span][d + span]
         [] /\ type \in {SELF, FROM_LIST} /\ span \in AddressSpans /\ Has(span)
            /\ Bytes(data, d + span - AddressLength, AddressLength)
                 \in (IF type = SELF THEN {sender} ELSE listed) -> Rest[b + 1][d + span]
         [] OTHER -> "no"

ValidateLoop(data, dir, sender, listed) ==
  LET From[b \in Nat] == [d \in Nat |-> ValidateRound(From, data, dir, sender, listed, b, d)] IN From

\* What validateGuardDir.ts says of a call.
Validate(data, dir, sender, listed) == ValidateLoop(data, dir, sender, listed)[0][0]

-----------------------------------------------------------------------------
(* extractGuardDir.ts                                                      *)

\* Wildcards over whole words, at most MaxSpan in a header.
WildcardWords(words) ==
  LET full == words \div MaxSpan
      rest == words % MaxSpan
  IN [i \in 1..full |-> Header(WILDCARD_WORDS, MaxSpan)]
       \o (IF rest > 0 THEN <<Header(WILDCARD_WORDS, rest)>> ELSE <<>>)

\* Mistake: bytes that do not fill a word are forgotten.
FlushWildcards_WordsOnly(bytes) == WildcardWords(bytes \div WordLength)

FlushWildcards(bytes) ==
  LET leftover == bytes % WordLength
  IN WildcardWords(bytes \div WordLength)
       \o (IF leftover > 0 THEN <<Header(WILDCARD_BYTES, leftover)>> ELSE <<>>)

\* A round of the scan of generateDirectivesFromCalldata, at ptr in the call
\* with the bytes skipped before it: patterns that occur in the call are
\* matched exactly (the longest that fits), self and whitelisted addresses by
\* their role, padded or packed, the rest not at all.
ScanRound(Rest, data, self, listed, patterns, ptr, pending) ==
  LET fits   == {pat \in patterns : ptr + Len(pat) <= Len(data) /\ Bytes(data, ptr, Len(pat)) = pat}
      known  == {self} \cup listed
      padded == Bytes(data, ptr, WordLength)
      inWord == Bytes(data, ptr + WordLength - AddressLength, AddressLength)
      packed == Bytes(data, ptr, AddressLength)
      Role(address) == IF address = self THEN SELF ELSE FROM_LIST
  IN CASE ptr >= Len(data) -> FlushWildcards(pending)
       [] ptr < Len(data) /\ fits # {} ->
            LET pat == CHOOSE x \in fits : \A y \in fits : Len(y) <= Len(x)
            IN FlushWildcards(pending) \o <<Header(EXACT, Len(pat))>> \o pat \o Rest[ptr + Len(pat)][0]
       [] /\ fits = {} /\ ptr + WordLength <= Len(data)
          /\ Bytes(padded, 0, WordLength - AddressLength) = Zeros(WordLength - AddressLength)
          /\ inWord \in known ->
            FlushWildcards(pending) \o <<Header(Role(inWord), WordLength)>> \o Rest[ptr + WordLength][0]
       [] OTHER ->
            IF ptr + AddressLength <= Len(data) /\ packed \in known
              THEN FlushWildcards(pending) \o <<Header(Role(packed), AddressLength)>>
                     \o Rest[ptr + AddressLength][0]
              ELSE Rest[ptr + 1][pending + 1]

ScanLoop(data, self, listed, patterns) ==
  LET From[ptr \in Nat] ==
        [pending \in Nat |-> ScanRound(From, data, self, listed, patterns, ptr, pending)]
  IN From

\* What extractGuardDir.ts prints for a call.
Generate(data, self, listed, patterns) ==
  <<Header(EXACT, SelectorLength)>> \o Bytes(data, 0, SelectorLength)
    \o ScanLoop(data, self, listed, patterns)[SelectorLength][0]

\* The directives of each call, for the addresses the operator has listed.
Extracted ==
  [c \in Calls |-> [s \in Senders |-> [l \in SUBSET Addresses |-> Generate(c, s, l, Patterns)]]]

-----------------------------------------------------------------------------
(* Properties                                                              *)

\* The script that tells an operator whether a listed directive allows a call
\* says what Guard2 says (validateDirective, isProtocolAllowed).
ValidatorAgrees ==
  \A e \in Entries, c \in Calls, s \in Senders :
    Validate(c, e.directives, s, Members) = "yes"
      <=> /\ Match(e.directives, c, s, Members) = "yes"
          /\ e.payloadLength \in {AnyLength, Len(c)}

\* The i-th entry of an address allows a call; only one that was listed before
\* it, runs out and panics can be in the way.
Admits(a, i, call, sender) ==
  \/ IsProtocolAllowed(a, call, sender) = "yes"
  \/ \E j \in 1..(i - 1) :
       /\ RunsOut(whitelist[a][j], call)
       /\ Match(whitelist[a][j].directives, call, sender, Members) = "panic"

\* Once listed, what the script prints for a call allows that call to the pool
\* it was printed for, while the addresses it was printed for are on the list
\* (generateDirectivesFromCalldata, isProtocolAllowed).
ExtractedDirectivesAllow ==
  \A a \in Addresses : \A i \in DOMAIN whitelist[a] :
    \A c \in Calls, s \in Senders, l \in SUBSET Members :
      whitelist[a][i].directives = Extracted[c][s][l] => Admits(a, i, c, s)
=============================================================================
