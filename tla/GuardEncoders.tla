---------------------------- MODULE GuardEncoders ---------------------------
(***************************************************************************)
(* The operators' script that reads the types of methods: what             *)
(* encodeGuardDir.ts prints for the methods of a dapp.                     *)
(*                                                                         *)
(* A method has inputs as ethers gives them: a word, bytes of any length,  *)
(* or a tuple with its components as items, and the sizes of the brackets  *)
(* that make it an array, the outermost last (0 for a dynamic one).  An    *)
(* operator tags those that must be the pool or on the list.               *)
(***************************************************************************)
EXTENDS GuardScripts, SignEncoder

CONSTANTS
  Inputs,            \* of methods, and their components: type, dims, tag and items
  InputDepth,        \* of an input: how deep its type is
  Methods,           \* selector and inputs
  Tails,             \* what follows the words of a method with dynamic inputs
  WrittenBlobs,      \* directives, written by hand
  WrittenBatches     \* several at once

ASSUME MethodsAssumption ==
  /\ InputDepth \in [Inputs -> Nat]
  /\ \A v \in Inputs :
       /\ v.items \in Seq(Inputs)
       /\ \A i \in DOMAIN v.items : InputDepth[v.items[i]] < InputDepth[v]
       /\ v.type \in {"word", "bytes", "tuple"}
       /\ v.dims \in Seq(Nat)
       /\ v.tag \in {"any", "self", "list"}
  /\ \A m \in Methods : m.selector \in [1..SelectorLength -> Nat] /\ m.inputs \in Seq(Inputs)
  /\ Tails \subseteq Seq(Nat)

-----------------------------------------------------------------------------
(* Directives of methods                                                   *)

\* The bits that are in one of two numbers, of which a is a type.
Or(a, b) ==
  LET Bit(n) == IF (a \div n) % 2 = 1 \/ (b \div n) % 2 = 1 THEN n ELSE 0
  IN Bit(1) + Bit(2) + Bit(4) + 8 * (b \div 8)

\* A span that is too long for its bits in the header reaches into the type.
SpillingHeader(type, span) ==
  Or(type, (span - 1) \div MaxSpan) * MaxSpan + ((span - 1) % MaxSpan)

\* Mistake: an address is given the bytes it has when it is packed.
Emit_Packed(words, tag) ==
  IF tag = "any" THEN WildcardWords(words)
  ELSE <<SpillingHeader(IF tag = "self" THEN SELF ELSE FROM_LIST, words * AddressLength)>>

\* The directives for the words of an input.
Emit(words, tag) ==
  IF tag = "any" THEN WildcardWords(words)
  ELSE <<SpillingHeader(IF tag = "self" THEN SELF ELSE FROM_LIST, words * WordLength)>>

\* The script looks at the last bracket only.
LastDim(v) == IF v.dims = <<>> THEN 1 ELSE Last(v.dims)

\* processInput of encodeGuardDir.ts
ProcessInput[v \in Inputs] ==
  LET components == FlattenSeq([i \in DOMAIN v.items |-> ProcessInput[v.items[i]]])
  IN IF v.type = "tuple" /\ LastDim(v) # 0
       THEN FlattenSeq([n \in 1..LastDim(v) |-> components])
       ELSE Emit(IF LastDim(v) = 0 THEN 1 ELSE LastDim(v), v.tag)

\* Whether it sets hasDynamic for an input, or for a component it comes to.
HasDynamic[v \in Inputs] ==
  \/ LastDim(v) = 0
  \/ v.type = "bytes" /\ v.dims = <<>>
  \/ v.type = "tuple" /\ \E i \in DOMAIN v.items : HasDynamic[v.items[i]]

\* A round of the last pass, at b in the directives with the words skipped before
\* it: neighbouring wildcards are joined.  It takes six bits of a header for the
\* span, the lowest of which belongs to the type.
CompressRound(Rest, directives, b, words) ==
  IF b >= Len(directives) THEN WildcardWords(words)
  ELSE
    LET header == directives[b + 1]
        lengthField == (header % (2 * MaxSpan)) + 1
    IN CASE TypeOf(header) = WILDCARD_WORDS -> Rest[b + 1][words + lengthField]
         [] TypeOf(header) = EXACT ->
              WildcardWords(words) \o Bytes(directives, b, 1 + lengthField) \o Rest[b + 1 + lengthField][0]
         [] OTHER -> WildcardWords(words) \o <<header>> \o Rest[b + 1][0]

CompressLoop(directives) ==
  LET From[b \in Nat] == [words \in Nat |-> CompressRound(From, directives, b, words)] IN From

\* What main of encodeGuardDir.ts has before the last pass, and what it prints.
Directives(selector, inputs) ==
  <<Header(EXACT, SelectorLength)>> \o selector
    \o FlattenSeq([i \in DOMAIN inputs |-> ProcessInput[inputs[i]]])
    \o (IF \E i \in DOMAIN inputs : HasDynamic[inputs[i]] THEN <<Header(ANY, 1)>> ELSE <<>>)

Encode(selector, inputs) == CompressLoop(Directives(selector, inputs))[0][0]

-----------------------------------------------------------------------------
(* What the scripts print                                                  *)

\* The directives of each method.
Encoded == [m \in Methods |-> Encode(m.selector, m.inputs)]

\* The script fails when a header is no byte.
Printed == {blob \in {Encoded[m] : m \in Methods} : \A i \in DOMAIN blob : blob[i] < 8 * MaxSpan}

\* What operators list: the directives of one call or method at a time, and some
\* written by hand.
ListedBatches ==
  {<<b>> : b \in WrittenBlobs \cup Printed
              \cup {Extracted[c][s][l] : c \in Calls, s \in Senders, l \in SUBSET Addresses}}
    \cup WrittenBatches

-----------------------------------------------------------------------------
(* Calls of a method, by the contract ABI                                  *)

\* The types that a call has elsewhere, and one word in their place.
IsDynamic[v \in Inputs] ==
  \/ \E k \in DOMAIN v.dims : v.dims[k] = 0
  \/ v.type = "bytes"
  \/ v.type = "tuple" /\ \E i \in DOMAIN v.items : IsDynamic[v.items[i]]

Elements(dims) ==
  LET Of[k \in 0..Len(dims)] == IF k = 0 THEN 1 ELSE Of[k - 1] * dims[k] IN Of[Len(dims)]

\* A word of each kind of input; that of a dynamic one is no address.
Word(sender, member) ==
  LET pad == Zeros(WordLength - AddressLength)
  IN [self |-> pad \o sender, list |-> pad \o member, any |-> [i \in 1..WordLength |-> 1]]

WordsOf(word) ==
  LET Of[v \in Inputs] ==
        LET components == FlattenSeq([i \in DOMAIN v.items |-> Of[v.items[i]]])
            element    == IF v.type = "tuple" THEN components ELSE word[v.tag]
        IN IF IsDynamic[v] THEN word["any"] ELSE FlattenSeq([n \in 1..Elements(v.dims) |-> element])
  IN Of

CallOf(m, sender, member, tail) ==
  m.selector \o FlattenSeq([i \in DOMAIN m.inputs |-> WordsOf(Word(sender, member))[m.inputs[i]]])
    \o (IF \E i \in DOMAIN m.inputs : IsDynamic[m.inputs[i]] THEN tail ELSE <<>>)

-----------------------------------------------------------------------------
(* Properties                                                              *)

\* The inputs whose words the script puts where they are in a call: words and
\* fixed arrays of them (of one, if they are tagged), bytes and dynamic arrays
\* without a tag, static tuples and fixed arrays of them.
Supported[v \in Inputs] ==
  IF IsDynamic[v]
    THEN v.tag = "any" /\ (LastDim(v) = 0 \/ (v.type = "bytes" /\ v.dims = <<>>))
    ELSE /\ LastDim(v) = Elements(v.dims)
         /\ IF v.type = "tuple" THEN \A i \in DOMAIN v.items : Supported[v.items[i]]
                                ELSE v.tag # "any" => LastDim(v) = 1

\* Once listed, what the script prints for a method of supported inputs allows the
\* calls of that method whose tagged words are the pool and addresses on the list
\* (encodeGuardDir.ts, isProtocolAllowed).
EncodedDirectivesAllow ==
  \A a \in Addresses : \A i \in DOMAIN whitelist[a] :
    \A m \in Methods : (\A k \in DOMAIN m.inputs : Supported[m.inputs[k]]) =>
      \A s \in Senders, l \in Members, t \in Tails :
        whitelist[a][i].directives = Encoded[m] => Admits(a, i, CallOf(m, s, l, t), s)
=============================================================================
