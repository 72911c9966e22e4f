------------------------------ MODULE MCGuard2 ------------------------------
(***************************************************************************)
(* Guard2 with words of three bytes, addresses of two, selectors of one:   *)
(* one dapp and one token, two pools, calls that hold a pool's address or  *)
(* the token's, padded or packed, between bytes of no meaning.             *)
(***************************************************************************)
EXTENDS GuardEncoders

CONSTANTS typehash, inner, poolWord, tokenWord, number

Dapp  == <<2, 2>>
Token == <<2, 1>>
PoolA == <<1, 2>>
PoolB == <<1, 1>>

MCAddresses == {Dapp, Token}
MCSenders   == {PoolA, PoolB}
MCTargets   == {<<Dapp>>, <<Token>>, <<Dapp, Token>>, <<Dapp, Dapp>>}

MCMarker == <<1>>
Marker   == <<Header(EXACT, 1), 1>>
Method   == <<Header(EXACT, 1), 2>>

\* Accepted: a marker, a bare method, any call of it, one that is matched
\* exactly before anything follows, one whose exact bytes are missing.
\* Refused: a span that is no address's, ANY before the end, an unknown type,
\* no selector.
MCWritten ==
  {Marker, Method, Method \o <<Header(ANY, 1)>>,
   Method \o <<Header(EXACT, 2), 1, 1, Header(ANY, 1)>>,
   Method \o <<Header(EXACT, 2), 1>>,
   Method \o <<Header(WILDCARD_WORDS, 1), Header(FROM_LIST, 3)>>,
   Method \o <<Header(SELF, 1)>>, Method \o <<Header(ANY, 1), Header(SELF, 3)>>,
   Method \o <<Header(6, 1)>>, <<Header(WILDCARD_BYTES, 1)>>, <<Header(EXACT, 1), 0>>}
MCBatches == {<<Marker, Method>>}

\* A long run of bytes needs more than one wildcard.
MCCalls ==
  {<<2>>, <<1>>, <<2, 1, 1>>, <<2, 0, 1, 2>>, <<2, 1, 2>>, <<2, 0, 2, 1>>, <<2, 1, 1, 2, 1>>,
   <<2, 0, 1, 2, 1, 1, 1, 0, 2, 1>>,
   <<2, 0, 0, 2, 2, 1, 2>>} \cup {<<2>> \o [i \in 1..11 |-> 1]}
MCPatterns == {<<2, 2>>, <<2>>}

Input(type, dims, tag, items) ==
  [type |-> type, dims |-> dims, tag |-> tag, items |-> items]
Arg(tag) == Input("word", <<>>, tag, <<>>)

\* The last five are not supported: an array of two byte strings, one of two
\* dimensions, a tuple with bytes in it, two words with a tag and nine with one,
\* for which nothing is printed.
MCMethods ==
  {[selector |-> <<2>>, inputs |-> inputs] : inputs \in {
     <<Arg("any"), Arg("self")>>,
     <<Input("word", <<4>>, "any", <<>>), Arg("any"), Arg("list")>>,
     <<Input("bytes", <<>>, "any", <<>>), Arg("self")>>,
     <<Input("tuple", <<2>>, "any", <<Arg("any"), Arg("list")>>), Input("word", <<2, 0>>, "any", <<>>)>>,
     <<Input("tuple", <<>>, "any", <<Arg("self"), Arg("any")>>), Arg("any")>>,
     <<Input("bytes", <<2>>, "any", <<>>), Arg("self")>>,
     <<Input("word", <<2, 2>>, "any", <<>>), Arg("list")>>,
     <<Input("tuple", <<>>, "any", <<Input("bytes", <<>>, "any", <<>>), Arg("any")>>)>>,
     <<Input("word", <<2>>, "self", <<>>)>>,
     <<Input("word", <<9>>, "self", <<>>)>>}}
MCTails == {<<1, 2>>, <<0, 0, 0, 0, 1, 2>>}

Field(word) == [kind |-> "field", word |-> word, items |-> <<>>]
Array(items) == [kind |-> "array", word |-> NoWord, items |-> items]
Struct(word, items) == [kind |-> "struct", word |-> word, items |-> items]

\* The six empty arrays of the last do not fit the buffer.
MCMessages ==
  {Struct(typehash, <<>>),
   Struct(typehash, <<Field(poolWord), Field(number)>>),
   Struct(typehash, <<Field(poolWord), Field(tokenWord)>>),
   Struct(typehash, <<Array(<<>>), Field(number), Array(<<Array(<<>>), Field(tokenWord)>>)>>),
   Struct(typehash, <<Struct(inner, <<Field(tokenWord)>>), Array(<<Struct(inner, <<Field(number)>>)>>), Struct(inner, <<>>)>>),
   Struct(typehash, [i \in 1..6 |-> Array(<<>>)])}

RECURSIVE Parts(_), DepthOf(_)
Parts(v)   == {v} \cup UNION {Parts(v.items[i]) : i \in DOMAIN v.items}
DepthOf(v) == IF v.items = <<>> THEN 0 ELSE 1 + Max({DepthOf(v.items[i]) : i \in DOMAIN v.items})
MCValues   == UNION {Parts(m) : m \in MCMessages}
MCDepth    == [v \in MCValues |-> DepthOf(v)]
MCInputs     == UNION {Parts(v) : v \in UNION {Range(m.inputs) : m \in MCMethods}}
MCInputDepth == [v \in MCInputs |-> DepthOf(v)]

MCAddressIn == [w \in {typehash, inner, poolWord, tokenWord, number} |->
                  CASE w = poolWord -> PoolA [] w = tokenWord -> Token [] OTHER -> NoAddress]
=============================================================================
