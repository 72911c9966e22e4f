----------------------------- MODULE SignEncoder ----------------------------
(***************************************************************************)
(* The typed messages of a dapp and the operators' script for them: what   *)
(* encodeEIP712Singature.ts makes of a message, and what Guard2 makes of   *)
(* that (eip712Hash).                                                      *)
(*                                                                         *)
(* A message is a field with a word, a struct with the hash of its type    *)
(* and its items, or an array of items.  What is computed of a message is  *)
(* a recursive function of the messages and their parts.                   *)
(***************************************************************************)
EXTENDS Guard2

CONSTANTS
  Values,            \* messages and their parts: kind, word and items
  Depth,             \* of a value: how deep it is
  Messages           \* for the script and for the properties

ASSUME ValuesAssumption ==
  /\ Depth \in [Values -> Nat]
  /\ \A v \in Values :
       /\ v.items \in Seq(Values)
       /\ \A i \in DOMAIN v.items : Depth[v.items[i]] < Depth[v]
       /\ v.kind \in {"field", "struct", "array"}
       /\ v.kind = "field" => v.items = <<>>
  /\ \A m \in Messages : m \in Values /\ m.kind = "struct"

\* The hash the standard defines.
Canonical[v \in Values] ==
  LET items == [i \in DOMAIN v.items |-> Canonical[v.items[i]]]
  IN CASE v.kind = "field"  -> v.word
       [] v.kind = "struct" -> Hash(<<v.word>> \o items)
       [] v.kind = "array"  -> Hash(items)

\* No message has the hash 0.
ASSUME HashAssumption == \A m \in Messages : Canonical[m] # NoWord

\* buildStructOps, encodeField: the operations, and the fields in their order.
Ops[v \in Values] ==
  LET items == FlattenSeq([i \in DOMAIN v.items |-> Ops[v.items[i]]])
  IN CASE v.kind = "field"  -> <<[op |-> "FIELD", word |-> v.word]>>
       [] v.kind = "struct" -> <<[op |-> "BEGIN_STRUCT", word |-> v.word]>> \o items
                                \o <<[op |-> "END_STRUCT", word |-> NoWord]>>
       [] v.kind = "array"  -> <<[op |-> "BEGIN_ARRAY", word |-> NoWord]>> \o items
                                \o <<[op |-> "END_ARRAY", word |-> NoWord]>>

Fields[v \in Values] ==
  IF v.kind = "field" THEN <<v.word>>
  ELSE FlattenSeq([i \in DOMAIN v.items |-> Fields[v.items[i]]])

ExactFields(tags, n) == {i \in 1..n : tags[i] = "exact"}

\* Mistake: every exact field is given the first word of the dictionary.
Offset_First(tags, i) == 0

\* The place of an exact field in the dictionary, from 0.
Offset(tags, i) == Cardinality(ExactFields(tags, i - 1))

\* What main makes of the message and the fields the operator names.
Compose(fields, tags) ==
  LET exact == ExactFields(tags, Len(fields))
  IN [directives |-> [i \in DOMAIN fields |->
        CASE tags[i] = "exact" -> Header(EXACT, Offset(tags, i) + 1)
          [] tags[i] = "self"  -> Header(SELF, 1)
          [] tags[i] = "list"  -> Header(FROM_LIST, 1)
          [] tags[i] = "any"   -> Header(ANY, 1)],
      dictionary |-> [k \in 1..Cardinality(exact) |->
        fields[CHOOSE i \in exact : Cardinality(ExactFields(tags, i)) = k]]]

\* What the script prints, for every choice of fields that it takes.
Tagged   == UNION {{m} \X [DOMAIN Fields[m] -> {"any", "self", "list", "exact"}] : m \in Messages}
Composed == [t \in {x \in Tagged : Cardinality(ExactFields(x[2], Len(Fields[x[1]]))) <= MaxSpan} |->
               Compose(Fields[t[1]], t[2])]

\* Operators list the directives of one message at a time.
ListedSignBatches == {<<Composed[t]>> : t \in DOMAIN Composed}

-----------------------------------------------------------------------------
(* Properties                                                              *)

\* The slots of the buffer that a value is given while it is hashed, from the
\* place where it begins: one for itself or its type, and those of its items
\* after the hashes of the items before.
Slots[v \in Values] ==
  LET items == [i \in DOMAIN v.items |-> Slots[v.items[i]]]
      before(i) == IF v.kind = "struct" THEN i ELSE i - 1
  IN {1} \cup UNION {{before(i) + n : n \in items[i]} : i \in DOMAIN items}

\* There is a place for every word.
Fits(m) == \A n \in Slots[m] : n <= BufferLength(Ops[m])

\* A message that fits the buffer is hashed as the standard says, and a pool
\* gets its digest exactly if a single directive allows every field; one that
\* does not fit is refused by a panic (eip712Hash).
DigestIsCanonical ==
  \A m \in Messages, s \in Senders :
    LET covers(d) == \A i \in DOMAIN Fields[m] : SignMatch(d, i, Fields[m][i], s, Members)
    IN EIP712Hash(eip712Whitelist, Ops[m], s, Members)
         = IF eip712Whitelist # <<>> /\ ~Fits(m) THEN [ended |-> "panic", digest |-> NoWord]
           ELSE [ended  |-> "no",
                 digest |-> IF \E d \in Range(eip712Whitelist) : covers(d) THEN Canonical[m] ELSE NoWord]

\* A directive composed for a message and the operator's tags allows a message
\* exactly if it fits the buffer, has no more fields and they are as the tags
\* say (main of encodeEIP712Singature.ts, eip712Hash).
ComposedMeansTags ==
  \A t \in DOMAIN Composed :
    eip712Whitelist = <<Composed[t]>> =>
      \A m \in Messages, s \in Senders :
        LET word(i) == Fields[m][i]
            AsTagged(i) == /\ i \in DOMAIN t[2]
                           /\ t[2][i] = "exact" => word(i) = Fields[t[1]][i]
                           /\ t[2][i] = "self"  => AddressIn[word(i)] = s
                           /\ t[2][i] = "list"  => AddressIn[word(i)] \in Members
        IN EIP712Hash(eip712Whitelist, Ops[m], s, Members).digest # NoWord
             <=> Fits(m) /\ \A i \in DOMAIN Fields[m] : AsTagged(i)

\* What line 331 of Guard2.sol says of the buffer of words, sized for the worst
\* case: no message is refused for want of space.
BufferSuffices ==
  \A m \in Messages, s \in Senders :
    EIP712Hash(eip712Whitelist, Ops[m], s, Members).ended # "panic"
=============================================================================
