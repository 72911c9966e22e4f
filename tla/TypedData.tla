----------------------------- MODULE TypedData ------------------------------
(***************************************************************************)
(* The typed messages (EIP-712) a pool may sign, sent to Guard2 as a       *)
(* sequence of operations: the stack machine that computes the hash of a   *)
(* message and checks its fields (eip712Hash).                             *)
(***************************************************************************)
EXTENDS Directives, FiniteSets

CONSTANTS
  NoWord,
  AddressIn,         \* of each word: the address it holds, or NoAddress
  NoAddress

Hash(words) == [hash |-> words]

\* _validateSignDirective
ValidSignDirective(directive) ==
  /\ directive.directives # <<>>
  /\ \A i \in DOMAIN directive.directives :
       LET header == directive.directives[i]
       IN \/ TypeOf(header) = EXACT /\ SpanOf(header) <= Len(directive.dictionary)
          \/ TypeOf(header) \in {ANY, SELF, FROM_LIST} /\ SpanOf(header) = 1

\* The second _matchDirective, for one directive.
SignMatch(directive, i, word, sender, members) ==
  /\ i \in DOMAIN directive.directives
  /\ LET header == directive.directives[i]
     IN \/ TypeOf(header) = ANY
        \/ TypeOf(header) = SELF /\ AddressIn[word] = sender
        \/ TypeOf(header) = FROM_LIST /\ AddressIn[word] \in members
        \/ /\ TypeOf(header) = EXACT /\ SpanOf(header) <= Len(directive.dictionary)
           /\ word = directive.dictionary[SpanOf(header)]

\* The bytes of the operations: an opcode each, a word after some of them, and
\* the domain first.  The buffer of words is sized by them.
WithWord(ops)     == {i \in DOMAIN ops : ops[i].op \in {"BEGIN_STRUCT", "FIELD"}}
OpsLength(ops)    == 33 + Len(ops) + 32 * Cardinality(WithWord(ops))
BufferLength(ops) == (OpsLength(ops) \div 17) + 2

Ended(state, why) == [state EXCEPT !.ended = why]

\* Mistake: the words of a closed frame stay in the buffer.
Collapsed_Kept(buf, start, hash) == Append(buf, hash)

\* The hash of a frame takes the place of its words.
Collapsed(buf, start, hash) == Append(SubSeq(buf, 1, start), hash)

\* One more word in the innermost frame.
Counted(stack) == [stack EXCEPT ![Len(stack)].count = @ + 1]

Close(state, op, size) ==
  LET frame == Last(state.stack)
      outer == Front(state.stack)
      hash  == Hash(SubSeq(state.buf, frame.start + 1, frame.start + frame.count))
  IN IF \/ state.stack = <<>>
        \/ frame.array # (op = "END_ARRAY")
        \/ ~frame.array /\ frame.count = 0
        \/ frame.start + frame.count > Len(state.buf)
        \/ outer = <<>> /\ state.result # NoWord
     THEN Ended(state, "revert")
     ELSE IF outer = <<>>
     THEN [state EXCEPT !.stack = <<>>, !.result = hash, !.buf = SubSeq(@, 1, frame.start + 1)]
     ELSE IF frame.start >= size
     THEN Ended(state, "panic")
     ELSE [state EXCEPT !.stack = Counted(outer), !.buf = Collapsed(@, frame.start, hash)]

Opened(state, word, array) ==
  [state EXCEPT !.stack = Append(@, [start |-> Len(state.buf), count |-> Len(word), array |-> array]),
                !.buf = @ \o word]

\* The directives that allow a word as the n-th field.
Allowing(signDirs, n, word, sender, members) ==
  {d \in DOMAIN signDirs : SignMatch(signDirs[d], n, word, sender, members)}

Execute(state, o, size, signDirs, sender, members) ==
  CASE state.ended # "no" -> state
    [] state.ended = "no" /\ o.op \in {"END_STRUCT", "END_ARRAY"} -> Close(state, o.op, size)
    [] state.ended = "no" /\ o.op = "BEGIN_ARRAY" -> Opened(state, <<>>, TRUE)
    [] state.ended = "no" /\ o.op = "BEGIN_STRUCT" ->
         IF Len(state.buf) = size THEN Ended(state, "panic") ELSE Opened(state, <<o.word>>, FALSE)
    [] state.ended = "no" /\ o.op = "FIELD" ->
         IF state.stack = <<>> THEN Ended(state, "revert")
         ELSE IF Len(state.buf) = size THEN Ended(state, "panic")
         ELSE [state EXCEPT
                 !.matched = @ \cap Allowing(signDirs, state.fields + 1, o.word, sender, members),
                 !.fields = @ + 1,
                 !.buf = Append(@, o.word),
                 !.stack = Counted(@)]

Start(signDirs) ==
  [stack |-> <<>>, buf |-> <<>>, fields |-> 0, matched |-> DOMAIN signDirs,
   result |-> NoWord, ended |-> "no"]

\* The states of the machine, one more than there are operations.
Run(signDirs, ops, sender, members) ==
  LET After[i \in 0..Len(ops)] ==
        IF i = 0 THEN Start(signDirs)
        ELSE Execute(After[i - 1], ops[i], BufferLength(ops), signDirs, sender, members)
  IN After

\* eip712Hash: NoWord if no directive allows all fields.
EIP712Hash(signDirs, ops, sender, members) ==
  LET end == Run(signDirs, ops, sender, members)[Len(ops)]
  IN CASE signDirs = <<>> -> [ended |-> "no", digest |-> NoWord]
       [] signDirs # <<>> /\ (end.ended # "no" \/ end.stack # <<>> \/ end.result = NoWord) ->
            [ended |-> IF end.ended = "no" THEN "revert" ELSE end.ended, digest |-> NoWord]
       [] OTHER -> [ended |-> "no", digest |-> IF end.matched = {} THEN NoWord ELSE end.result]
=============================================================================
