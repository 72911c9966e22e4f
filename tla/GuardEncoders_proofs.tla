------------------------ MODULE GuardEncoders_proofs -----------------------
(***************************************************************************)
(* Guard2 hashes the typed messages as the standard does, whatever their   *)
(* depth and size, a directive composed by the script allows what its tags *)
(* say, and so do the directives that are encoded for a method.            *)
(*                                                                         *)
(* A message is a tree, and the machine of eip712Hash walks through it     *)
(* with a stack and one buffer.  What one value does to a run is a lemma   *)
(* about every state the run can be in (Reads): the hash of the value is   *)
(* appended to the buffer, or there is no place for it.  It is proved by   *)
(* induction on the depth of the value, and for each value along its items *)
(* (ReadsItems).  The recursive functions over values, and the flattening  *)
(* of what they make of the items, are given by sets and functions, since  *)
(* induction takes no operator.                                            *)
(*                                                                         *)
(* The inputs of methods are trees too.  What is emitted for one suits its *)
(* words (Suits): wherever both stand, Guard2 gets past them together.     *)
(* The last pass changes the directives but not how they are read          *)
(* (PrintsTheSame).                                                        *)
(***************************************************************************)
EXTENDS GuardEncoders, Guard2_proofs, SequenceTheorems

-----------------------------------------------------------------------------
(* Trees                                                                   *)

\* What one of the recursive functions makes of a value, given what it makes of
\* its items.
ItemsOf(f, v) == [i \in DOMAIN v.items |-> f[v.items[i]]]

Before(v, i) == IF v.kind = "struct" THEN i ELSE i - 1

Made(what, word, items, v) ==
  CASE what = "hash"   -> (CASE v.kind = "field"  -> v.word
                             [] v.kind = "struct" -> Hash(<<v.word>> \o items)
                             [] v.kind = "array"  -> Hash(items))
    [] what = "ops"    -> (CASE v.kind = "field"  -> <<[op |-> "FIELD", word |-> v.word]>>
                             [] v.kind = "struct" -> <<[op |-> "BEGIN_STRUCT", word |-> v.word]>> \o FlattenSeq(items)
                                                       \o <<[op |-> "END_STRUCT", word |-> NoWord]>>
                             [] v.kind = "array"  -> <<[op |-> "BEGIN_ARRAY", word |-> NoWord]>> \o FlattenSeq(items)
                                                       \o <<[op |-> "END_ARRAY", word |-> NoWord]>>)
    [] what = "fields" -> (IF v.kind = "field" THEN <<v.word>> ELSE FlattenSeq(items))
    [] what = "slots"  -> ({1} \cup UNION {{Before(v, i) + n : n \in items[i]} : i \in DOMAIN items})
    [] what = "directives" ->
         (IF v.type = "tuple" /\ LastDim(v) # 0
            THEN FlattenSeq([n \in 1..LastDim(v) |-> FlattenSeq(items)])
            ELSE Emit(IF LastDim(v) = 0 THEN 1 ELSE LastDim(v), v.tag))
    [] what = "words" ->
         (IF IsDynamic[v] THEN word["any"]
          ELSE FlattenSeq([n \in 1..Elements(v.dims) |->
                 IF v.type = "tuple" THEN FlattenSeq(items) ELSE word[v.tag]]))
    [] what = "hasDynamic" ->
         \/ LastDim(v) = 0
         \/ v.type = "bytes" /\ v.dims = <<>>
         \/ v.type = "tuple" /\ \E i \in DOMAIN v.items : items[i]
    [] what = "isDynamic" ->
         \/ \E k \in DOMAIN v.dims : v.dims[k] = 0
         \/ v.type = "bytes"
         \/ v.type = "tuple" /\ \E i \in DOMAIN v.items : items[i]
    [] what = "supported" ->
         (IF IsDynamic[v]
            THEN v.tag = "any" /\ (LastDim(v) = 0 \/ (v.type = "bytes" /\ v.dims = <<>>))
            ELSE /\ LastDim(v) = Elements(v.dims)
                 /\ IF v.type = "tuple" THEN \A i \in DOMAIN v.items : items[i]
                                        ELSE v.tag # "any" => LastDim(v) = 1)

\* Values whose items are not as deep.
Tree(V, D) ==
  /\ D \in [V -> Nat]
  /\ \A v \in V : v.items \in Seq(V) /\ \A i \in DOMAIN v.items : D[v.items[i]] < D[v]

\* What values have whose items all have it, all values have.
LEMMA TreeInduction ==
  ASSUME NEW V, NEW D, Tree(V, D), NEW S,
         \A v \in V : (\A i \in DOMAIN v.items : v.items[i] \in S) => v \in S
  PROVE  \A v \in V : v \in S
<1>1. SUFFICES ASSUME NEW w \in V, w \notin S PROVE FALSE
  OBVIOUS
<1>. DEFINE Depths == {n \in Nat : \E v \in V : v \notin S /\ D[v] = n}
<1>2. Depths # {}
  BY <1>1 DEF Tree
<1>3. PICK n \in Depths : \A k \in Depths : n <= k
  <2>1. Depths \in SUBSET Nat
    OBVIOUS
  <2>. HIDE DEF Depths
  <2>. QED BY <1>2, <2>1, LeastNatural
<1>4. PICK v \in V : v \notin S /\ D[v] = n
  BY <1>3
<1>5. ASSUME NEW i \in DOMAIN v.items
      PROVE  v.items[i] \in S
  <2>1. v.items[i] \in V /\ D[v.items[i]] < n
    BY <1>4 DEF Tree
  <2>2. D[v.items[i]] \in Nat
    BY <2>1 DEF Tree
  <2>. QED BY <1>3, <2>1, <2>2
<1>. QED BY <1>4, <1>5

\* A recursive function over such values exists.
LEMMA TreeRecursion ==
  ASSUME NEW V, NEW D, Tree(V, D), NEW what, NEW word
  PROVE  \E f : f = [v \in V |-> Made(what, word, ItemsOf(f, v), v)]
<1> DEFINE Solves(f, n) == \A v \in V : D[v] < n => f[v] = Made(what, word, ItemsOf(f, v), v)
           Solved == {n \in Nat : \E f : Solves(f, n)}
<1>1. ASSUME NEW f, NEW g, NEW v \in V, \A u \in V : D[u] < D[v] => f[u] = g[u]
      PROVE  ItemsOf(f, v) = ItemsOf(g, v)
  <2>1. \A i \in DOMAIN v.items : v.items[i] \in V /\ D[v.items[i]] < D[v]
    BY DEF Tree
  <2>2. \A i \in DOMAIN v.items : f[v.items[i]] = g[v.items[i]]
    BY <1>1, <2>1
  <2>. QED BY <2>2 DEF ItemsOf
<1>2. 0 \in Solved
  <2>1. \A v \in V : ~(D[v] < 0)
    BY DEF Tree
  <2>. QED BY <2>1
<1>3. ASSUME NEW n \in Nat, n \in Solved
      PROVE  n + 1 \in Solved
  <2>1. PICK f : Solves(f, n)
    BY <1>3
  <2>. DEFINE g == [v \in V |-> IF D[v] < n THEN f[v] ELSE Made(what, word, ItemsOf(f, v), v)]
  <2>2. \A v \in V : D[v] < n => g[v] = f[v]
    OBVIOUS
  <2>3. \A v \in V : ~(D[v] < n) => g[v] = Made(what, word, ItemsOf(f, v), v)
    OBVIOUS
  <2>. HIDE DEF g
  <2>4. ASSUME NEW v \in V, D[v] < n + 1
        PROVE  g[v] = Made(what, word, ItemsOf(g, v), v)
    <3>1. \A u \in V : D[u] < D[v] => g[u] = f[u]
      BY <2>2, <2>4 DEF Tree
    <3>2. ItemsOf(g, v) = ItemsOf(f, v)
      BY <1>1, <3>1
    <3>3. CASE D[v] < n
      BY <2>1, <2>2, <3>2, <3>3
    <3>4. CASE ~(D[v] < n)
      BY <2>3, <3>2, <3>4
    <3>. QED BY <3>3, <3>4
  <2>. QED BY <2>4
<1>4. \A n \in Nat : n \in Solved
  <2>1. Solved \in SUBSET Nat /\ \A n \in Nat : n \in Solved => n + 1 \in Solved
    BY <1>3
  <2>. HIDE DEF Solved
  <2>2. ASSUME NEW N \in Nat
        PROVE  N \in Solved
    <3>1. \A n \in 0..N : n \in Solved
      BY <1>2, <2>1, SetInduction
    <3>. QED BY <3>1
  <2>. QED BY <2>2
<1>5. ASSUME NEW f, NEW g, NEW m \in Nat, NEW n \in Nat, Solves(f, m), Solves(g, n)
      PROVE  \A v \in V : D[v] < m /\ D[v] < n => f[v] = g[v]
  <2>. DEFINE S == {v \in V : D[v] < m /\ D[v] < n => f[v] = g[v]}
  <2>1. ASSUME NEW v \in V, \A i \in DOMAIN v.items : v.items[i] \in S, D[v] < m, D[v] < n
        PROVE  f[v] = g[v]
    <3>1. ASSUME NEW i \in DOMAIN v.items
          PROVE  f[v.items[i]] = g[v.items[i]]
      <4>1. v.items[i] \in V /\ D[v.items[i]] < D[v]
        BY DEF Tree
      <4>2. D[v.items[i]] \in Nat /\ D[v] \in Nat
        BY <4>1 DEF Tree
      <4>. QED BY <2>1, <4>1, <4>2
    <3>2. ItemsOf(f, v) = ItemsOf(g, v)
      BY <3>1 DEF ItemsOf
    <3>. QED BY <1>5, <2>1, <3>2
  <2>2. \A v \in V : (\A i \in DOMAIN v.items : v.items[i] \in S) => v \in S
    BY <2>1
  <2>. HIDE DEF S
  <2>3. \A v \in V : v \in S
    BY <2>2, TreeInduction
  <2>. QED BY <2>3 DEF S
<1>. DEFINE F(n) == CHOOSE f : Solves(f, n)
            h == [v \in V |-> F(D[v] + 1)[v]]
<1>6. \A n \in Nat : Solves(F(n), n)
  <2>1. \A n \in Nat : \E f : Solves(f, n)
    BY <1>4
  <2>. HIDE DEF Solves
  <2>. QED BY <2>1
<1>7. \A v \in V : h[v] = F(D[v] + 1)[v]
  OBVIOUS
<1>. HIDE DEF F
<1>8. ASSUME NEW v \in V
      PROVE  h[v] = Made(what, word, ItemsOf(h, v), v)
  <2>. DEFINE f == F(D[v] + 1)
  <2>1. D[v] \in Nat /\ D[v] + 1 \in Nat /\ D[v] < D[v] + 1
    BY DEF Tree
  <2>2. f[v] = Made(what, word, ItemsOf(f, v), v)
    BY <1>6, <2>1
  <2>3. ASSUME NEW u \in V, D[u] < D[v]
        PROVE  h[u] = f[u]
    <3>1. D[u] \in Nat /\ D[u] + 1 \in Nat /\ D[u] < D[u] + 1 /\ D[u] < D[v] + 1
      BY <2>1, <2>3 DEF Tree
    <3>2. Solves(F(D[u] + 1), D[u] + 1) /\ Solves(f, D[v] + 1)
      BY <1>6, <2>1, <3>1
    <3>. HIDE DEF Solves, f
    <3>3. F(D[u] + 1)[u] = f[u]
      BY <1>5, <2>1, <3>1, <3>2
    <3>. QED BY <1>7, <3>3
  <2>. HIDE DEF h
  <2>4. ItemsOf(h, v) = ItemsOf(f, v)
    BY <1>1, <2>3
  <2>. QED BY <1>7, <2>2, <2>4
<1>9. h = [v \in V |-> Made(what, word, ItemsOf(h, v), v)]
  BY <1>8
<1>. QED BY <1>9

\* The values of a message are such.
LEMMA ValuesMakeTree == Tree(Values, Depth)
  BY ValuesAssumption DEF Tree

\* So recursive functions over them exist.
LEMMA ValuesRecursion ==
  \A what, word : \E f : f = [v \in Values |-> Made(what, word, ItemsOf(f, v), v)]
BY ValuesMakeTree, TreeRecursion

\* The recursive functions over messages do what their definitions say: Canonical.
LEMMA CanonicalMade ==
  \A v \in Values : Canonical[v] = Made("hash", <<>>, ItemsOf(Canonical, v), v)
<1> DEFINE Solves(f) == f = [v \in Values |-> Made("hash", <<>>, ItemsOf(f, v), v)]
<1>1. \E f : Solves(f)
  BY ValuesRecursion, ZenonT(60)
<1>2. Canonical = CHOOSE f : Solves(f)
  BY ZenonT(60) DEF Canonical, Made, ItemsOf
<1>3. Solves(Canonical)
  <2>. HIDE DEF Solves
  <2>. QED BY <1>1, <1>2
<1>. QED BY <1>3

\* The same of Ops.
LEMMA OpsMade ==
  \A v \in Values : Ops[v] = Made("ops", <<>>, ItemsOf(Ops, v), v)
<1> DEFINE Solves(f) == f = [v \in Values |-> Made("ops", <<>>, ItemsOf(f, v), v)]
<1>1. \E f : Solves(f)
  BY ValuesRecursion, ZenonT(60)
<1>2. Ops = CHOOSE f : Solves(f)
  BY ZenonT(60) DEF Ops, Made, ItemsOf
<1>3. Solves(Ops)
  <2>. HIDE DEF Solves
  <2>. QED BY <1>1, <1>2
<1>. QED BY <1>3

\* The same of Fields.
LEMMA FieldsMade ==
  \A v \in Values : Fields[v] = Made("fields", <<>>, ItemsOf(Fields, v), v)
<1> DEFINE Solves(f) == f = [v \in Values |-> Made("fields", <<>>, ItemsOf(f, v), v)]
<1>1. \E f : Solves(f)
  BY ValuesRecursion, ZenonT(60)
<1>2. Fields = CHOOSE f : Solves(f)
  BY ZenonT(60) DEF Fields, Made, ItemsOf
<1>3. Solves(Fields)
  <2>. HIDE DEF Solves
  <2>. QED BY <1>1, <1>2
<1>. QED BY <1>3

\* The same of Slots.
LEMMA SlotsMade ==
  \A v \in Values : Slots[v] = Made("slots", <<>>, ItemsOf(Slots, v), v)
<1> DEFINE Solves(f) == f = [v \in Values |-> Made("slots", <<>>, ItemsOf(f, v), v)]
<1>1. \E f : Solves(f)
  BY ValuesRecursion, ZenonT(60)
<1>2. Slots = CHOOSE f : Solves(f)
  BY ZenonT(60) DEF Slots, Made, ItemsOf, Before
<1>3. Solves(Slots)
  <2>. HIDE DEF Solves
  <2>. QED BY <1>1, <1>2
<1>. QED BY <1>3

\* The sequences of a sequence, one after the other: p has what comes of the
\* first ones.
IsFlattening(S, seqs, p) ==
  /\ p \in [0..Len(seqs) -> Seq(S)]
  /\ p[0] = <<>>
  /\ \A i \in 1..Len(seqs) : p[i] = p[i - 1] \o seqs[i]

\* Every sequence of sequences has one.
LEMMA FlatteningExists ==
  ASSUME NEW S, NEW seqs \in Seq(Seq(S))
  PROVE  \E p : IsFlattening(S, seqs, p)
<1> DEFINE N == Len(seqs)
           Solves(p, n) == /\ p \in [0..N -> Seq(S)]
                           /\ p[0] = <<>>
                           /\ \A i \in 1..N : i <= n => p[i] = p[i - 1] \o seqs[i]
           Solved == {n \in Nat : \E p : Solves(p, n)}
<1>1. N \in Nat /\ \A i \in 1..N : seqs[i] \in Seq(S)
  OBVIOUS
<1>2. 0 \in Solved
  <2>1. Solves([i \in 0..N |-> <<>>], 0)
    BY <1>1
  <2>. QED BY <2>1
<1>3. ASSUME NEW n \in Nat, n \in Solved, n < N
      PROVE  n + 1 \in Solved
  <2>1. PICK p : Solves(p, n)
    BY <1>3
  <2>. DEFINE x == p[n] \o seqs[n + 1]
              q == [p EXCEPT ![n + 1] = x]
  <2>2. n + 1 \in 1..N /\ n \in 0..N /\ n + 1 \in 0..N
    BY <1>1, <1>3
  <2>3. p[n] \in Seq(S) /\ seqs[n + 1] \in Seq(S)
    BY <1>1, <2>1, <2>2
  <2>4. x \in Seq(S)
    BY <2>3
  <2>. HIDE DEF x
  <2>5. q \in [0..N -> Seq(S)] /\ q[n + 1] = x /\ \A i \in 0..N : i # n + 1 => q[i] = p[i]
    BY <2>1, <2>2, <2>4
  <2>. HIDE DEF q
  <2>6. q[0] = <<>>
    BY <1>1, <2>1, <2>5
  <2>7. ASSUME NEW i \in 1..N, i <= n + 1
        PROVE  q[i] = q[i - 1] \o seqs[i]
    <3>1. i \in 0..N /\ i - 1 \in 0..N /\ i - 1 # n + 1
      BY <1>1, <2>7
    <3>2. q[i - 1] = p[i - 1]
      BY <2>5, <3>1
    <3>3. CASE i = n + 1
      <4>1. i - 1 = n
        BY <3>3
      <4>. QED BY <2>5, <3>2, <3>3, <4>1 DEF x
    <3>4. CASE i # n + 1
      <4>1. i <= n
        BY <2>7, <3>4
      <4>2. p[i] = p[i - 1] \o seqs[i] /\ q[i] = p[i]
        BY <2>1, <2>5, <3>1, <3>4, <4>1
      <4>. QED BY <3>2, <4>2
    <3>. QED BY <3>3, <3>4
  <2>8. Solves(q, n + 1)
    BY <2>5, <2>6, <2>7
  <2>. HIDE DEF Solves
  <2>. QED BY <2>8
<1>4. N \in Solved
  <2>1. Solved \in SUBSET Nat /\ \A n \in Nat : n \in Solved /\ n < N => n + 1 \in Solved
    BY <1>3
  <2>. HIDE DEF Solved
  <2>2. \A n \in 0..N : n \in Solved
    BY <1>1, <1>2, <2>1, SetInduction
  <2>. QED BY <1>1, <2>2
<1>5. PICK p : Solves(p, N)
  BY <1>4
<1>6. \A i \in 1..N : i <= N
  BY <1>1
<1>. QED BY <1>5, <1>6 DEF IsFlattening

\* FlattenSeq gives its last element.
LEMMA FlattenSeqIs ==
  ASSUME NEW S, NEW seqs \in Seq(Seq(S)), NEW p, IsFlattening(S, seqs, p)
  PROVE  FlattenSeq(seqs) = p[Len(seqs)] /\ FlattenSeq(seqs) \in Seq(S)
<1> DEFINE N == Len(seqs)
<1>1. N \in Nat /\ \A i \in 1..N : seqs[i] \in Seq(S)
  OBVIOUS
<1>2. p[N] \in Seq(S)
  BY <1>1 DEF IsFlattening
<1>3. CASE N = 0
  <2>1. seqs = <<>> /\ p[N] = <<>>
    BY <1>3 DEF IsFlattening
  <2>. QED BY <1>2, <1>3, <2>1 DEF FlattenSeq
<1>4. CASE N # 0
  <2>. DEFINE Solves(g) == g = [i \in 1..N |-> IF i = 1 THEN seqs[i] ELSE g[i - 1] \o seqs[i]]
              flat == CHOOSE g : Solves(g)
              q == [i \in 1..N |-> p[i]]
  <2>1. FlattenSeq(seqs) = flat[N]
    BY <1>4 DEF FlattenSeq
  <2>2. ASSUME NEW i \in 1..N
        PROVE  q[i] = IF i = 1 THEN seqs[i] ELSE q[i - 1] \o seqs[i]
    <3>1. p[i] = p[i - 1] \o seqs[i]
      BY DEF IsFlattening
    <3>2. CASE i = 1
      <4>1. p[1] = <<>> \o seqs[1] /\ seqs[1] \in Seq(S)
        <5>1. p[i - 1] = <<>>
          BY <3>2 DEF IsFlattening
        <5>. QED BY <1>1, <3>1, <3>2, <5>1
      <4>. QED BY <3>2, <4>1
    <3>3. CASE i # 1
      <4>1. i - 1 \in 1..N
        BY <1>1, <3>3
      <4>. QED BY <3>1, <3>3, <4>1
    <3>. QED BY <3>2, <3>3
  <2>3. Solves(q)
    BY <2>2
  <2>4. Solves(flat)
    <3>. HIDE DEF Solves
    <3>. QED BY <2>3
  <2>. HIDE DEF flat, q
  <2>. DEFINE Same == {i \in Nat : i + 1 \in 1..N => flat[i + 1] = q[i + 1]}
  <2>5. 0 \in Same
    <3>1. 1 \in 1..N
      BY <1>1, <1>4
    <3>2. flat[1] = seqs[1] /\ q[1] = seqs[1]
      BY <2>2, <2>4, <3>1
    <3>. QED BY <3>2
  <2>6. ASSUME NEW i \in Nat, i \in Same, i < N
        PROVE  i + 1 \in Same
    <3>1. SUFFICES ASSUME (i + 1) + 1 \in 1..N PROVE flat[(i + 1) + 1] = q[(i + 1) + 1]
      OBVIOUS
    <3>2. i + 1 \in 1..N /\ (i + 1) + 1 # 1 /\ ((i + 1) + 1) - 1 = i + 1
      BY <1>1, <3>1
    <3>3. flat[(i + 1) + 1] = flat[i + 1] \o seqs[(i + 1) + 1]
      BY <2>4, <3>1, <3>2
    <3>4. q[(i + 1) + 1] = q[i + 1] \o seqs[(i + 1) + 1]
      BY <2>2, <3>1, <3>2
    <3>. QED BY <2>6, <3>2, <3>3, <3>4
  <2>7. \A i \in 0..N : i \in Same
    <3>1. Same \in SUBSET Nat
      OBVIOUS
    <3>. HIDE DEF Same
    <3>. QED BY <1>1, <2>5, <2>6, <3>1, SetInduction
  <2>8. N - 1 \in 0..N /\ (N - 1) + 1 = N /\ N \in 1..N
    BY <1>1, <1>4
  <2>9. flat[N] = q[N]
    BY <2>7, <2>8
  <2>. QED BY <1>2, <2>1, <2>8, <2>9 DEF q
<1>. QED BY <1>3, <1>4

-----------------------------------------------------------------------------
(* Types                                                                   *)

Words == {v.word : v \in Values}
Op    == [op : {"FIELD", "BEGIN_STRUCT", "END_STRUCT", "BEGIN_ARRAY", "END_ARRAY"},
          word : Words \cup {NoWord}]

\* What a value is made of.
LEMMA KindsOfValues ==
  ASSUME NEW v \in Values
  PROVE  /\ v.kind \in {"field", "struct", "array"} /\ v.word \in Words
         /\ v.items \in Seq(Values) /\ Len(v.items) \in Nat
         /\ DOMAIN v.items = 1..Len(v.items)
         /\ \A i \in DOMAIN v.items : v.items[i] \in Values
         /\ v.kind = "field" => v.items = <<>>
  BY ValuesAssumption DEF Words

\* The operations and the fields of the items of a value are sequences that can
\* be put one after the other.
LEMMA ItemsType ==
  ASSUME NEW v \in Values, NEW f, NEW T, \A i \in DOMAIN v.items : f[v.items[i]] \in T
  PROVE  ItemsOf(f, v) \in Seq(T) /\ Len(ItemsOf(f, v)) = Len(v.items)
  BY KindsOfValues DEF ItemsOf

\* What the script sends for a value are operations.
LEMMA OpsType == \A v \in Values : Ops[v] \in Seq(Op)
<1> DEFINE S == {v \in Values : Ops[v] \in Seq(Op)}
<1>1. ASSUME NEW v \in Values, \A i \in DOMAIN v.items : v.items[i] \in S
      PROVE  v \in S
  <2>. DEFINE items == ItemsOf(Ops, v)
              flat  == FlattenSeq(items)
  <2>1. items \in Seq(Seq(Op))
    BY <1>1, ItemsType
  <2>2. flat \in Seq(Op)
    <3>. HIDE DEF items
    <3>. QED BY <2>1, FlatteningExists, FlattenSeqIs
  <2>3. Ops[v] = Made("ops", <<>>, items, v)
    BY OpsMade
  <2>. HIDE DEF items
  <2>. DEFINE op(name, word) == [op |-> name, word |-> word]
  <2>4. /\ op("FIELD", v.word) \in Op /\ op("BEGIN_STRUCT", v.word) \in Op
        /\ op("END_STRUCT", NoWord) \in Op /\ op("BEGIN_ARRAY", NoWord) \in Op
        /\ op("END_ARRAY", NoWord) \in Op
    BY KindsOfValues DEF Op
  <2>5. CASE v.kind = "field"
    <3>1. Ops[v] = <<op("FIELD", v.word)>>
      BY <2>3, <2>5 DEF Made
    <3>. HIDE DEF op
    <3>2. Ops[v] \in Seq(Op)
      BY <2>4, <3>1
    <3>. QED BY <3>2
  <2>6. CASE v.kind = "struct"
    <3>1. Ops[v] = <<op("BEGIN_STRUCT", v.word)>> \o flat \o <<op("END_STRUCT", NoWord)>>
      BY <2>3, <2>6 DEF Made
    <3>. HIDE DEF op, flat
    <3>2. Ops[v] \in Seq(Op)
      BY <2>2, <2>4, <3>1
    <3>. QED BY <3>2
  <2>7. CASE v.kind = "array"
    <3>1. Ops[v] = <<op("BEGIN_ARRAY", NoWord)>> \o flat \o <<op("END_ARRAY", NoWord)>>
      BY <2>3, <2>7 DEF Made
    <3>. HIDE DEF op, flat
    <3>2. Ops[v] \in Seq(Op)
      BY <2>2, <2>4, <3>1
    <3>. QED BY <3>2
  <2>. QED BY <2>5, <2>6, <2>7, KindsOfValues
<1>2. \A v \in Values : (\A i \in DOMAIN v.items : v.items[i] \in S) => v \in S
  BY <1>1
<1>. HIDE DEF S
<1>3. \A v \in Values : v \in S
  BY <1>2, ValuesMakeTree, TreeInduction
<1>. QED BY <1>3 DEF S

\* Its fields are words.
LEMMA FieldsType == \A v \in Values : Fields[v] \in Seq(Words)
<1> DEFINE S == {v \in Values : Fields[v] \in Seq(Words)}
<1>1. ASSUME NEW v \in Values, \A i \in DOMAIN v.items : v.items[i] \in S
      PROVE  v \in S
  <2>. DEFINE items == ItemsOf(Fields, v)
              flat  == FlattenSeq(items)
  <2>1. items \in Seq(Seq(Words))
    BY <1>1, ItemsType
  <2>2. flat \in Seq(Words)
    <3>. HIDE DEF items
    <3>. QED BY <2>1, FlatteningExists, FlattenSeqIs
  <2>3. Fields[v] = IF v.kind = "field" THEN <<v.word>> ELSE flat
    BY FieldsMade DEF Made
  <2>. HIDE DEF flat
  <2>4. v.word \in Words
    BY KindsOfValues
  <2>5. Fields[v] \in Seq(Words)
    BY <2>2, <2>3, <2>4
  <2>. QED BY <2>5
<1>2. \A v \in Values : (\A i \in DOMAIN v.items : v.items[i] \in S) => v \in S
  BY <1>1
<1>. HIDE DEF S
<1>3. \A v \in Values : v \in S
  BY <1>2, ValuesMakeTree, TreeInduction
<1>. QED BY <1>3 DEF S

\* The words of the type of a value: a struct begins with one.
Lead(v) == IF v.kind = "struct" THEN 1 ELSE 0

\* The slots of a value are its own and those of its items, moved.
LEMMA SlotsOf ==
  ASSUME NEW v \in Values
  PROVE  /\ 1 \in Slots[v]
         /\ \A n : n \in Slots[v] <=>
              \/ n = 1
              \/ \E i \in DOMAIN v.items : \E k \in Slots[v.items[i]] : n = (Lead(v) + (i - 1)) + k
<1>1. Slots[v] = {1} \cup UNION {{Before(v, i) + n : n \in Slots[v.items[i]]} : i \in DOMAIN v.items}
  <2>1. Slots[v] = {1} \cup UNION {{Before(v, i) + n : n \in ItemsOf(Slots, v)[i]} : i \in DOMAIN ItemsOf(Slots, v)}
    BY SlotsMade DEF Made
  <2>2. DOMAIN ItemsOf(Slots, v) = DOMAIN v.items /\ \A i \in DOMAIN v.items : ItemsOf(Slots, v)[i] = Slots[v.items[i]]
    BY DEF ItemsOf
  <2>. QED BY <2>1, <2>2
<1>2. \A i \in DOMAIN v.items : Before(v, i) = Lead(v) + (i - 1)
  BY KindsOfValues DEF Before, Lead
<1>3. \A n : n \in Slots[v] <=>
        n = 1 \/ \E i \in DOMAIN v.items : \E k \in Slots[v.items[i]] : n = Before(v, i) + k
  BY <1>1
<1>. QED BY <1>2, <1>3

\* Slots are counted from 1.
LEMMA SlotsType == \A v \in Values : Slots[v] \subseteq Nat \ {0}
<1> DEFINE S == {v \in Values : Slots[v] \subseteq Nat \ {0}}
<1>1. ASSUME NEW v \in Values, \A i \in DOMAIN v.items : v.items[i] \in S
      PROVE  v \in S
  <2>1. ASSUME NEW n \in Slots[v]
        PROVE  n \in Nat \ {0}
    <3>1. CASE n = 1
      BY <3>1
    <3>2. CASE n # 1
      <4>1. PICK i \in DOMAIN v.items : \E k \in Slots[v.items[i]] : n = (Lead(v) + (i - 1)) + k
        BY <3>2, SlotsOf
      <4>2. PICK k \in Slots[v.items[i]] : n = (Lead(v) + (i - 1)) + k
        BY <4>1
      <4>3. k \in Nat \ {0} /\ i \in Nat \ {0}
        BY <1>1, KindsOfValues
      <4>4. Lead(v) \in {0, 1}
        BY DEF Lead
      <4>. QED BY <4>2, <4>3, <4>4
    <3>. QED BY <3>1, <3>2
  <2>. QED BY <2>1
<1>2. \A v \in Values : (\A i \in DOMAIN v.items : v.items[i] \in S) => v \in S
  BY <1>1
<1>. HIDE DEF S
<1>3. \A v \in Values : v \in S
  BY <1>2, ValuesMakeTree, TreeInduction
<1>. QED BY <1>3 DEF S

-----------------------------------------------------------------------------
(* Sequences                                                               *)

\* One more element of a sequence after another.
LEMMA PrefixGrows ==
  ASSUME NEW S, NEW b \in Seq(S), NEW w \in Seq(S), NEW j \in Nat, j < Len(w)
  PROVE  Append(b \o SubSeq(w, 1, j), w[j + 1]) = b \o SubSeq(w, 1, j + 1)
<1>1. SubSeq(w, 1, j) \in Seq(S) /\ SubSeq(w, 1, j + 1) \in Seq(S) /\ w[j + 1] \in S
  OBVIOUS
<1>2. /\ Len(SubSeq(w, 1, j)) = j /\ Len(SubSeq(w, 1, j + 1)) = j + 1
      /\ \A i \in 1..j : SubSeq(w, 1, j)[i] = w[i]
      /\ \A i \in 1..(j + 1) : SubSeq(w, 1, j + 1)[i] = w[i]
  OBVIOUS
<1>. DEFINE x == SubSeq(w, 1, j)
            y == SubSeq(w, 1, j + 1)
            l == Append(b \o x, w[j + 1])
            r == b \o y
<1>. HIDE DEF x, y
<1>3. l \in Seq(S) /\ r \in Seq(S) /\ Len(l) = Len(r) /\ Len(r) = Len(b) + j + 1
  BY <1>1, <1>2 DEF x, y
<1>4. ASSUME NEW i \in 1..Len(l)
      PROVE  l[i] = r[i]
  BY <1>1, <1>2, <1>3, <1>4 DEF x, y
<1>5. l = r
  <2>. HIDE DEF l, r
  <2>. QED BY <1>3, <1>4, SeqEqual
<1>. QED BY <1>5 DEF x, y

\* The parts of two sequences put together.
LEMMA WholePrefix ==
  ASSUME NEW S, NEW b \in Seq(S), NEW w \in Seq(S)
  PROVE  /\ SubSeq(w, 1, Len(w)) = w
         /\ SubSeq(w, 1, 0) = <<>>
         /\ SubSeq(b \o w, Len(b) + 1, Len(b) + Len(w)) = w
         /\ SubSeq(b \o w, 1, Len(b)) = b
<1>1. Len(b \o w) = Len(b) + Len(w) /\ b \o w \in Seq(S) /\ Len(b) \in Nat /\ Len(w) \in Nat
  OBVIOUS
<1>2. SubSeq(w, 1, Len(w)) = w
  OBVIOUS
<1>3. SubSeq(w, 1, 0) = <<>>
  OBVIOUS
<1>4. SubSeq(b \o w, Len(b) + 1, Len(b) + Len(w)) = w
  <2>. DEFINE l == SubSeq(b \o w, Len(b) + 1, Len(b) + Len(w))
  <2>1. l \in Seq(S) /\ Len(l) = Len(w)
    BY <1>1
  <2>2. \A i \in 1..Len(w) : l[i] = w[i]
    BY <1>1
  <2>. HIDE DEF l
  <2>3. l = w
    BY <2>1, <2>2, SeqEqual
  <2>. QED BY <2>3 DEF l
<1>5. SubSeq(b \o w, 1, Len(b)) = b
  <2>. DEFINE l == SubSeq(b \o w, 1, Len(b))
  <2>1. l \in Seq(S) /\ Len(l) = Len(b)
    BY <1>1
  <2>2. \A i \in 1..Len(b) : l[i] = b[i]
    BY <1>1
  <2>. HIDE DEF l
  <2>3. l = b
    BY <2>1, <2>2, SeqEqual
  <2>. QED BY <2>3 DEF l
<1>. QED BY <1>2, <1>3, <1>4, <1>5

\* What was appended is the last, the rest is in front of it.
LEMMA AppendedEnd ==
  ASSUME NEW S, NEW s \in Seq(S), NEW x \in S
  PROVE  /\ Last(Append(s, x)) = x /\ Front(Append(s, x)) = s
         /\ Append(s, x) # <<>> /\ Append(s, x) \in Seq(S)
<1>1. Len(Append(s, x)) = Len(s) + 1 /\ Append(s, x) \in Seq(S) /\ Len(s) \in Nat
  OBVIOUS
<1>2. Last(Append(s, x)) = x
  BY <1>1 DEF Last
<1>3. SubSeq(Append(s, x), 1, Len(s)) = s
  <2>. DEFINE l == SubSeq(Append(s, x), 1, Len(s))
  <2>1. l \in Seq(S) /\ Len(l) = Len(s) /\ \A i \in 1..Len(s) : l[i] = s[i]
    BY <1>1
  <2>. HIDE DEF l
  <2>2. l = s
    BY <2>1, SeqEqual
  <2>. QED BY <2>2 DEF l
<1>4. Front(Append(s, x)) = s
  BY <1>1, <1>3 DEF Front
<1>. QED BY <1>1, <1>2, <1>4

-----------------------------------------------------------------------------
(* Steps of the machine                                                    *)

\* What is in the buffer: words of the message, and hashes of its parts.
Cells == Words \cup {Canonical[v] : v \in Values}
Frame == [start : Nat, count : Nat, array : BOOLEAN]

\* The states of the machine.  A context c has the size of its buffer, the
\* directives, the sender and the addresses on the list.
State(c) ==
  [stack : Seq(Frame), buf : Seq(Cells), fields : Nat, matched : SUBSET DOMAIN c.dirs,
   result : Cells \cup {NoWord}, ended : {"no", "revert", "panic"}]

Live(c, s) == s \in State(c) /\ s.ended = "no" /\ Len(s.buf) <= c.size

Does(c, s, o) == Execute(s, o, c.size, c.dirs, c.sender, c.members)

\* The directives that allow some words as the fields after the first n.
Allowed(c, n, words) ==
  {d \in DOMAIN c.dirs : \A k \in DOMAIN words : SignMatch(c.dirs[d], n + k, words[k], c.sender, c.members)}

\* The words that are hashed for a struct or an array.
Whole(v) == IF v.kind = "struct" THEN <<v.word>> \o ItemsOf(Canonical, v) ELSE ItemsOf(Canonical, v)

\* From a state s, when j of these words and some fields have been read.
Inside(c, s, v, j, words) ==
  [stack   |-> Append(s.stack, [start |-> Len(s.buf), count |-> j, array |-> (v.kind = "array")]),
   buf     |-> s.buf \o SubSeq(Whole(v), 1, j),
   fields  |-> s.fields + Len(words),
   matched |-> s.matched \cap Allowed(c, s.fields, words),
   result  |-> s.result,
   ended   |-> "no"]

\* When all of v has been read.
Done(c, s, v) ==
  [stack   |-> Counted(s.stack),
   buf     |-> Append(s.buf, Canonical[v]),
   fields  |-> s.fields + Len(Fields[v]),
   matched |-> s.matched \cap Allowed(c, s.fields, Fields[v]),
   result  |-> s.result,
   ended   |-> "no"]

Begin(v) == IF v.kind = "struct" THEN [op |-> "BEGIN_STRUCT", word |-> v.word]
            ELSE [op |-> "BEGIN_ARRAY", word |-> NoWord]
End(v)   == [op |-> IF v.kind = "struct" THEN "END_STRUCT" ELSE "END_ARRAY", word |-> NoWord]

\* The words that are hashed: the type of a struct and the hashes of the items.
LEMMA WholeType ==
  ASSUME NEW v \in Values, v.kind # "field"
  PROVE  /\ Whole(v) \in Seq(Cells) /\ Len(Whole(v)) = Lead(v) + Len(v.items)
         /\ v.kind = "struct" => Whole(v)[1] = v.word
         /\ \A i \in DOMAIN v.items : Whole(v)[(Lead(v) + (i - 1)) + 1] = Canonical[v.items[i]]
         /\ Canonical[v] = Hash(Whole(v)) /\ Canonical[v] \in Cells
<1>. DEFINE items == ItemsOf(Canonical, v)
<1>1. items \in Seq(Cells) /\ Len(items) = Len(v.items)
  <2>1. \A i \in DOMAIN v.items : Canonical[v.items[i]] \in Cells
    BY KindsOfValues DEF Cells
  <2>. QED BY <2>1, ItemsType
<1>2. \A i \in DOMAIN v.items : items[i] = Canonical[v.items[i]]
  BY DEF ItemsOf
<1>3. Canonical[v] = Made("hash", <<>>, items, v)
  BY CanonicalMade
<1>4. v.word \in Cells /\ Canonical[v] \in Cells
  BY KindsOfValues DEF Cells
<1>. HIDE DEF items
<1>5. CASE v.kind = "struct"
  <2>1. Whole(v) = <<v.word>> \o items /\ Lead(v) = 1
    BY <1>5 DEF Whole, Lead, items
  <2>2. Canonical[v] = Hash(Whole(v))
    BY <1>3, <1>5, <2>1 DEF Made
  <2>3. Whole(v) \in Seq(Cells) /\ Len(Whole(v)) = 1 + Len(v.items) /\ Whole(v)[1] = v.word
    BY <1>1, <1>4, <2>1
  <2>4. ASSUME NEW i \in DOMAIN v.items
        PROVE  Whole(v)[(1 + (i - 1)) + 1] = Canonical[v.items[i]]
    <3>1. i \in 1..Len(items)
      BY <1>1, KindsOfValues
    <3>2. (<<v.word>> \o items)[(1 + (i - 1)) + 1] = items[i]
      BY <1>1, <1>4, <3>1
    <3>. QED BY <1>2, <2>1, <3>2
  <2>. QED BY <1>4, <2>1, <2>2, <2>3, <2>4
<1>6. CASE v.kind = "array"
  <2>1. Whole(v) = items /\ Lead(v) = 0
    BY <1>6 DEF Whole, Lead, items
  <2>2. Canonical[v] = Hash(Whole(v))
    BY <1>3, <1>6, <2>1 DEF Made
  <2>3. ASSUME NEW i \in DOMAIN v.items
        PROVE  (0 + (i - 1)) + 1 = i
    BY KindsOfValues
  <2>. QED BY <1>1, <1>2, <1>4, <1>6, <2>1, <2>2, <2>3
<1>. QED BY <1>5, <1>6, KindsOfValues

\* A field is its own hash and one operation.
LEMMA FieldFacts ==
  ASSUME NEW v \in Values, v.kind = "field"
  PROVE  /\ Canonical[v] = v.word /\ v.word \in Cells
         /\ Ops[v] = <<[op |-> "FIELD", word |-> v.word]>>
         /\ Fields[v] = <<v.word>>
<1>1. Canonical[v] = Made("hash", <<>>, ItemsOf(Canonical, v), v)
  BY CanonicalMade
<1>2. Ops[v] = Made("ops", <<>>, ItemsOf(Ops, v), v)
  BY OpsMade
<1>3. Fields[v] = Made("fields", <<>>, ItemsOf(Fields, v), v)
  BY FieldsMade
<1>4. v.word \in Cells
  BY KindsOfValues DEF Cells
<1>5. Canonical[v] = v.word
  BY <1>1 DEF Made
<1>6. Ops[v] = <<[op |-> "FIELD", word |-> v.word]>>
  BY <1>2 DEF Made
<1>7. Fields[v] = <<v.word>>
  BY <1>3 DEF Made
<1>. QED BY <1>4, <1>5, <1>6, <1>7

\* A struct or an array is an operation, those of its items and another one.
LEMMA CompositeFacts ==
  ASSUME NEW v \in Values, v.kind # "field"
  PROVE  /\ Ops[v] = <<Begin(v)>> \o FlattenSeq(ItemsOf(Ops, v)) \o <<End(v)>>
         /\ Fields[v] = FlattenSeq(ItemsOf(Fields, v))
         /\ Begin(v) \in Op /\ End(v) \in Op
<1>1. Ops[v] = Made("ops", <<>>, ItemsOf(Ops, v), v)
  BY OpsMade
<1>2. Fields[v] = Made("fields", <<>>, ItemsOf(Fields, v), v)
  BY FieldsMade
<1>3. v.kind = "struct" \/ v.kind = "array"
  BY KindsOfValues
<1>4. Ops[v] = <<Begin(v)>> \o FlattenSeq(ItemsOf(Ops, v)) \o <<End(v)>>
  BY <1>1, <1>3 DEF Made, Begin, End
<1>5. Fields[v] = FlattenSeq(ItemsOf(Fields, v))
  BY <1>2 DEF Made
<1>6. Begin(v) \in Op
  BY KindsOfValues DEF Begin, Op
<1>7. End(v) \in Op
  BY DEF End, Op
<1>. QED BY <1>4, <1>5, <1>6, <1>7

\* What two runs of words allow together.
LEMMA AllowedParts ==
  ASSUME NEW c, NEW n \in Nat, NEW S, NEW x \in Seq(S), NEW y \in Seq(S)
  PROVE  Allowed(c, n, x \o y) = Allowed(c, n, x) \cap Allowed(c, n + Len(x), y)
<1>. DEFINE Good(d, k, w) == SignMatch(c.dirs[d], k, w, c.sender, c.members)
<1>1. /\ DOMAIN x = 1..Len(x) /\ DOMAIN y = 1..Len(y) /\ DOMAIN (x \o y) = 1..(Len(x) + Len(y))
      /\ Len(x) \in Nat /\ Len(y) \in Nat
  OBVIOUS
<1>2. /\ \A k \in DOMAIN x : k \in DOMAIN (x \o y) /\ (x \o y)[k] = x[k]
      /\ \A k \in DOMAIN y : /\ Len(x) + k \in DOMAIN (x \o y) /\ (x \o y)[Len(x) + k] = y[k]
                             /\ n + (Len(x) + k) = (n + Len(x)) + k
  BY <1>1
<1>3. \A k \in DOMAIN (x \o y) : k \in DOMAIN x \/ (k - Len(x) \in DOMAIN y /\ k = Len(x) + (k - Len(x)))
  BY <1>1
<1>. HIDE DEF Good
<1>4. ASSUME NEW d
      PROVE  (\A k \in DOMAIN (x \o y) : Good(d, n + k, (x \o y)[k]))
               <=> /\ \A k \in DOMAIN x : Good(d, n + k, x[k])
                   /\ \A k \in DOMAIN y : Good(d, (n + Len(x)) + k, y[k])
  <2>1. ASSUME \A k \in DOMAIN (x \o y) : Good(d, n + k, (x \o y)[k])
        PROVE  /\ \A k \in DOMAIN x : Good(d, n + k, x[k])
               /\ \A k \in DOMAIN y : Good(d, (n + Len(x)) + k, y[k])
    <3>1. ASSUME NEW k \in DOMAIN y PROVE Good(d, (n + Len(x)) + k, y[k])
      <4>1. Good(d, n + (Len(x) + k), (x \o y)[Len(x) + k])
        BY <1>2, <2>1
      <4>2. n + (Len(x) + k) = (n + Len(x)) + k /\ (x \o y)[Len(x) + k] = y[k]
        BY <1>2
      <4>. QED BY <4>1, <4>2
    <3>2. ASSUME NEW k \in DOMAIN x PROVE Good(d, n + k, x[k])
      <4>1. Good(d, n + k, (x \o y)[k]) /\ (x \o y)[k] = x[k]
        BY <1>2, <2>1
      <4>. QED BY <4>1
    <3>. QED BY <3>1, <3>2
  <2>2. ASSUME /\ \A k \in DOMAIN x : Good(d, n + k, x[k])
               /\ \A k \in DOMAIN y : Good(d, (n + Len(x)) + k, y[k]),
               NEW k \in DOMAIN (x \o y)
        PROVE  Good(d, n + k, (x \o y)[k])
    <3>1. CASE k \in DOMAIN x
      <4>1. Good(d, n + k, x[k]) /\ (x \o y)[k] = x[k]
        BY <1>2, <2>2, <3>1
      <4>. QED BY <4>1
    <3>2. CASE k \notin DOMAIN x
      <4>. DEFINE j == k - Len(x)
      <4>1. j \in DOMAIN y /\ k = Len(x) + j
        BY <1>3, <3>2
      <4>. HIDE DEF j
      <4>2. Good(d, (n + Len(x)) + j, y[j])
        BY <2>2, <4>1
      <4>3. (x \o y)[k] = y[j] /\ n + k = (n + Len(x)) + j
        BY <1>2, <4>1
      <4>. QED BY <4>2, <4>3
    <3>. QED BY <3>1, <3>2
  <2>. QED BY <2>1, <2>2
<1>5. ASSUME NEW d
      PROVE  d \in Allowed(c, n, x \o y) <=> d \in Allowed(c, n, x) \cap Allowed(c, n + Len(x), y)
  BY <1>4 DEF Allowed, Good
<1>. QED BY <1>5

\* Counting a word keeps the stack.
LEMMA CountedType ==
  ASSUME NEW stack \in Seq(Frame), stack # <<>>
  PROVE  Counted(stack) \in Seq(Frame) /\ Counted(stack) # <<>> /\ Len(Counted(stack)) = Len(stack)
<1>. DEFINE n == Len(stack)
            top == [stack[n] EXCEPT !.count = @ + 1]
<1>1. n \in 1..n /\ stack[n] \in Frame
  OBVIOUS
<1>2. top \in Frame
  BY <1>1 DEF Frame
<1>3. Counted(stack) = [stack EXCEPT ![n] = top]
  BY DEF Counted
<1>. HIDE DEF top
<1>. QED BY <1>1, <1>2, <1>3

\* The type of what is made by EXCEPT.
LEMMA EndedIs ==
  ASSUME NEW c, NEW s \in State(c), NEW why \in {"no", "revert", "panic"}
  PROVE  Ended(s, why) \in State(c) /\ Ended(s, why).ended = why
  BY DEF Ended, State

\* The parts of a state.
LEMMA StateParts ==
  ASSUME NEW c, NEW s, Live(c, s)
  PROVE  /\ s.stack \in Seq(Frame) /\ s.buf \in Seq(Cells) /\ s.fields \in Nat
         /\ s.matched \in SUBSET DOMAIN c.dirs /\ s.result \in Cells \cup {NoWord}
         /\ s.ended = "no" /\ Len(s.buf) \in Nat /\ Len(s.buf) <= c.size
         /\ s = [stack |-> s.stack, buf |-> s.buf, fields |-> s.fields, matched |-> s.matched,
                 result |-> s.result, ended |-> "no"]
  BY DEF Live, State

\* A field.
LEMMA FieldStep ==
  ASSUME NEW c, c.size \in Nat, NEW s, Live(c, s), s.stack # <<>>,
         NEW v \in Values, v.kind = "field"
  PROVE  /\ Len(s.buf) = c.size => Does(c, s, Ops[v][1]) = Ended(s, "panic")
         /\ Len(s.buf) # c.size => Does(c, s, Ops[v][1]) = Done(c, s, v) /\ Live(c, Done(c, s, v))
<1>. DEFINE o == [op |-> "FIELD", word |-> v.word]
<1>1. Ops[v][1] = o /\ o.op = "FIELD" /\ o.word = v.word
  BY FieldFacts
<1>2. s \in State(c) /\ s.ended = "no" /\ Len(s.buf) <= c.size
  BY DEF Live
<1>. HIDE DEF o
<1>3. Does(c, s, o) =
        IF Len(s.buf) = c.size THEN Ended(s, "panic")
        ELSE [s EXCEPT
                 !.matched = @ \cap Allowing(c.dirs, s.fields + 1, o.word, c.sender, c.members),
                 !.fields = @ + 1,
                 !.buf = Append(@, o.word),
                 !.stack = Counted(@)]
  BY <1>1, <1>2 DEF Does, Execute
<1>4. Fields[v] = <<v.word>> /\ Canonical[v] = v.word /\ v.word \in Cells
  BY FieldFacts
<1>5. Allowed(c, s.fields, <<v.word>>) = Allowing(c.dirs, s.fields + 1, v.word, c.sender, c.members)
  BY DEF Allowed, Allowing
<1>6. Len(<<v.word>>) = 1
  OBVIOUS
<1>7. CASE Len(s.buf) = c.size
  BY <1>1, <1>3, <1>7
<1>8. CASE Len(s.buf) # c.size
  <2>. DEFINE t == [s EXCEPT
                 !.matched = @ \cap Allowing(c.dirs, s.fields + 1, o.word, c.sender, c.members),
                 !.fields = @ + 1,
                 !.buf = Append(@, o.word),
                 !.stack = Counted(@)]
              a == Allowing(c.dirs, s.fields + 1, v.word, c.sender, c.members)
              st == Counted(s.stack)
  <2>1. Does(c, s, o) = t
    BY <1>3, <1>8
  <2>2. st \in Seq(Frame)
    BY <1>2, CountedType DEF State
  <2>3. t = [s EXCEPT !.matched = @ \cap a, !.fields = @ + 1, !.buf = Append(@, v.word), !.stack = st]
    BY <1>1
  <2>4. Done(c, s, v) = [stack |-> st, buf |-> Append(s.buf, v.word), fields |-> s.fields + 1,
                         matched |-> s.matched \cap a, result |-> s.result, ended |-> "no"]
    BY <1>4, <1>5, <1>6 DEF Done
  <2>. HIDE DEF a, st, t
  <2>5. t = Done(c, s, v)
    <3>1. s = [stack |-> s.stack, buf |-> s.buf, fields |-> s.fields, matched |-> s.matched,
               result |-> s.result, ended |-> "no"]
      BY StateParts
    <3>2. t = [stack |-> st, buf |-> Append(s.buf, v.word), fields |-> s.fields + 1,
               matched |-> s.matched \cap a, result |-> s.result, ended |-> "no"]
      <4>. DEFINE m == s.matched \cap a
                  f == s.fields + 1
                  b == Append(s.buf, v.word)
      <4>1. t = [s EXCEPT !.matched = m, !.fields = f, !.buf = b, !.stack = st]
        BY <2>3
      <4>. HIDE DEF m, f, b
      <4>2. t = [stack |-> st, buf |-> b, fields |-> f, matched |-> m, result |-> s.result, ended |-> "no"]
        <5>1. s \in State(c) /\ s.ended = "no"
          BY <1>2
        <5>. QED BY <4>1, <5>1 DEF State
      <4>. QED BY <4>2 DEF m, f, b
    <3>. QED BY <2>4, <3>2
  <2>6. Append(s.buf, v.word) \in Seq(Cells) /\ Len(Append(s.buf, v.word)) = Len(s.buf) + 1
    BY <1>2, <1>4 DEF State
  <2>7. Len(s.buf) \in Nat /\ Len(s.buf) + 1 <= c.size
    BY <1>2, <1>8 DEF State
  <2>8. Done(c, s, v) \in State(c)
    BY <1>2, <2>2, <2>4, <2>6 DEF State
  <2>9. Live(c, Done(c, s, v))
    BY <2>4, <2>6, <2>7, <2>8 DEF Live
  <2>. QED BY <1>1, <1>8, <2>1, <2>5, <2>9
<1>. QED BY <1>7, <1>8

\* Two sequences put together.
LEMMA JoinedLength ==
  ASSUME NEW X, NEW first \in Seq(X), NEW second \in Seq(X)
  PROVE  first \o second \in Seq(X) /\ Len(first \o second) = Len(first) + Len(second)
OBVIOUS

\* Inside a value the machine goes on from a state it can be in.
LEMMA InsideType ==
  ASSUME NEW c, c.size \in Nat, NEW s, Live(c, s), NEW v \in Values, v.kind # "field",
         NEW j \in 0..Len(Whole(v)), Len(s.buf) + j <= c.size, NEW words \in Seq(Words)
  PROVE  /\ Live(c, Inside(c, s, v, j, words)) /\ Inside(c, s, v, j, words).stack # <<>>
         /\ Len(Inside(c, s, v, j, words).buf) = Len(s.buf) + j
<1>. DEFINE f == [start |-> Len(s.buf), count |-> j, array |-> (v.kind = "array")]
            w == SubSeq(Whole(v), 1, j)
<1>1. s \in State(c) /\ s.ended = "no"
  BY DEF Live
<1>2. Whole(v) \in Seq(Cells) /\ Len(Whole(v)) \in Nat
  BY WholeType
<1>3. w \in Seq(Cells) /\ Len(w) = j
  BY <1>2
<1>4. f \in Frame
  BY <1>1 DEF Frame, State
<1>. HIDE DEF f, w
<1>5. Append(s.stack, f) \in Seq(Frame) /\ Append(s.stack, f) # <<>>
  BY <1>1, <1>4 DEF State
<1>6. s.buf \o w \in Seq(Cells) /\ Len(s.buf \o w) = Len(s.buf) + j
  <2>1. s.buf \in Seq(Cells)
    BY StateParts
  <2>2. s.buf \o w \in Seq(Cells) /\ Len(s.buf \o w) = Len(s.buf) + Len(w)
    BY <1>3, <2>1, JoinedLength
  <2>. QED BY <1>3, <2>2
<1>7. Inside(c, s, v, j, words) =
        [stack |-> Append(s.stack, f), buf |-> s.buf \o w, fields |-> s.fields + Len(words),
         matched |-> s.matched \cap Allowed(c, s.fields, words), result |-> s.result, ended |-> "no"]
  BY DEF Inside, f, w
<1>8. s.fields + Len(words) \in Nat /\ s.matched \cap Allowed(c, s.fields, words) \in SUBSET DOMAIN c.dirs
  BY <1>1 DEF State
<1>9. Inside(c, s, v, j, words) \in State(c)
  BY <1>1, <1>5, <1>6, <1>7, <1>8 DEF State
<1>. QED BY <1>5, <1>6, <1>7, <1>9 DEF Live

\* The beginning of a struct or an array.
LEMMA OpenStep ==
  ASSUME NEW c, c.size \in Nat, NEW s, Live(c, s), NEW v \in Values, v.kind # "field"
  PROVE  /\ Len(s.buf) + Lead(v) > c.size => Does(c, s, Begin(v)) = Ended(s, "panic")
         /\ Len(s.buf) + Lead(v) <= c.size => Does(c, s, Begin(v)) = Inside(c, s, v, Lead(v), <<>>)
<1>1. s \in State(c) /\ s.ended = "no" /\ Len(s.buf) <= c.size /\ Len(s.buf) \in Nat
  BY DEF Live, State
<1>2. s.matched \cap Allowed(c, s.fields, <<>>) = s.matched /\ s.fields + Len(<<>>) = s.fields
  BY <1>1 DEF State, Allowed
<1>3. Whole(v) \in Seq(Cells) /\ Len(Whole(v)) \in Nat
  BY WholeType
<1>4. CASE v.kind = "struct"
  <2>1. Lead(v) = 1 /\ Begin(v) = [op |-> "BEGIN_STRUCT", word |-> v.word]
    BY <1>4 DEF Lead, Begin
  <2>2. Does(c, s, Begin(v)) = IF Len(s.buf) = c.size THEN Ended(s, "panic") ELSE Opened(s, <<v.word>>, FALSE)
    BY <1>1, <2>1 DEF Does, Execute
  <2>3. Len(Whole(v)) >= 1 /\ Whole(v)[1] = v.word
    BY <1>4, WholeType, KindsOfValues, <2>1
  <2>4. SubSeq(Whole(v), 1, 1) = <<v.word>>
    <3>. DEFINE w == Whole(v)
    <3>1. w \in Seq(Cells) /\ Len(w) >= 1 /\ w[1] = v.word
      BY <1>3, <2>3
    <3>. HIDE DEF w
    <3>. DEFINE l == SubSeq(w, 1, 1)
    <3>2. l \in Seq(Cells) /\ Len(l) = 1 /\ l[1] = v.word
      BY <3>1
    <3>. HIDE DEF l
    <3>3. l = <<v.word>>
      BY <3>2
    <3>. QED BY <3>3 DEF l, w
  <2>5. Opened(s, <<v.word>>, FALSE) =
          [s EXCEPT !.stack = Append(@, [start |-> Len(s.buf), count |-> 1, array |-> FALSE]),
                    !.buf = @ \o <<v.word>>]
    BY DEF Opened
  <2>6. Opened(s, <<v.word>>, FALSE) =
          [stack |-> Append(s.stack, [start |-> Len(s.buf), count |-> 1, array |-> FALSE]),
           buf |-> s.buf \o <<v.word>>, fields |-> s.fields, matched |-> s.matched,
           result |-> s.result, ended |-> "no"]
    BY <1>1, <2>5 DEF State
  <2>7. Inside(c, s, v, 1, <<>>) = Opened(s, <<v.word>>, FALSE)
    BY <1>2, <1>4, <2>4, <2>6 DEF Inside
  <2>8. Len(s.buf) + Lead(v) > c.size => Len(s.buf) = c.size
    BY <1>1, <2>1
  <2>9. Len(s.buf) + Lead(v) <= c.size => Len(s.buf) # c.size
    BY <1>1, <2>1
  <2>. QED BY <2>1, <2>2, <2>7, <2>8, <2>9
<1>5. CASE v.kind = "array"
  <2>1. Lead(v) = 0 /\ Begin(v) = [op |-> "BEGIN_ARRAY", word |-> NoWord]
    BY <1>5 DEF Lead, Begin
  <2>2. Does(c, s, Begin(v)) = Opened(s, <<>>, TRUE)
    BY <1>1, <2>1 DEF Does, Execute
  <2>3. SubSeq(Whole(v), 1, 0) = <<>>
    BY <1>3, WholePrefix
  <2>4. Opened(s, <<>>, TRUE) =
          [s EXCEPT !.stack = Append(@, [start |-> Len(s.buf), count |-> 0, array |-> TRUE]),
                    !.buf = @ \o <<>>]
    BY DEF Opened
  <2>5. Opened(s, <<>>, TRUE) =
          [stack |-> Append(s.stack, [start |-> Len(s.buf), count |-> 0, array |-> TRUE]),
           buf |-> s.buf \o <<>>, fields |-> s.fields, matched |-> s.matched,
           result |-> s.result, ended |-> "no"]
    BY <1>1, <2>4 DEF State
  <2>6. Inside(c, s, v, 0, <<>>) = Opened(s, <<>>, TRUE)
    BY <1>2, <1>5, <2>3, <2>5 DEF Inside
  <2>7. ~(Len(s.buf) + Lead(v) > c.size)
    BY <1>1, <2>1
  <2>. QED BY <2>1, <2>2, <2>6, <2>7
<1>. QED BY <1>4, <1>5, KindsOfValues

\* An item, of which there are i - 1 before.
LEMMA ItemStep ==
  ASSUME NEW c, c.size \in Nat, NEW s, Live(c, s), NEW v \in Values, v.kind # "field",
         NEW i \in DOMAIN v.items, NEW words \in Seq(Words)
  PROVE  Done(c, Inside(c, s, v, Lead(v) + (i - 1), words), v.items[i])
           = Inside(c, s, v, (Lead(v) + (i - 1)) + 1, words \o Fields[v.items[i]])
<1>. DEFINE j == Lead(v) + (i - 1)
            u == v.items[i]
            t == Inside(c, s, v, j, words)
            f(n) == [start |-> Len(s.buf), count |-> n, array |-> (v.kind = "array")]
            more == Fields[u]
<1>1. s \in State(c) /\ u \in Values /\ i \in 1..Len(v.items) /\ Len(v.items) \in Nat
  BY KindsOfValues DEF Live
<1>2. Lead(v) \in {0, 1}
  BY DEF Lead
<1>3. /\ Whole(v) \in Seq(Cells) /\ Len(Whole(v)) = Lead(v) + Len(v.items)
      /\ Whole(v)[j + 1] = Canonical[u]
  BY WholeType
<1>4. j \in Nat /\ j < Len(Whole(v))
  BY <1>1, <1>2, <1>3
<1>5. more \in Seq(Words)
  BY <1>1, FieldsType
<1>6. Append(s.buf \o SubSeq(Whole(v), 1, j), Canonical[u]) = s.buf \o SubSeq(Whole(v), 1, j + 1)
  <2>1. s.buf \in Seq(Cells)
    BY StateParts
  <2>2. Append(s.buf \o SubSeq(Whole(v), 1, j), Whole(v)[j + 1]) = s.buf \o SubSeq(Whole(v), 1, j + 1)
    BY <1>3, <1>4, <2>1, PrefixGrows
  <2>. QED BY <1>3, <2>2
<1>7. Counted(Append(s.stack, f(j))) = Append(s.stack, f(j + 1))
  <2>1. f(j) \in Frame /\ f(j + 1) \in Frame /\ [f(j) EXCEPT !.count = @ + 1] = f(j + 1)
    <3>1. Len(s.buf) \in Nat
      BY StateParts
    <3>2. f(j) \in Frame /\ f(j + 1) \in Frame
      BY <1>4, <3>1 DEF Frame
    <3>3. f(j).count = j
      OBVIOUS
    <3>4. [f(j) EXCEPT !.count = @ + 1] = f(j + 1)
      OBVIOUS
    <3>. QED BY <3>2, <3>4
  <2>. DEFINE x == f(j)
              y == f(j + 1)
  <2>2. s.stack \in Seq(Frame)
    BY <1>1 DEF State
  <2>3. Counted(Append(s.stack, x)) = [Append(s.stack, x) EXCEPT ![Len(s.stack) + 1] = y]
    <3>1. Len(Append(s.stack, x)) = Len(s.stack) + 1 /\ Append(s.stack, x)[Len(s.stack) + 1] = x
      BY <2>1, <2>2
    <3>2. Counted(Append(s.stack, x)) =
            [Append(s.stack, x) EXCEPT ![Len(s.stack) + 1] = [Append(s.stack, x)[Len(s.stack) + 1] EXCEPT !.count = @ + 1]]
      BY <3>1 DEF Counted
    <3>. QED BY <2>1, <3>1, <3>2
  <2>. HIDE DEF x, y
  <2>4. [Append(s.stack, x) EXCEPT ![Len(s.stack) + 1] = y] = Append(s.stack, y)
    <3>. DEFINE l == [Append(s.stack, x) EXCEPT ![Len(s.stack) + 1] = y]
                r == Append(s.stack, y)
    <3>1. x \in Frame /\ y \in Frame
      BY <2>1 DEF x, y
    <3>2. Append(s.stack, x) \in Seq(Frame) /\ Len(Append(s.stack, x)) = Len(s.stack) + 1 /\ Len(s.stack) \in Nat
      BY <2>2, <3>1
    <3>3. l \in Seq(Frame) /\ r \in Seq(Frame) /\ Len(l) = Len(s.stack) + 1 /\ Len(r) = Len(s.stack) + 1
      BY <2>2, <3>1, <3>2
    <3>4. ASSUME NEW n \in 1..Len(l)
          PROVE  l[n] = r[n]
      <4>1. n \in 1..(Len(s.stack) + 1)
        BY <3>3
      <4>2. CASE n = Len(s.stack) + 1
        BY <2>2, <3>1, <3>2, <4>2
      <4>3. CASE n # Len(s.stack) + 1
        <5>1. n \in 1..Len(s.stack)
          BY <3>2, <4>1, <4>3
        <5>2. Append(s.stack, x)[n] = s.stack[n] /\ r[n] = s.stack[n]
          BY <2>2, <3>1, <5>1
        <5>3. l[n] = Append(s.stack, x)[n]
          <6>. DEFINE a == Append(s.stack, x)
                      m == Len(s.stack) + 1
          <6>1. a \in Seq(Frame) /\ Len(a) = m /\ n \in 1..m /\ n # m
            BY <3>2, <4>1, <4>3
          <6>. HIDE DEF a, m
          <6>2. n \in DOMAIN a
            BY <6>1
          <6>3. [a EXCEPT ![m] = y][n] = a[n]
            BY <6>1, <6>2
          <6>. QED BY <6>3 DEF a, m
        <5>. QED BY <5>2, <5>3
      <4>. QED BY <4>2, <4>3
    <3>. HIDE DEF l, r
    <3>5. l = r
      BY <3>3, <3>4, SeqEqual
    <3>. QED BY <3>5 DEF l, r
  <2>. QED BY <2>3, <2>4 DEF x, y
<1>8. Allowed(c, s.fields, words \o more) = Allowed(c, s.fields, words) \cap Allowed(c, s.fields + Len(words), more)
  BY <1>1, <1>5, AllowedParts DEF State
<1>9. Len(words \o more) = Len(words) + Len(more)
  BY <1>5
<1>10. (s.fields + Len(words)) + Len(more) = s.fields + (Len(words) + Len(more))
  <2>1. s.fields \in Nat /\ Len(words) \in Nat /\ Len(more) \in Nat
    BY <1>1, <1>5 DEF State
  <2>. QED BY <2>1
<1>11. t = [stack |-> Append(s.stack, f(j)), buf |-> s.buf \o SubSeq(Whole(v), 1, j),
            fields |-> s.fields + Len(words), matched |-> s.matched \cap Allowed(c, s.fields, words),
            result |-> s.result, ended |-> "no"]
  BY DEF Inside
<1>12. Inside(c, s, v, j + 1, words \o more) =
           [stack |-> Append(s.stack, f(j + 1)), buf |-> s.buf \o SubSeq(Whole(v), 1, j + 1),
            fields |-> s.fields + Len(words \o more), matched |-> s.matched \cap Allowed(c, s.fields, words \o more),
            result |-> s.result, ended |-> "no"]
  BY DEF Inside
<1>. HIDE DEF f, t
<1>13. t.stack = Append(s.stack, f(j)) /\ t.buf = s.buf \o SubSeq(Whole(v), 1, j)
       /\ t.fields = s.fields + Len(words) /\ t.matched = s.matched \cap Allowed(c, s.fields, words)
       /\ t.result = s.result
  BY <1>11
<1>14. Done(c, t, u) = [stack |-> Counted(t.stack), buf |-> Append(t.buf, Canonical[u]),
            fields |-> t.fields + Len(more), matched |-> t.matched \cap Allowed(c, t.fields, more),
            result |-> t.result, ended |-> "no"]
  BY DEF Done
<1>. HIDE DEF more, u, j
<1>15. t.matched \cap Allowed(c, t.fields, more) = s.matched \cap Allowed(c, s.fields, words \o more)
  BY <1>8, <1>13
<1>16. Done(c, t, u) = Inside(c, s, v, j + 1, words \o more)
  BY <1>6, <1>7, <1>9, <1>10, <1>12, <1>13, <1>14, <1>15
<1>. QED BY <1>16 DEF more, u, j, t

\* The end of a value inside another one.
LEMMA CloseStep ==
  ASSUME NEW c, c.size \in Nat, NEW s, Live(c, s), s.stack # <<>>, NEW v \in Values, v.kind # "field",
         Len(s.buf) + Len(Whole(v)) <= c.size
  PROVE  LET t == Inside(c, s, v, Len(Whole(v)), Fields[v])
         IN /\ Len(s.buf) = c.size => Does(c, t, End(v)) = Ended(t, "panic")
            /\ Len(s.buf) # c.size => Does(c, t, End(v)) = Done(c, s, v) /\ Live(c, Done(c, s, v))
<1>. DEFINE n == Len(Whole(v))
            t == Inside(c, s, v, n, Fields[v])
            f == [start |-> Len(s.buf), count |-> n, array |-> (v.kind = "array")]
<1>1. /\ Whole(v) \in Seq(Cells) /\ n \in Nat /\ Canonical[v] = Hash(Whole(v)) /\ Canonical[v] \in Cells
      /\ v.kind = "struct" => n # 0
  <2>1. v.kind = "struct" => Lead(v) = 1
    BY DEF Lead
  <2>. QED BY <2>1, WholeType, KindsOfValues
<1>2. /\ s.stack \in Seq(Frame) /\ s.buf \in Seq(Cells) /\ s.fields \in Nat
      /\ s.matched \in SUBSET DOMAIN c.dirs /\ s.result \in Cells \cup {NoWord}
      /\ Len(s.buf) \in Nat /\ Len(s.buf) <= c.size
  BY StateParts
<1>3. Fields[v] \in Seq(Words)
  BY FieldsType
<1>4. f \in Frame /\ f.start = Len(s.buf) /\ f.count = n /\ f.array = (v.kind = "array")
  BY <1>1, <1>2 DEF Frame
<1>5. /\ SubSeq(Whole(v), 1, n) = Whole(v)
      /\ SubSeq(s.buf \o Whole(v), Len(s.buf) + 1, Len(s.buf) + n) = Whole(v)
      /\ SubSeq(s.buf \o Whole(v), 1, Len(s.buf)) = s.buf
      /\ Len(s.buf \o Whole(v)) = Len(s.buf) + n
  <2>1. \A b \in Seq(Cells), w \in Seq(Cells) :
          /\ SubSeq(w, 1, Len(w)) = w
          /\ SubSeq(b \o w, Len(b) + 1, Len(b) + Len(w)) = w
          /\ SubSeq(b \o w, 1, Len(b)) = b
          /\ Len(b \o w) = Len(b) + Len(w)
    BY WholePrefix
  <2>. QED BY <1>1, <1>2, <2>1, Zenon
<1>6. t = [stack |-> Append(s.stack, f), buf |-> s.buf \o Whole(v), fields |-> s.fields + Len(Fields[v]),
           matched |-> s.matched \cap Allowed(c, s.fields, Fields[v]), result |-> s.result, ended |-> "no"]
  BY <1>5 DEF Inside
<1>. DEFINE m == s.matched \cap Allowed(c, s.fields, Fields[v])
            k == s.fields + Len(Fields[v])
<1>7. Last(Append(s.stack, f)) = f /\ Front(Append(s.stack, f)) = s.stack /\ Append(s.stack, f) # <<>>
  <2>. HIDE DEF f
  <2>. QED BY <1>2, <1>4, AppendedEnd
<1>8. m \in SUBSET DOMAIN c.dirs /\ k \in Nat
  BY <1>2, <1>3
<1>9. t.stack = Append(s.stack, f) /\ t.buf = s.buf \o Whole(v) /\ t.result = s.result /\ t.ended = "no"
  BY <1>6
<1>10. End(v).op \in {"END_STRUCT", "END_ARRAY"} /\ (End(v).op = "END_ARRAY") = f.array
  BY <1>4, KindsOfValues DEF End
<1>. HIDE DEF f, t, m, k, n
<1>11. Does(c, t, End(v)) = Close(t, End(v).op, c.size)
  BY <1>9, <1>10 DEF Does, Execute
<1>12. Hash(SubSeq(t.buf, f.start + 1, f.start + f.count)) = Canonical[v]
  BY <1>1, <1>4, <1>5, <1>9
<1>13. ~(\/ t.stack = <<>>
         \/ f.array # (End(v).op = "END_ARRAY")
         \/ ~f.array /\ f.count = 0
         \/ f.start + f.count > Len(t.buf)
         \/ s.stack = <<>> /\ t.result # NoWord)
  <2>1. t.stack # <<>>
    BY <1>7, <1>9
  <2>2. f.array = (End(v).op = "END_ARRAY")
    BY <1>10
  <2>3. ~(~f.array /\ f.count = 0)
    BY <1>1, <1>4, KindsOfValues
  <2>4. ~(f.start + f.count > Len(t.buf))
    BY <1>1, <1>2, <1>4, <1>5, <1>9
  <2>. QED BY <2>1, <2>2, <2>3, <2>4
<1>14. Close(t, End(v).op, c.size) =
         IF f.start >= c.size THEN Ended(t, "panic")
         ELSE [t EXCEPT !.stack = Counted(s.stack), !.buf = Collapsed(t.buf, f.start, Canonical[v])]
  <2>1. Last(t.stack) = f /\ Front(t.stack) = s.stack
    BY <1>7, <1>9
  <2>2. Close(t, End(v).op, c.size) =
          IF s.stack = <<>>
          THEN [t EXCEPT !.stack = <<>>, !.result = Canonical[v], !.buf = SubSeq(t.buf, 1, f.start + 1)]
          ELSE IF f.start >= c.size THEN Ended(t, "panic")
          ELSE [t EXCEPT !.stack = Counted(s.stack), !.buf = Collapsed(t.buf, f.start, Canonical[v])]
    BY <1>12, <1>13, <2>1 DEF Close
  <2>. QED BY <2>2
<1>15. Collapsed(t.buf, f.start, Canonical[v]) = Append(s.buf, Canonical[v])
  BY <1>4, <1>5, <1>9 DEF Collapsed
<1>16. CASE Len(s.buf) = c.size
  <2>1. f.start >= c.size
    BY <1>2, <1>4, <1>16
  <2>. QED BY <1>11, <1>14, <1>16, <2>1 DEF t, n
<1>17. CASE Len(s.buf) # c.size
  <2>1. ~(f.start >= c.size) /\ Len(s.buf) + 1 <= c.size
    BY <1>2, <1>4, <1>17
  <2>. DEFINE st == Counted(s.stack)
              b  == Append(s.buf, Canonical[v])
  <2>2. st \in Seq(Frame) /\ b \in Seq(Cells) /\ Len(b) = Len(s.buf) + 1
    BY <1>1, <1>2, CountedType
  <2>3. Does(c, t, End(v)) = [t EXCEPT !.stack = st, !.buf = b]
    BY <1>11, <1>14, <1>15, <2>1
  <2>4. Done(c, s, v) = [stack |-> st, buf |-> b, fields |-> k, matched |-> m, result |-> s.result, ended |-> "no"]
    BY DEF Done, k, m
  <2>. HIDE DEF st, b
  <2>5. t = [stack |-> Append(s.stack, f), buf |-> s.buf \o Whole(v), fields |-> k, matched |-> m,
             result |-> s.result, ended |-> "no"]
    BY <1>6 DEF k, m
  <2>6. Does(c, t, End(v)) = Done(c, s, v)
    BY <2>3, <2>4, <2>5
  <2>7. Done(c, s, v) \in State(c)
    BY <1>2, <1>8, <2>2, <2>4 DEF State
  <2>8. Live(c, Done(c, s, v))
    BY <2>1, <2>2, <2>4, <2>7 DEF Live
  <2>. QED BY <1>17, <2>6, <2>8 DEF t, n
<1>. QED BY <1>16, <1>17 DEF t, n

\* The end of a message.
LEMMA RootStep ==
  ASSUME NEW c, c.size \in Nat, NEW s, Live(c, s), s.stack = <<>>, s.result = NoWord,
         NEW v \in Values, v.kind # "field", Len(s.buf) + Len(Whole(v)) <= c.size
  PROVE  LET t == Does(c, Inside(c, s, v, Len(Whole(v)), Fields[v]), End(v))
         IN /\ t.ended = "no" /\ t.stack = <<>> /\ t.result = Canonical[v]
            /\ t.matched = s.matched \cap Allowed(c, s.fields, Fields[v])
<1>. DEFINE n == Len(Whole(v))
            t == Inside(c, s, v, n, Fields[v])
            f == [start |-> Len(s.buf), count |-> n, array |-> (v.kind = "array")]
<1>1. /\ Whole(v) \in Seq(Cells) /\ n \in Nat /\ Canonical[v] = Hash(Whole(v))
      /\ v.kind = "struct" => n # 0
  <2>1. v.kind = "struct" => Lead(v) = 1
    BY DEF Lead
  <2>. QED BY <2>1, WholeType, KindsOfValues
<1>2. s.stack \in Seq(Frame) /\ s.buf \in Seq(Cells) /\ Len(s.buf) \in Nat
  BY StateParts
<1>3. f \in Frame /\ f.start = Len(s.buf) /\ f.count = n /\ f.array = (v.kind = "array")
  BY <1>1, <1>2 DEF Frame
<1>4. /\ SubSeq(Whole(v), 1, n) = Whole(v)
      /\ SubSeq(s.buf \o Whole(v), Len(s.buf) + 1, Len(s.buf) + n) = Whole(v)
      /\ Len(s.buf \o Whole(v)) = Len(s.buf) + n
  <2>1. \A b \in Seq(Cells), w \in Seq(Cells) :
          /\ SubSeq(w, 1, Len(w)) = w
          /\ SubSeq(b \o w, Len(b) + 1, Len(b) + Len(w)) = w
          /\ SubSeq(b \o w, 1, Len(b)) = b
          /\ Len(b \o w) = Len(b) + Len(w)
    BY WholePrefix
  <2>. QED BY <1>1, <1>2, <2>1, Zenon
<1>5. t = [stack |-> Append(s.stack, f), buf |-> s.buf \o Whole(v), fields |-> s.fields + Len(Fields[v]),
           matched |-> s.matched \cap Allowed(c, s.fields, Fields[v]), result |-> s.result, ended |-> "no"]
  BY <1>4 DEF Inside
<1>6. Last(Append(s.stack, f)) = f /\ Front(Append(s.stack, f)) = s.stack /\ Append(s.stack, f) # <<>>
  <2>. HIDE DEF f
  <2>1. \A stack \in Seq(Frame), g \in Frame :
          Last(Append(stack, g)) = g /\ Front(Append(stack, g)) = stack /\ Append(stack, g) # <<>>
    BY AppendedEnd
  <2>. QED BY <1>2, <1>3, <2>1, Zenon
<1>7. /\ t.stack = Append(s.stack, f) /\ t.buf = s.buf \o Whole(v) /\ t.result = NoWord /\ t.ended = "no"
      /\ t.matched = s.matched \cap Allowed(c, s.fields, Fields[v])
  BY <1>5
<1>8. End(v).op \in {"END_STRUCT", "END_ARRAY"} /\ (End(v).op = "END_ARRAY") = f.array
  BY <1>3, KindsOfValues DEF End
<1>9. DOMAIN t = {"stack", "buf", "fields", "matched", "result", "ended"}
  BY <1>5
<1>. HIDE DEF f, t, n
<1>10. Does(c, t, End(v)) = Close(t, End(v).op, c.size)
  BY <1>7, <1>8 DEF Does, Execute
<1>11. Hash(SubSeq(t.buf, f.start + 1, f.start + f.count)) = Canonical[v]
  BY <1>1, <1>3, <1>4, <1>7
<1>12. ~(\/ t.stack = <<>>
         \/ f.array # (End(v).op = "END_ARRAY")
         \/ ~f.array /\ f.count = 0
         \/ f.start + f.count > Len(t.buf)
         \/ s.stack = <<>> /\ t.result # NoWord)
  <2>1. t.stack # <<>> /\ t.result = NoWord
    BY <1>6, <1>7
  <2>2. f.array = (End(v).op = "END_ARRAY")
    BY <1>8
  <2>3. ~(~f.array /\ f.count = 0)
    BY <1>1, <1>3, KindsOfValues
  <2>4. ~(f.start + f.count > Len(t.buf))
    BY <1>1, <1>2, <1>3, <1>4, <1>7
  <2>. QED BY <2>1, <2>2, <2>3, <2>4
<1>13. Close(t, End(v).op, c.size) =
         [t EXCEPT !.stack = <<>>, !.result = Canonical[v], !.buf = SubSeq(t.buf, 1, f.start + 1)]
  <2>1. Last(t.stack) = f /\ Front(t.stack) = <<>>
    BY <1>6, <1>7
  <2>2. Close(t, End(v).op, c.size) =
          IF s.stack = <<>>
          THEN [t EXCEPT !.stack = <<>>, !.result = Canonical[v], !.buf = SubSeq(t.buf, 1, f.start + 1)]
          ELSE Close(t, End(v).op, c.size)
    BY <1>11, <1>12, <2>1 DEF Close
  <2>. QED BY <2>2
<1>. DEFINE b == SubSeq(t.buf, 1, f.start + 1)
            r == [t EXCEPT !.stack = <<>>, !.result = Canonical[v], !.buf = b]
<1>14. r.stack = <<>> /\ r.result = Canonical[v] /\ r.ended = t.ended /\ r.matched = t.matched
  <2>. HIDE DEF b
  <2>. QED BY <1>9
<1>15. Does(c, t, End(v)) = r
  BY <1>10, <1>13
<1>. HIDE DEF r
<1>16. t = Inside(c, s, v, Len(Whole(v)), Fields[v])
  BY DEF t, n
<1>. QED BY <1>7, <1>14, <1>15, <1>16

-----------------------------------------------------------------------------
(* Runs of the machine                                                     *)

\* From s, some operations lead to t.
IsTrace(c, s, ops, r) ==
  r[0] = s /\ \A i \in 1..Len(ops) : r[i] = Does(c, r[i - 1], ops[i])

Takes(c, s, ops, t) == \E r : IsTrace(c, s, ops, r) /\ r[Len(ops)] = t

\* One operation.
LEMMA TakesOne ==
  ASSUME NEW c, NEW s, NEW o
  PROVE  Takes(c, s, <<o>>, Does(c, s, o))
<1>. DEFINE r == [i \in 0..1 |-> IF i = 0 THEN s ELSE Does(c, s, o)]
<1>1. r[0] = s /\ r[1] = Does(c, s, o)
  OBVIOUS
<1>2. Len(<<o>>) = 1 /\ <<o>>[1] = o
  OBVIOUS
<1>. HIDE DEF r
<1>3. \A i \in 1..1 : i = 1 /\ i - 1 = 0
  OBVIOUS
<1>4. IsTrace(c, s, <<o>>, r)
  BY <1>1, <1>2, <1>3 DEF IsTrace
<1>. QED BY <1>1, <1>2, <1>4 DEF Takes

\* Some operations and then others.
LEMMA TakesBoth ==
  ASSUME NEW c, NEW s, NEW t, NEW u, NEW x \in Seq(Op), NEW y \in Seq(Op),
         Takes(c, s, x, t), Takes(c, t, y, u)
  PROVE  Takes(c, s, x \o y, u)
<1>1. PICK p : IsTrace(c, s, x, p) /\ p[Len(x)] = t
  BY DEF Takes
<1>2. PICK q : IsTrace(c, t, y, q) /\ q[Len(y)] = u
  BY DEF Takes
<1>. DEFINE m == Len(x)
            n == Len(y)
            r == [i \in 0..(m + n) |-> IF i <= m THEN p[i] ELSE q[i - m]]
<1>3. /\ m \in Nat /\ n \in Nat /\ Len(x \o y) = m + n
      /\ \A i \in 1..m : (x \o y)[i] = x[i]
      /\ \A i \in 1..(m + n) : i > m => (x \o y)[i] = y[i - m]
  OBVIOUS
<1>4. /\ \A i \in 0..m : r[i] = p[i]
      /\ \A i \in 0..(m + n) : i > m => r[i] = q[i - m]
  BY <1>3
<1>5. q[0] = p[m]
  BY <1>1, <1>2 DEF IsTrace
<1>. HIDE DEF r
<1>6. r[0] = s /\ r[m] = q[0]
  BY <1>1, <1>3, <1>4, <1>5 DEF IsTrace
<1>7. r[m + n] = u
  <2>1. CASE n = 0
    BY <1>2, <1>3, <1>6, <2>1
  <2>2. CASE n # 0
    <3>1. m + n > m /\ (m + n) - m = n /\ m + n \in 0..(m + n)
      BY <1>3, <2>2
    <3>2. r[m + n] = q[(m + n) - m]
      BY <1>4, <3>1
    <3>. QED BY <1>2, <3>1, <3>2
  <2>. QED BY <2>1, <2>2
<1>8. ASSUME NEW i \in 1..(m + n)
      PROVE  r[i] = Does(c, r[i - 1], (x \o y)[i])
  <2>1. CASE i <= m
    <3>1. i \in 1..m /\ i \in 0..m /\ i - 1 \in 0..m
      BY <1>3, <2>1
    <3>2. p[i] = Does(c, p[i - 1], x[i])
      BY <1>1, <3>1 DEF IsTrace
    <3>. QED BY <1>3, <1>4, <3>1, <3>2
  <2>2. CASE i > m
    <3>. DEFINE j == i - m
    <3>1. j \in 1..n /\ i \in 0..(m + n) /\ i - 1 \in 0..(m + n)
      BY <1>3, <2>2
    <3>2. q[j] = Does(c, q[j - 1], y[j])
      BY <1>2, <3>1 DEF IsTrace
    <3>3. r[i - 1] = q[j - 1]
      <4>1. CASE j = 1
        <5>1. i - 1 = m /\ j - 1 = 0
          BY <1>3, <4>1
        <5>. QED BY <1>6, <5>1
      <4>2. CASE j # 1
        <5>1. i - 1 > m /\ (i - 1) - m = j - 1
          BY <1>3, <3>1, <4>2
        <5>. QED BY <1>4, <3>1, <5>1
      <4>. QED BY <4>1, <4>2
    <3>4. r[i] = q[j] /\ (x \o y)[i] = y[j]
      BY <1>3, <1>4, <2>2, <3>1
    <3>. QED BY <3>2, <3>3, <3>4
  <2>. QED BY <1>3, <2>1, <2>2
<1>9. IsTrace(c, s, x \o y, r)
  BY <1>3, <1>6, <1>8 DEF IsTrace
<1>. QED BY <1>3, <1>7, <1>9 DEF Takes

\* A run that ended stays as it is.
LEMMA TakesEnded ==
  ASSUME NEW c, NEW s, s.ended # "no", NEW x \in Seq(Op)
  PROVE  Takes(c, s, x, s)
<1>. DEFINE r == [i \in 0..Len(x) |-> s]
<1>1. \A o : Does(c, s, o) = s
  BY DEF Does, Execute
<1>2. Len(x) \in Nat
  OBVIOUS
<1>3. \A i \in 0..Len(x) : r[i] = s
  OBVIOUS
<1>. HIDE DEF r
<1>4. \A i \in 1..Len(x) : i \in 0..Len(x) /\ i - 1 \in 0..Len(x)
  BY <1>2
<1>5. IsTrace(c, s, x, r)
  BY <1>1, <1>2, <1>3, <1>4 DEF IsTrace
<1>. QED BY <1>2, <1>3, <1>5 DEF Takes

\* A value that begins after the first n words of the buffer fits in it.
FitsFrom(c, v, n) == \A k \in Slots[v] : n + k <= c.size

\* The first k items of a value fit.
RoomFor(c, s, v, k) ==
  /\ Len(s.buf) + Lead(v) <= c.size
  /\ \A i \in 1..k : FitsFrom(c, v.items[i], Len(s.buf) + (Lead(v) + (i - 1)))

\* What the operations of a value do inside another one.
ReadsFrom(c, s, v) ==
  \E t : /\ Takes(c, s, Ops[v], t)
         /\ FitsFrom(c, v, Len(s.buf)) => t = Done(c, s, v) /\ Live(c, t)
         /\ ~FitsFrom(c, v, Len(s.buf)) => t.ended = "panic"

Reads(c, v) == \A s : Live(c, s) /\ s.stack # <<>> => ReadsFrom(c, s, v)

\* And what those of its first k items do.
ReadsItems(c, s, v, ops, words, k) ==
  \E t : /\ Takes(c, s, <<Begin(v)>> \o ops, t)
         /\ RoomFor(c, s, v, k) => /\ t = Inside(c, s, v, Lead(v) + k, words)
                                   /\ Len(s.buf) + (Lead(v) + k) <= c.size
         /\ ~RoomFor(c, s, v, k) => t.ended = "panic"

\* Before the first item.
LEMMA ReadsNoItem ==
  ASSUME NEW c, c.size \in Nat, NEW s, Live(c, s), NEW v \in Values, v.kind # "field"
  PROVE  ReadsItems(c, s, v, <<>>, <<>>, 0)
<1>. DEFINE t == Does(c, s, Begin(v))
<1>1. Lead(v) \in Nat /\ Len(s.buf) \in Nat
  BY StateParts DEF Lead
<1>2. <<Begin(v)>> \o <<>> = <<Begin(v)>>
  OBVIOUS
<1>3. Takes(c, s, <<Begin(v)>> \o <<>>, t)
  BY <1>2, TakesOne
<1>4. RoomFor(c, s, v, 0) <=> Len(s.buf) + Lead(v) <= c.size
  BY DEF RoomFor
<1>5. ASSUME RoomFor(c, s, v, 0)
      PROVE  t = Inside(c, s, v, Lead(v) + 0, <<>>) /\ Len(s.buf) + (Lead(v) + 0) <= c.size
  <2>1. Lead(v) + 0 = Lead(v) /\ Len(s.buf) + Lead(v) <= c.size
    BY <1>1, <1>4, <1>5
  <2>2. t = Inside(c, s, v, Lead(v), <<>>)
    BY <2>1, OpenStep
  <2>. QED BY <2>1, <2>2
<1>6. ASSUME ~RoomFor(c, s, v, 0)
      PROVE  t.ended = "panic"
  <2>1. Len(s.buf) + Lead(v) > c.size
    BY <1>1, <1>4, <1>6
  <2>2. t = Ended(s, "panic")
    BY <2>1, OpenStep
  <2>. QED BY <2>2, EndedIs DEF Live
<1>. HIDE DEF t
<1>. QED BY <1>3, <1>5, <1>6 DEF ReadsItems

\* After one more item.
LEMMA ReadsOneMore ==
  ASSUME NEW c, c.size \in Nat, NEW s, Live(c, s), NEW v \in Values, v.kind # "field",
         NEW k \in Nat, k < Len(v.items), NEW ops \in Seq(Op), NEW words \in Seq(Words),
         Reads(c, v.items[k + 1]), ReadsItems(c, s, v, ops, words, k)
  PROVE  ReadsItems(c, s, v, ops \o Ops[v.items[k + 1]], words \o Fields[v.items[k + 1]], k + 1)
<1>. DEFINE u == v.items[k + 1]
            before == <<Begin(v)>> \o ops
<1>1. PICK t : /\ Takes(c, s, before, t)
               /\ RoomFor(c, s, v, k) => /\ t = Inside(c, s, v, Lead(v) + k, words)
                                         /\ Len(s.buf) + (Lead(v) + k) <= c.size
               /\ ~RoomFor(c, s, v, k) => t.ended = "panic"
  BY DEF ReadsItems
<1>2. u \in Values /\ k + 1 \in DOMAIN v.items /\ (k + 1) - 1 = k
  BY KindsOfValues
<1>3. Ops[u] \in Seq(Op) /\ <<Begin(v)>> \in Seq(Op)
  <2>1. Begin(v) \in Op
    BY CompositeFacts
  <2>. QED BY <1>2, <2>1, OpsType
<1>4. before \in Seq(Op) /\ before \o Ops[u] = <<Begin(v)>> \o (ops \o Ops[u])
  <2>. DEFINE x == <<Begin(v)>>
              y == Ops[u]
  <2>1. x \in Seq(Op) /\ y \in Seq(Op)
    BY <1>3
  <2>. HIDE DEF x, y
  <2>2. (x \o ops) \o y = x \o (ops \o y)
    BY <2>1, ConcatAssociative, SMTT(30)
  <2>3. x \o ops \in Seq(Op)
    BY <2>1
  <2>. QED BY <2>2, <2>3 DEF x, y
<1>5. RoomFor(c, s, v, k + 1) <=> RoomFor(c, s, v, k) /\ FitsFrom(c, u, Len(s.buf) + (Lead(v) + k))
  <2>1. \A i \in 1..(k + 1) : i \in 1..k \/ i = k + 1
    OBVIOUS
  <2>2. \A i \in 1..k : i \in 1..(k + 1)
    OBVIOUS
  <2>3. k + 1 \in 1..(k + 1)
    OBVIOUS
  <2>. QED BY <1>2, <2>1, <2>2, <2>3 DEF RoomFor
<1>6. Lead(v) \in Nat /\ Len(s.buf) \in Nat
  BY StateParts DEF Lead
<1>. HIDE DEF before
<1>7. CASE ~RoomFor(c, s, v, k)
  <2>1. Takes(c, t, Ops[u], t)
    BY <1>1, <1>3, <1>7, TakesEnded
  <2>2. Takes(c, s, before \o Ops[u], t)
    BY <1>1, <1>3, <1>4, <2>1, TakesBoth
  <2>. QED BY <1>1, <1>4, <1>5, <1>7, <2>2 DEF ReadsItems
<1>8. CASE RoomFor(c, s, v, k)
  <2>. DEFINE j == Lead(v) + k
  <2>1. t = Inside(c, s, v, j, words) /\ Len(s.buf) + j <= c.size
    BY <1>1, <1>8
  <2>2. j \in 0..Len(Whole(v))
    BY <1>6, WholeType, KindsOfValues
  <2>3. Live(c, t) /\ t.stack # <<>> /\ Len(t.buf) = Len(s.buf) + j
    BY <2>1, <2>2, InsideType, SMTT(30)
  <2>4. PICK w : /\ Takes(c, t, Ops[u], w)
                 /\ FitsFrom(c, u, Len(t.buf)) => w = Done(c, t, u) /\ Live(c, w)
                 /\ ~FitsFrom(c, u, Len(t.buf)) => w.ended = "panic"
    BY <2>3 DEF Reads, ReadsFrom
  <2>5. Takes(c, s, <<Begin(v)>> \o (ops \o Ops[u]), w)
    BY <1>1, <1>3, <1>4, <2>4, TakesBoth
  <2>6. ASSUME RoomFor(c, s, v, k + 1)
        PROVE  w = Inside(c, s, v, Lead(v) + (k + 1), words \o Fields[u]) /\ Len(s.buf) + (Lead(v) + (k + 1)) <= c.size
    <3>1. w = Done(c, t, u) /\ Live(c, w)
      BY <1>5, <2>3, <2>4, <2>6
    <3>2. Done(c, Inside(c, s, v, Lead(v) + ((k + 1) - 1), words), v.items[k + 1])
            = Inside(c, s, v, (Lead(v) + ((k + 1) - 1)) + 1, words \o Fields[v.items[k + 1]])
      BY <1>2, ItemStep
    <3>3. Lead(v) + ((k + 1) - 1) = j /\ (Lead(v) + ((k + 1) - 1)) + 1 = Lead(v) + (k + 1)
      BY <1>6
    <3>4. w = Inside(c, s, v, Lead(v) + (k + 1), words \o Fields[u])
      BY <2>1, <3>1, <3>2, <3>3
    <3>5. Len(w.buf) <= c.size
      BY <3>1, StateParts
    <3>6. w.buf = Append(t.buf, Canonical[u]) /\ t.buf \in Seq(Cells)
      BY <2>3, <3>1, StateParts DEF Done
    <3>7. Len(w.buf) = Len(t.buf) + 1
      BY <3>6
    <3>. QED BY <1>6, <2>3, <3>4, <3>5, <3>7
  <2>7. ASSUME ~RoomFor(c, s, v, k + 1)
        PROVE  w.ended = "panic"
    BY <1>5, <1>8, <2>3, <2>4, <2>7
  <2>. QED BY <2>5, <2>6, <2>7 DEF ReadsItems
<1>. QED BY <1>7, <1>8

\* The operations of a value, but for the last, when its items are read as they
\* should be.
LEMMA ReadsAllItems ==
  ASSUME NEW c, c.size \in Nat, NEW s, Live(c, s), NEW v \in Values, v.kind # "field",
         \A i \in DOMAIN v.items : Reads(c, v.items[i])
  PROVE  \E ops \in Seq(Op) : /\ Ops[v] = <<Begin(v)>> \o ops \o <<End(v)>>
                              /\ ReadsItems(c, s, v, ops, Fields[v], Len(v.items))
<1>. DEFINE n  == Len(v.items)
            os == ItemsOf(Ops, v)
            fs == ItemsOf(Fields, v)
<1>1. n \in Nat /\ DOMAIN v.items = 1..n /\ \A i \in 1..n : v.items[i] \in Values
  BY KindsOfValues
<1>2. os \in Seq(Seq(Op)) /\ Len(os) = n /\ \A i \in 1..n : os[i] = Ops[v.items[i]]
  <2>1. \A i \in DOMAIN v.items : Ops[v.items[i]] \in Seq(Op)
    BY <1>1, OpsType
  <2>. QED BY <1>1, <2>1, ItemsType DEF ItemsOf
<1>3. fs \in Seq(Seq(Words)) /\ Len(fs) = n /\ \A i \in 1..n : fs[i] = Fields[v.items[i]]
  <2>1. \A i \in DOMAIN v.items : Fields[v.items[i]] \in Seq(Words)
    BY <1>1, FieldsType
  <2>. QED BY <1>1, <2>1, ItemsType DEF ItemsOf
<1>. HIDE DEF os, fs
<1>4. PICK p : IsFlattening(Op, os, p)
  BY <1>2, FlatteningExists
<1>5. PICK q : IsFlattening(Words, fs, q)
  BY <1>3, FlatteningExists
<1>6. p[n] = FlattenSeq(os) /\ p[n] \in Seq(Op) /\ q[n] = FlattenSeq(fs)
  BY <1>2, <1>3, <1>4, <1>5, FlattenSeqIs
<1>7. /\ p[0] = <<>> /\ q[0] = <<>>
      /\ \A k \in 0..n : p[k] \in Seq(Op) /\ q[k] \in Seq(Words)
      /\ \A i \in 1..n : p[i] = p[i - 1] \o Ops[v.items[i]] /\ q[i] = q[i - 1] \o Fields[v.items[i]]
  <2>1. p[0] = <<>> /\ \A k \in 0..n : p[k] \in Seq(Op)
    BY <1>2, <1>4 DEF IsFlattening
  <2>2. q[0] = <<>> /\ \A k \in 0..n : q[k] \in Seq(Words)
    BY <1>3, <1>5 DEF IsFlattening
  <2>3. \A i \in 1..n : p[i] = p[i - 1] \o Ops[v.items[i]]
    BY <1>2, <1>4 DEF IsFlattening
  <2>4. \A i \in 1..n : q[i] = q[i - 1] \o Fields[v.items[i]]
    BY <1>3, <1>5 DEF IsFlattening
  <2>. QED BY <2>1, <2>2, <2>3, <2>4
<1>. DEFINE Read == {k \in Nat : ReadsItems(c, s, v, p[k], q[k], k)}
<1>8. 0 \in Read
  BY <1>7, ReadsNoItem
<1>9. ASSUME NEW k \in Nat, k \in Read, k < n
      PROVE  k + 1 \in Read
  <2>1. k \in 0..n /\ k + 1 \in 1..n /\ (k + 1) - 1 = k
    BY <1>1, <1>9
  <2>2. p[k + 1] = p[k] \o Ops[v.items[k + 1]] /\ q[k + 1] = q[k] \o Fields[v.items[k + 1]]
    BY <1>7, <2>1
  <2>3. p[k] \in Seq(Op) /\ q[k] \in Seq(Words)
    BY <1>7, <2>1
  <2>4. Reads(c, v.items[k + 1])
    BY <1>1, <2>1
  <2>5. ReadsItems(c, s, v, p[k] \o Ops[v.items[k + 1]], q[k] \o Fields[v.items[k + 1]], k + 1)
    BY <1>9, <2>3, <2>4, ReadsOneMore
  <2>6. ReadsItems(c, s, v, p[k + 1], q[k + 1], k + 1)
    BY <2>2, <2>5
  <2>. QED BY <2>6
<1>10. \A k \in 0..n : k \in Read
  <2>1. Read \in SUBSET Nat
    OBVIOUS
  <2>. HIDE DEF Read
  <2>. QED BY <1>1, <1>8, <1>9, <2>1, SetInduction
<1>11. ReadsItems(c, s, v, p[n], q[n], n)
  BY <1>1, <1>10
<1>12. Ops[v] = <<Begin(v)>> \o p[n] \o <<End(v)>> /\ Fields[v] = q[n]
  BY <1>6, CompositeFacts DEF os, fs
<1>. QED BY <1>6, <1>11, <1>12

\* A value fits if its type and all its items do, and there is a place for its
\* hash.
LEMMA FitsInParts ==
  ASSUME NEW c, c.size \in Nat, NEW s, Live(c, s), NEW v \in Values, v.kind # "field"
  PROVE  FitsFrom(c, v, Len(s.buf))
           <=> RoomFor(c, s, v, Len(v.items)) /\ Len(s.buf) + 1 <= c.size
<1>. DEFINE n == Len(v.items)
            b == Len(s.buf)
<1>1. b \in Nat /\ b <= c.size /\ n \in Nat /\ DOMAIN v.items = 1..n
  BY StateParts, KindsOfValues
<1>2. Lead(v) \in {0, 1}
  BY DEF Lead
<1>3. \A i \in 1..n : Slots[v.items[i]] \subseteq Nat
  BY <1>1, KindsOfValues, SlotsType
<1>. HIDE DEF b, n
<1>4. ASSUME FitsFrom(c, v, b)
      PROVE  RoomFor(c, s, v, n) /\ b + 1 <= c.size
  <2>1. b + 1 <= c.size
    BY <1>4, SlotsOf DEF FitsFrom
  <2>2. b + Lead(v) <= c.size
    BY <1>1, <1>2, <2>1
  <2>3. ASSUME NEW i \in 1..n, NEW k \in Slots[v.items[i]]
        PROVE  (b + (Lead(v) + (i - 1))) + k <= c.size
    <3>1. (Lead(v) + (i - 1)) + k \in Slots[v]
      BY <1>1, SlotsOf
    <3>2. b + ((Lead(v) + (i - 1)) + k) <= c.size
      BY <1>4, <3>1 DEF FitsFrom
    <3>3. k \in Nat
      BY <1>3
    <3>. QED BY <1>1, <1>2, <3>2, <3>3
  <2>. QED BY <2>1, <2>2, <2>3 DEF RoomFor, FitsFrom, b
<1>5. ASSUME RoomFor(c, s, v, n), b + 1 <= c.size, NEW k \in Slots[v]
      PROVE  b + k <= c.size
  <2>1. CASE k = 1
    BY <1>5, <2>1
  <2>2. CASE k # 1
    <3>1. PICK i \in DOMAIN v.items : \E m \in Slots[v.items[i]] : k = (Lead(v) + (i - 1)) + m
      BY <1>5, <2>2, SlotsOf
    <3>2. PICK m \in Slots[v.items[i]] : k = (Lead(v) + (i - 1)) + m
      BY <3>1
    <3>3. i \in 1..n
      BY <1>1
    <3>4. m \in Nat /\ (b + (Lead(v) + (i - 1))) + m <= c.size
      BY <1>3, <1>5, <3>3 DEF RoomFor, FitsFrom, b
    <3>. QED BY <1>1, <1>2, <3>2, <3>3, <3>4
  <2>. QED BY <2>1, <2>2
<1>. QED BY <1>4, <1>5 DEF FitsFrom, b, n

\* Every value is read as it should be: if it fits the buffer, its hash comes to
\* the buffer and the directives that allow its fields stay; if not, the run
\* ends with a panic.
LEMMA ValuesAreRead ==
  ASSUME NEW c, c.size \in Nat
  PROVE  \A v \in Values : Reads(c, v)
<1>. DEFINE R == {v \in Values : Reads(c, v)}
<1>1. ASSUME NEW v \in Values, v.kind = "field"
      PROVE  Reads(c, v)
  <2>1. SUFFICES ASSUME NEW s, Live(c, s), s.stack # <<>>
                 PROVE  ReadsFrom(c, s, v)
    BY DEF Reads
  <2>. DEFINE t == Does(c, s, Ops[v][1])
  <2>2. Ops[v] = <<Ops[v][1]>>
    <3>. DEFINE o == [op |-> "FIELD", word |-> v.word]
    <3>1. Ops[v] = <<o>>
      BY <1>1, FieldFacts
    <3>. HIDE DEF o
    <3>. QED BY <3>1
  <2>3. Takes(c, s, Ops[v], t)
    BY <2>2, TakesOne
  <2>4. Len(s.buf) \in Nat /\ Len(s.buf) <= c.size /\ s \in State(c)
    BY <2>1, StateParts DEF Live
  <2>5. \A k : k \in Slots[v] <=> k = 1
    <3>1. DOMAIN v.items = {}
      BY <1>1, KindsOfValues
    <3>. QED BY <3>1, SlotsOf
  <2>6. FitsFrom(c, v, Len(s.buf)) <=> Len(s.buf) + 1 <= c.size
    BY <2>5 DEF FitsFrom
  <2>7. FitsFrom(c, v, Len(s.buf)) <=> Len(s.buf) # c.size
    BY <2>4, <2>6
  <2>8. FitsFrom(c, v, Len(s.buf)) => t = Done(c, s, v) /\ Live(c, t)
    BY <1>1, <2>1, <2>7, FieldStep
  <2>9. ~FitsFrom(c, v, Len(s.buf)) => t.ended = "panic"
    BY <1>1, <2>1, <2>4, <2>7, FieldStep, EndedIs
  <2>. HIDE DEF t
  <2>. QED BY <2>3, <2>8, <2>9 DEF ReadsFrom
<1>2. ASSUME NEW v \in Values, v.kind # "field", \A i \in DOMAIN v.items : Reads(c, v.items[i])
      PROVE  Reads(c, v)
  <2>1. SUFFICES ASSUME NEW s, Live(c, s), s.stack # <<>>
                 PROVE  ReadsFrom(c, s, v)
    BY DEF Reads
  <2>. DEFINE n == Len(v.items)
              b == Len(s.buf)
  <2>2. PICK ops \in Seq(Op) : /\ Ops[v] = <<Begin(v)>> \o ops \o <<End(v)>>
                               /\ ReadsItems(c, s, v, ops, Fields[v], n)
    BY <1>2, <2>1, ReadsAllItems
  <2>3. PICK w : /\ Takes(c, s, <<Begin(v)>> \o ops, w)
                 /\ RoomFor(c, s, v, n) => /\ w = Inside(c, s, v, Lead(v) + n, Fields[v])
                                           /\ b + (Lead(v) + n) <= c.size
                 /\ ~RoomFor(c, s, v, n) => w.ended = "panic"
    BY <2>2 DEF ReadsItems
  <2>. DEFINE t == Does(c, w, End(v))
  <2>4. <<Begin(v)>> \o ops \in Seq(Op) /\ <<End(v)>> \in Seq(Op)
    <3>1. Begin(v) \in Op /\ End(v) \in Op
      BY <1>2, CompositeFacts
    <3>. QED BY <3>1
  <2>5. Takes(c, s, Ops[v], t)
    <3>1. Takes(c, w, <<End(v)>>, t)
      BY TakesOne
    <3>2. Takes(c, s, (<<Begin(v)>> \o ops) \o <<End(v)>>, t)
      BY <2>3, <2>4, <3>1, TakesBoth
    <3>. QED BY <2>2, <3>2
  <2>6. b \in Nat /\ b <= c.size
    BY <2>1, StateParts
  <2>7. FitsFrom(c, v, b) <=> RoomFor(c, s, v, n) /\ b + 1 <= c.size
    BY <1>2, <2>1, FitsInParts
  <2>8. ASSUME RoomFor(c, s, v, n)
        PROVE  /\ b = c.size => t = Ended(w, "panic") /\ w \in State(c)
               /\ b # c.size => t = Done(c, s, v) /\ Live(c, Done(c, s, v))
    <3>1. Len(Whole(v)) = Lead(v) + n
      BY <1>2, WholeType
    <3>2. w = Inside(c, s, v, Len(Whole(v)), Fields[v]) /\ b + Len(Whole(v)) <= c.size
      BY <2>3, <2>8, <3>1
    <3>3. Live(c, w)
      <4>1. Len(Whole(v)) \in 0..Len(Whole(v)) /\ Fields[v] \in Seq(Words)
        BY <1>2, WholeType, FieldsType
      <4>. QED BY <1>2, <2>1, <3>2, <4>1, InsideType
    <3>. QED BY <1>2, <2>1, <3>2, <3>3, CloseStep DEF Live
  <2>9. FitsFrom(c, v, b) => t = Done(c, s, v) /\ Live(c, t)
    BY <2>6, <2>7, <2>8
  <2>10. ASSUME ~FitsFrom(c, v, b)
         PROVE  t.ended = "panic"
    <3>1. CASE RoomFor(c, s, v, n)
      <4>1. b = c.size
        BY <2>6, <2>7, <2>10, <3>1
      <4>. QED BY <2>8, <3>1, <4>1, EndedIs
    <3>2. CASE ~RoomFor(c, s, v, n)
      <4>1. w.ended = "panic"
        BY <2>3, <3>2
      <4>2. t = w
        BY <4>1 DEF Does, Execute
      <4>. QED BY <4>1, <4>2
    <3>. QED BY <3>1, <3>2
  <2>. HIDE DEF t
  <2>. QED BY <2>5, <2>9, <2>10 DEF ReadsFrom
<1>3. \A v \in Values : (\A i \in DOMAIN v.items : v.items[i] \in R) => v \in R
  BY <1>1, <1>2
<1>. HIDE DEF R
<1>4. \A v \in Values : v \in R
  BY <1>3, ValuesMakeTree, TreeInduction
<1>. QED BY <1>4 DEF R

\* A message fits the buffer or not, as Fits says of one as large as the code
\* makes it.
LEMMA MessageIsRead ==
  ASSUME NEW c, c.size \in Nat, NEW m \in Messages
  PROVE  \E t : /\ Takes(c, Start(c.dirs), Ops[m], t)
                /\ FitsFrom(c, m, 0) => /\ t.ended = "no" /\ t.stack = <<>> /\ t.result = Canonical[m]
                                        /\ t.matched = Allowed(c, 0, Fields[m])
                /\ ~FitsFrom(c, m, 0) => t.ended = "panic"
<1>. DEFINE s == Start(c.dirs)
            n == Len(m.items)
<1>1. m \in Values /\ m.kind = "struct" /\ m.kind # "field"
  BY ValuesAssumption
<1>2. /\ s.stack = <<>> /\ s.buf = <<>> /\ s.fields = 0 /\ s.matched = DOMAIN c.dirs
      /\ s.result = NoWord /\ s.ended = "no"
  BY DEF Start
<1>3. Live(c, s)
  <2>1. Len(<<>>) = 0 /\ <<>> \in Seq(Frame) /\ <<>> \in Seq(Cells)
    OBVIOUS
  <2>2. s \in State(c)
    BY <2>1 DEF Start, State
  <2>. QED BY <1>2, <2>1, <2>2 DEF Live
<1>4. Len(s.buf) = 0
  BY <1>2
<1>. HIDE DEF s
<1>5. PICK ops \in Seq(Op) : /\ Ops[m] = <<Begin(m)>> \o ops \o <<End(m)>>
                             /\ ReadsItems(c, s, m, ops, Fields[m], n)
  <2>1. \A i \in DOMAIN m.items : Reads(c, m.items[i])
    BY <1>1, KindsOfValues, ValuesAreRead
  <2>. QED BY <1>1, <1>3, <2>1, ReadsAllItems
<1>6. PICK w : /\ Takes(c, s, <<Begin(m)>> \o ops, w)
               /\ RoomFor(c, s, m, n) => /\ w = Inside(c, s, m, Lead(m) + n, Fields[m])
                                         /\ Len(s.buf) + (Lead(m) + n) <= c.size
               /\ ~RoomFor(c, s, m, n) => w.ended = "panic"
  BY <1>5 DEF ReadsItems
<1>. DEFINE t == Does(c, w, End(m))
<1>7. Takes(c, s, Ops[m], t)
  <2>1. Begin(m) \in Op /\ End(m) \in Op
    BY <1>1, CompositeFacts
  <2>2. <<Begin(m)>> \o ops \in Seq(Op) /\ <<End(m)>> \in Seq(Op)
    BY <2>1
  <2>3. Takes(c, w, <<End(m)>>, t)
    BY TakesOne
  <2>4. Takes(c, s, (<<Begin(m)>> \o ops) \o <<End(m)>>, t)
    BY <1>6, <2>2, <2>3, TakesBoth
  <2>. QED BY <1>5, <2>4
<1>8. FitsFrom(c, m, 0) <=> RoomFor(c, s, m, n)
  <2>1. FitsFrom(c, m, 0) <=> RoomFor(c, s, m, n) /\ 0 + 1 <= c.size
    BY <1>1, <1>3, <1>4, FitsInParts
  <2>2. RoomFor(c, s, m, n) => 0 + 1 <= c.size
    BY <1>1, <1>4 DEF RoomFor, Lead
  <2>. QED BY <2>1, <2>2
<1>9. ASSUME RoomFor(c, s, m, n)
      PROVE  /\ t.ended = "no" /\ t.stack = <<>> /\ t.result = Canonical[m]
             /\ t.matched = Allowed(c, 0, Fields[m])
  <2>1. Len(Whole(m)) = Lead(m) + n
    BY <1>1, WholeType
  <2>2. w = Inside(c, s, m, Len(Whole(m)), Fields[m]) /\ Len(s.buf) + Len(Whole(m)) <= c.size
    BY <1>6, <1>9, <2>1
  <2>3. /\ t.ended = "no" /\ t.stack = <<>> /\ t.result = Canonical[m]
        /\ t.matched = s.matched \cap Allowed(c, s.fields, Fields[m])
    BY <1>1, <1>2, <1>3, <2>2, RootStep
  <2>4. s.matched \cap Allowed(c, s.fields, Fields[m]) = Allowed(c, 0, Fields[m])
    BY <1>2 DEF Allowed
  <2>. QED BY <2>3, <2>4
<1>10. ASSUME ~RoomFor(c, s, m, n)
       PROVE  t.ended = "panic"
  <2>1. w.ended = "panic"
    BY <1>6, <1>10
  <2>2. t = w
    BY <2>1 DEF Does, Execute
  <2>. QED BY <2>1, <2>2
<1>. HIDE DEF t
<1>. QED BY <1>7, <1>8, <1>9, <1>10 DEF s

-----------------------------------------------------------------------------
(* The digest                                                              *)

Context(signDirs, ops, sender, members) ==
  [size |-> BufferLength(ops), dirs |-> signDirs, sender |-> sender, members |-> members]

\* The buffer has a size.
LEMMA BufferLengthType ==
  ASSUME NEW ops \in Seq(Op)
  PROVE  BufferLength(ops) \in Nat
<1>1. Len(ops) \in Nat /\ DOMAIN ops = 1..Len(ops)
  OBVIOUS
<1>2. IsFiniteSet(1..Len(ops))
  BY <1>1, FS_Interval
<1>3. WithWord(ops) \subseteq 1..Len(ops)
  BY <1>1 DEF WithWord
<1>4. Cardinality(WithWord(ops)) \in Nat
  BY <1>2, <1>3, FS_Subset, FS_CardinalityType
<1>5. OpsLength(ops) \in Nat
  BY <1>1, <1>4 DEF OpsLength
<1>6. \A n \in Nat : (n \div 17) + 2 \in Nat
  OBVIOUS
<1>. QED BY <1>5, <1>6 DEF BufferLength

\* The recursive function of the machine is the run that its steps make.
LEMMA RunIsTrace ==
  ASSUME NEW dirs, NEW ops \in Seq(Op), NEW sender, NEW members, NEW t,
         Takes(Context(dirs, ops, sender, members), Start(dirs), ops, t)
  PROVE  Run(dirs, ops, sender, members)[Len(ops)] = t
<1>. DEFINE c == Context(dirs, ops, sender, members)
            n == Len(ops)
            Next0(g, i) == IF i = 0 THEN Start(dirs) ELSE Does(c, g[i - 1], ops[i])
            Solves(g) == g = [i \in 0..n |-> Next0(g, i)]
            R == Run(dirs, ops, sender, members)
<1>1. PICK p : IsTrace(c, Start(dirs), ops, p) /\ p[n] = t
  BY DEF Takes
<1>2. n \in Nat
  OBVIOUS
<1>3. \A s, o : Does(c, s, o) = Execute(s, o, BufferLength(ops), dirs, sender, members)
  BY DEF Does, Context
<1>4. R = CHOOSE g : Solves(g)
  BY <1>3 DEF Run
<1>. HIDE DEF c, R
<1>5. p[0] = Start(dirs) /\ \A i \in 1..n : p[i] = Does(c, p[i - 1], ops[i])
  BY <1>1 DEF IsTrace
<1>. DEFINE q == [i \in 0..n |-> p[i]]
<1>6. ASSUME NEW i \in 0..n
      PROVE  q[i] = Next0(q, i)
  <2>1. CASE i = 0
    BY <1>5, <2>1
  <2>2. CASE i # 0
    <3>1. i \in 1..n /\ i - 1 \in 0..n
      BY <1>2, <2>2
    <3>2. p[i] = Does(c, p[i - 1], ops[i]) /\ q[i - 1] = p[i - 1]
      BY <1>5, <3>1
    <3>. QED BY <2>2, <3>2
  <2>. QED BY <2>1, <2>2
<1>7. Solves(q)
  BY <1>6
<1>. HIDE DEF q
<1>8. Solves(R)
  <2>. HIDE DEF Solves
  <2>. QED BY <1>4, <1>7
<1>. DEFINE Same == {i \in Nat : i <= n => R[i] = p[i]}
<1>9. 0 \in Same
  <2>1. 0 \in 0..n
    BY <1>2
  <2>2. R[0] = Start(dirs)
    BY <1>8, <2>1
  <2>. QED BY <1>5, <2>2
<1>10. ASSUME NEW i \in Nat, i \in Same, i < n
       PROVE  i + 1 \in Same
  <2>1. i + 1 \in 1..n /\ i + 1 \in 0..n /\ (i + 1) - 1 = i /\ i + 1 # 0
    BY <1>2, <1>10
  <2>2. R[i + 1] = Does(c, R[i], ops[i + 1])
    BY <1>8, <2>1
  <2>3. p[i + 1] = Does(c, p[i], ops[i + 1])
    BY <1>5, <2>1
  <2>4. R[i] = p[i]
    BY <1>2, <1>10
  <2>. QED BY <2>2, <2>3, <2>4
<1>11. \A i \in 0..n : i \in Same
  <2>1. Same \in SUBSET Nat
    OBVIOUS
  <2>. HIDE DEF Same
  <2>. QED BY <1>2, <1>9, <1>10, <2>1, SetInduction
<1>12. R[n] = p[n]
  BY <1>2, <1>11
<1>. QED BY <1>1, <1>12 DEF R

\* What eip712Hash makes of a message.
LEMMA DigestOfMessage ==
  ASSUME NEW dirs, NEW m \in Messages, NEW sender, NEW members
  PROVE  LET covers(d) == \A i \in DOMAIN Fields[m] : SignMatch(d, i, Fields[m][i], sender, members)
         IN EIP712Hash(dirs, Ops[m], sender, members)
              = IF dirs # <<>> /\ ~Fits(m) THEN [ended |-> "panic", digest |-> NoWord]
                ELSE [ended  |-> "no",
                      digest |-> IF \E d \in Range(dirs) : covers(d) THEN Canonical[m] ELSE NoWord]
<1>. DEFINE covers(d) == \A i \in DOMAIN Fields[m] : SignMatch(d, i, Fields[m][i], sender, members)
            c == Context(dirs, Ops[m], sender, members)
            hashed == EIP712Hash(dirs, Ops[m], sender, members)
<1>1. m \in Values /\ Canonical[m] # NoWord
  BY ValuesAssumption, HashAssumption
<1>2. CASE dirs = <<>>
  <2>1. hashed = [ended |-> "no", digest |-> NoWord]
    BY <1>2 DEF EIP712Hash
  <2>2. ~\E d \in Range(dirs) : covers(d)
    BY <1>2 DEF Range
  <2>. HIDE DEF hashed, covers
  <2>3. hashed = IF dirs # <<>> /\ ~Fits(m) THEN [ended |-> "panic", digest |-> NoWord]
                 ELSE [ended  |-> "no",
                       digest |-> IF \E d \in Range(dirs) : covers(d) THEN Canonical[m] ELSE NoWord]
    BY <1>2, <2>1, <2>2
  <2>. QED BY <2>3 DEF hashed, covers
<1>3. CASE dirs # <<>>
  <2>. DEFINE end == Run(dirs, Ops[m], sender, members)[Len(Ops[m])]
  <2>1. Ops[m] \in Seq(Op)
    BY <1>1, OpsType
  <2>2. c.size = BufferLength(Ops[m]) /\ c.size \in Nat /\ c.dirs = dirs /\ c.sender = sender /\ c.members = members
    BY <2>1, BufferLengthType DEF Context
  <2>. HIDE DEF c
  <2>3. PICK t : /\ Takes(c, Start(c.dirs), Ops[m], t)
                 /\ FitsFrom(c, m, 0) => /\ t.ended = "no" /\ t.stack = <<>> /\ t.result = Canonical[m]
                                         /\ t.matched = Allowed(c, 0, Fields[m])
                 /\ ~FitsFrom(c, m, 0) => t.ended = "panic"
    BY <2>2, MessageIsRead
  <2>4. end = t
    BY <2>1, <2>2, <2>3, RunIsTrace DEF c
  <2>5. FitsFrom(c, m, 0) <=> Fits(m)
    <3>1. \A k \in Slots[m] : 0 + k = k
      BY <1>1, SlotsType
    <3>. QED BY <2>2, <3>1 DEF FitsFrom, Fits
  <2>6. t.matched = Allowed(c, 0, Fields[m]) => (t.matched = {} <=> ~\E d \in Range(dirs) : covers(d))
    <3>1. Fields[m] \in Seq(Words)
      BY <1>1, FieldsType
    <3>2. \A k \in DOMAIN Fields[m] : 0 + k = k
      BY <3>1
    <3>3. Allowed(c, 0, Fields[m]) = {d \in DOMAIN dirs : covers(dirs[d])}
      BY <2>2, <3>2 DEF Allowed
    <3>. HIDE DEF covers
    <3>4. (\E d \in Range(dirs) : covers(d)) <=> \E i \in DOMAIN dirs : covers(dirs[i])
      BY DEF Range
    <3>. QED BY <3>3, <3>4
  <2>7. hashed = IF end.ended # "no" \/ end.stack # <<>> \/ end.result = NoWord
                 THEN [ended |-> IF end.ended = "no" THEN "revert" ELSE end.ended, digest |-> NoWord]
                 ELSE [ended |-> "no", digest |-> IF end.matched = {} THEN NoWord ELSE end.result]
    BY <1>3 DEF EIP712Hash
  <2>. HIDE DEF hashed, covers, end
  <2>8. CASE Fits(m)
    <3>1. t.ended = "no" /\ t.stack = <<>> /\ t.result = Canonical[m]
      BY <2>3, <2>5, <2>8
    <3>2. hashed = [ended |-> "no", digest |-> IF end.matched = {} THEN NoWord ELSE Canonical[m]]
      BY <1>1, <2>4, <2>7, <3>1
    <3>3. hashed = IF dirs # <<>> /\ ~Fits(m) THEN [ended |-> "panic", digest |-> NoWord]
                   ELSE [ended  |-> "no",
                         digest |-> IF \E d \in Range(dirs) : covers(d) THEN Canonical[m] ELSE NoWord]
      BY <2>3, <2>4, <2>5, <2>6, <2>8, <3>2
    <3>. QED BY <3>3 DEF hashed, covers
  <2>9. CASE ~Fits(m)
    <3>1. t.ended = "panic"
      BY <2>3, <2>5, <2>9
    <3>2. hashed = [ended |-> "panic", digest |-> NoWord]
      BY <2>4, <2>7, <3>1
    <3>3. hashed = IF dirs # <<>> /\ ~Fits(m) THEN [ended |-> "panic", digest |-> NoWord]
                   ELSE [ended  |-> "no",
                         digest |-> IF \E d \in Range(dirs) : covers(d) THEN Canonical[m] ELSE NoWord]
      BY <1>3, <2>9, <3>2
    <3>. QED BY <3>3 DEF hashed, covers
  <2>. QED BY <2>8, <2>9
<1>. QED BY <1>2, <1>3

\* A message that fits the buffer is hashed as the standard says, and its digest
\* is given exactly if a single directive allows every field; one that does not
\* fit is refused by a panic (eip712Hash).
THEOREM DigestsAreCanonical == Spec => []DigestIsCanonical
<1>1. DigestIsCanonical
  BY DigestOfMessage DEF DigestIsCanonical
<1>. QED BY <1>1, PTL

-----------------------------------------------------------------------------
(* Directives composed by the script                                       *)

\* There are no fewer exact fields among more fields.
LEMMA ExactFieldsCounted ==
  ASSUME NEW tags, NEW n \in Nat
  PROVE  /\ IsFiniteSet(ExactFields(tags, n)) /\ Cardinality(ExactFields(tags, n)) \in Nat
         /\ \A i \in 0..n : Cardinality(ExactFields(tags, i)) <= Cardinality(ExactFields(tags, n))
<1>1. IsFiniteSet(1..n)
  BY FS_Interval
<1>2. ExactFields(tags, n) \in SUBSET (1..n)
  BY DEF ExactFields
<1>3. IsFiniteSet(ExactFields(tags, n))
  BY <1>1, <1>2, FS_Subset
<1>4. Cardinality(ExactFields(tags, n)) \in Nat
  BY <1>3, FS_CardinalityType
<1>5. ASSUME NEW i \in 0..n
      PROVE  Cardinality(ExactFields(tags, i)) <= Cardinality(ExactFields(tags, n))
  <2>1. 1..i \subseteq 1..n
    OBVIOUS
  <2>2. ExactFields(tags, i) \in SUBSET ExactFields(tags, n)
    BY <2>1 DEF ExactFields
  <2>. QED BY <1>3, <2>2, FS_Subset
<1>. QED BY <1>3, <1>4, <1>5

\* An exact field is one more.
LEMMA ExactFieldNext ==
  ASSUME NEW tags, NEW i \in Nat \ {0}, tags[i] = "exact"
  PROVE  Cardinality(ExactFields(tags, i)) = Cardinality(ExactFields(tags, i - 1)) + 1
<1>1. i - 1 \in Nat /\ i \notin 1..(i - 1) /\ \A k : k \in 1..i <=> k \in 1..(i - 1) \/ k = i
  OBVIOUS
<1>2. ExactFields(tags, i) = ExactFields(tags, i - 1) \cup {i} /\ i \notin ExactFields(tags, i - 1)
  BY <1>1 DEF ExactFields
<1>3. IsFiniteSet(ExactFields(tags, i - 1))
  BY <1>1, ExactFieldsCounted
<1>. QED BY <1>2, <1>3, FS_AddElement

\* The dictionary has the word of an exact field at its offset.
LEMMA ExactFieldFound ==
  ASSUME NEW tags, NEW n \in Nat, NEW i \in ExactFields(tags, n)
  PROVE  /\ Offset(tags, i) + 1 \in 1..Cardinality(ExactFields(tags, n))
         /\ (CHOOSE j \in ExactFields(tags, n) : Cardinality(ExactFields(tags, j)) = Offset(tags, i) + 1) = i
<1>. DEFINE count(j) == Cardinality(ExactFields(tags, j))
            k == Offset(tags, i) + 1
<1>1. \A j \in ExactFields(tags, n) : j \in Nat \ {0} /\ j \in 1..n /\ tags[j] = "exact" /\ j - 1 \in 0..n
  BY DEF ExactFields
<1>2. \A j \in ExactFields(tags, n) : count(j) = count(j - 1) + 1
  BY <1>1, ExactFieldNext
<1>3. \A j \in Nat : count(j) \in Nat /\ \A h \in 0..j : count(h) <= count(j)
  BY ExactFieldsCounted
<1>4. k = count(i)
  BY <1>2 DEF Offset
<1>. HIDE DEF count, k
<1>5. k \in 1..count(n)
  <2>1. i \in 0..n /\ i - 1 \in Nat
    BY <1>1
  <2>2. count(i) <= count(n) /\ count(i - 1) \in Nat /\ count(i) \in Nat /\ count(n) \in Nat
    BY <1>1, <1>3, <2>1
  <2>3. count(i) = count(i - 1) + 1
    BY <1>2
  <2>. QED BY <1>4, <2>2, <2>3
<1>6. ASSUME NEW j \in ExactFields(tags, n), NEW h \in ExactFields(tags, n), j < h
      PROVE  count(j) # count(h)
  <2>1. j \in 0..(h - 1) /\ h - 1 \in Nat /\ j \in Nat
    BY <1>1, <1>6
  <2>2. count(j) <= count(h - 1) /\ count(j) \in Nat /\ count(h - 1) \in Nat
    BY <1>3, <2>1
  <2>3. count(h) = count(h - 1) + 1
    BY <1>2
  <2>. QED BY <2>2, <2>3
<1>7. \A j \in ExactFields(tags, n) : count(j) = k => j = i
  <2>1. SUFFICES ASSUME NEW j \in ExactFields(tags, n), count(j) = k, j # i PROVE FALSE
    OBVIOUS
  <2>2. j < i \/ i < j
    BY <1>1, <2>1
  <2>. QED BY <1>4, <1>6, <2>1, <2>2
<1>8. (CHOOSE j \in ExactFields(tags, n) : count(j) = k) = i
  BY <1>4, <1>7
<1>. QED BY <1>5, <1>8 DEF count, k

\* The directive composed for some fields and tags allows the words that are as
\* the tags say.
LEMMA ComposedMatches ==
  ASSUME NEW t \in DOMAIN Composed, NEW i, NEW word, NEW sender, NEW members
  PROVE  SignMatch(Composed[t], i, word, sender, members)
           <=> /\ i \in DOMAIN t[2]
               /\ t[2][i] = "exact" => word = Fields[t[1]][i]
               /\ t[2][i] = "self"  => AddressIn[word] = sender
               /\ t[2][i] = "list"  => AddressIn[word] \in members
<1>. DEFINE fields == Fields[t[1]]
            tags   == t[2]
            n      == Len(fields)
            D      == Composed[t]
<1>1. /\ t[1] \in Messages /\ tags \in [DOMAIN fields -> {"any", "self", "list", "exact"}]
      /\ Cardinality(ExactFields(tags, n)) <= MaxSpan
  <2>1. t \in Tagged /\ Cardinality(ExactFields(t[2], Len(Fields[t[1]]))) <= MaxSpan
    BY DEF Composed
  <2>2. PICK m \in Messages : t \in {m} \X [DOMAIN Fields[m] -> {"any", "self", "list", "exact"}]
    BY <2>1 DEF Tagged
  <2>3. t[1] = m /\ t[2] \in [DOMAIN Fields[m] -> {"any", "self", "list", "exact"}]
    BY <2>2
  <2>. QED BY <2>1, <2>3
<1>2. fields \in Seq(Words) /\ n \in Nat /\ DOMAIN fields = 1..n
  BY <1>1, FieldsType, ValuesAssumption
<1>3. D = Compose(fields, tags)
  BY DEF Composed
<1>. HIDE DEF D, fields, tags, n
<1>4. DOMAIN D.directives = DOMAIN fields /\ DOMAIN tags = DOMAIN fields
  BY <1>1, <1>3 DEF Compose
<1>5. CASE i \notin DOMAIN fields
  BY <1>4, <1>5 DEF SignMatch, D, tags
<1>6. CASE i \in DOMAIN fields
  <2>. DEFINE h == D.directives[i]
  <2>1. h = CASE tags[i] = "exact" -> Header(EXACT, Offset(tags, i) + 1)
              [] tags[i] = "self"  -> Header(SELF, 1)
              [] tags[i] = "list"  -> Header(FROM_LIST, 1)
              [] tags[i] = "any"   -> Header(ANY, 1)
    BY <1>3, <1>6 DEF Compose
  <2>2. tags[i] \in {"any", "self", "list", "exact"}
    BY <1>1, <1>6
  <2>3. SignMatch(D, i, word, sender, members)
          <=> \/ TypeOf(h) = ANY
              \/ TypeOf(h) = SELF /\ AddressIn[word] = sender
              \/ TypeOf(h) = FROM_LIST /\ AddressIn[word] \in members
              \/ /\ TypeOf(h) = EXACT /\ SpanOf(h) <= Len(D.dictionary)
                 /\ word = D.dictionary[SpanOf(h)]
    BY <1>4, <1>6 DEF SignMatch
  <2>. HIDE DEF h
  <2>4. \A type \in Nat, span \in 1..MaxSpan : TypeOf(Header(type, span)) = type /\ SpanOf(Header(type, span)) = span
    BY HeaderSays
  <2>5. 1 \in 1..MaxSpan
    BY DirectivesAssumption
  <2>6. ANY \in Nat /\ SELF \in Nat /\ FROM_LIST \in Nat /\ EXACT \in Nat
        /\ ANY # SELF /\ ANY # FROM_LIST /\ ANY # EXACT /\ SELF # FROM_LIST /\ SELF # EXACT /\ FROM_LIST # EXACT
    BY DEF ANY, SELF, FROM_LIST, EXACT
  <2>7. CASE tags[i] = "exact"
    <3>. DEFINE exact == ExactFields(tags, n)
                k == Offset(tags, i) + 1
    <3>1. i \in exact
      BY <1>2, <1>6, <2>7 DEF ExactFields
    <3>2. k \in 1..Cardinality(exact)
          /\ (CHOOSE j \in exact : Cardinality(ExactFields(tags, j)) = k) = i
      BY <1>2, <3>1, ExactFieldFound
    <3>3. k \in 1..MaxSpan
      <4>1. Cardinality(exact) \in Nat /\ MaxSpan \in Nat
        BY <1>2, ExactFieldsCounted, DirectivesAssumption
      <4>. QED BY <1>1, <3>2, <4>1
    <3>4. h = Header(EXACT, k)
      BY <2>1, <2>7
    <3>5. D.dictionary = [j \in 1..Cardinality(exact) |->
                            fields[CHOOSE g \in exact : Cardinality(ExactFields(tags, g)) = j]]
      BY <1>3 DEF Compose, n
    <3>. HIDE DEF exact, k
    <3>6. D.dictionary[k] = fields[i]
      BY <3>2, <3>5
    <3>7. k <= Len(D.dictionary)
      <4>1. Cardinality(exact) \in Nat
        BY <1>2, ExactFieldsCounted DEF exact
      <4>2. Len(D.dictionary) = Cardinality(exact)
        BY <3>5, <4>1
      <4>. QED BY <3>2, <4>1, <4>2
    <3>8. TypeOf(h) = EXACT /\ SpanOf(h) = k
      BY <2>4, <2>6, <3>3, <3>4
    <3>9. SignMatch(D, i, word, sender, members) <=> word = fields[i]
      BY <2>3, <2>6, <3>6, <3>7, <3>8
    <3>. QED BY <1>4, <1>6, <2>7, <3>9 DEF D, fields, tags
  <2>8. CASE tags[i] = "self"
    <3>1. TypeOf(h) = SELF
      BY <2>1, <2>4, <2>5, <2>6, <2>8
    <3>2. SignMatch(D, i, word, sender, members) <=> AddressIn[word] = sender
      BY <2>3, <2>6, <3>1
    <3>. QED BY <1>4, <1>6, <2>8, <3>2 DEF D, tags
  <2>9. CASE tags[i] = "list"
    <3>1. TypeOf(h) = FROM_LIST
      BY <2>1, <2>4, <2>5, <2>6, <2>9
    <3>2. SignMatch(D, i, word, sender, members) <=> AddressIn[word] \in members
      BY <2>3, <2>6, <3>1
    <3>. QED BY <1>4, <1>6, <2>9, <3>2 DEF D, tags
  <2>10. CASE tags[i] = "any"
    <3>1. TypeOf(h) = ANY
      BY <2>1, <2>4, <2>5, <2>6, <2>10
    <3>2. SignMatch(D, i, word, sender, members)
      BY <2>3, <3>1
    <3>. QED BY <1>4, <1>6, <2>10, <3>2 DEF D, tags
  <2>. QED BY <2>2, <2>7, <2>8, <2>9, <2>10
<1>. QED BY <1>5, <1>6

\* A directive composed for a message and the operator's tags allows a message
\* exactly if it fits the buffer, has no more fields and they are as the tags
\* say (main of encodeEIP712Singature.ts, eip712Hash).
THEOREM TagsMeanWhatTheySay == Spec => []ComposedMeansTags
<1>1. ASSUME NEW t \in DOMAIN Composed, NEW m \in Messages, NEW s \in Senders
      PROVE  EIP712Hash(<<Composed[t]>>, Ops[m], s, Members).digest # NoWord
               <=> Fits(m) /\ \A i \in DOMAIN Fields[m] :
                     /\ i \in DOMAIN t[2]
                     /\ t[2][i] = "exact" => Fields[m][i] = Fields[t[1]][i]
                     /\ t[2][i] = "self"  => AddressIn[Fields[m][i]] = s
                     /\ t[2][i] = "list"  => AddressIn[Fields[m][i]] \in Members
  <2>. DEFINE dirs == <<Composed[t]>>
              hashed == EIP712Hash(dirs, Ops[m], s, Members)
              covers(d) == \A i \in DOMAIN Fields[m] : SignMatch(d, i, Fields[m][i], s, Members)
  <2>1. dirs # <<>> /\ Range(dirs) = {Composed[t]}
    BY DEF Range
  <2>2. hashed = IF dirs # <<>> /\ ~Fits(m) THEN [ended |-> "panic", digest |-> NoWord]
                 ELSE [ended  |-> "no",
                       digest |-> IF \E d \in Range(dirs) : covers(d) THEN Canonical[m] ELSE NoWord]
    BY DigestOfMessage
  <2>3. Canonical[m] # NoWord
    BY HashAssumption
  <2>. HIDE DEF dirs, hashed, covers
  <2>4. hashed.digest # NoWord <=> Fits(m) /\ covers(Composed[t])
    BY <2>1, <2>2, <2>3
  <2>5. covers(Composed[t])
          <=> \A i \in DOMAIN Fields[m] :
                /\ i \in DOMAIN t[2]
                /\ t[2][i] = "exact" => Fields[m][i] = Fields[t[1]][i]
                /\ t[2][i] = "self"  => AddressIn[Fields[m][i]] = s
                /\ t[2][i] = "list"  => AddressIn[Fields[m][i]] \in Members
    BY ComposedMatches DEF covers
  <2>. QED BY <2>4, <2>5 DEF dirs, hashed
<1>2. ComposedMeansTags
  BY <1>1 DEF ComposedMeansTags
<1>. QED BY <1>2, PTL

-----------------------------------------------------------------------------
(* Room for every message                                                  *)

Count(ops) == Cardinality(WithWord(ops))

\* At most every operation has a word.
LEMMA CountType ==
  ASSUME NEW ops \in Seq(Op)
  PROVE  IsFiniteSet(WithWord(ops)) /\ Count(ops) \in Nat /\ Count(ops) <= Len(ops)
<1>1. Len(ops) \in Nat /\ DOMAIN ops = 1..Len(ops)
  OBVIOUS
<1>2. IsFiniteSet(1..Len(ops)) /\ Cardinality(1..Len(ops)) = Len(ops)
  BY <1>1, FS_Interval
<1>3. WithWord(ops) \in SUBSET (1..Len(ops))
  BY <1>1 DEF WithWord
<1>4. IsFiniteSet(WithWord(ops)) /\ Cardinality(WithWord(ops)) <= Cardinality(1..Len(ops))
  BY <1>2, <1>3, FS_Subset
<1>5. Cardinality(WithWord(ops)) \in Nat
  BY <1>4, FS_CardinalityType
<1>. QED BY <1>2, <1>4, <1>5 DEF Count

\* The words of operations put together.
LEMMA CountBoth ==
  ASSUME NEW x \in Seq(Op), NEW y \in Seq(Op)
  PROVE  Count(x \o y) = Count(x) + Count(y)
<1>. DEFINE n == Len(x)
            A == WithWord(x)
            B == WithWord(y)
            C == {n + i : i \in B}
            f == [i \in B |-> n + i]
            Worded(o) == o.op \in {"BEGIN_STRUCT", "FIELD"}
<1>1. /\ n \in Nat /\ DOMAIN x = 1..n /\ DOMAIN y = 1..Len(y) /\ Len(y) \in Nat
      /\ DOMAIN (x \o y) = 1..(n + Len(y))
      /\ \A i \in 1..n : (x \o y)[i] = x[i]
      /\ \A i \in 1..Len(y) : (x \o y)[n + i] = y[i]
  OBVIOUS
<1>2. A = {i \in 1..n : Worded(x[i])} /\ B = {i \in 1..Len(y) : Worded(y[i])}
  BY <1>1 DEF WithWord
<1>3. WithWord(x \o y) = {i \in 1..(n + Len(y)) : Worded((x \o y)[i])}
  BY <1>1 DEF WithWord
<1>. HIDE DEF Worded, A, B
<1>4. ASSUME NEW i
      PROVE  i \in WithWord(x \o y) <=> i \in A \/ i \in C
  <2>1. CASE i \in 1..n
    <3>1. i \in 1..(n + Len(y)) /\ (x \o y)[i] = x[i]
      BY <1>1, <2>1
    <3>2. \A j \in B : i # n + j
      BY <1>1, <1>2, <2>1
    <3>. QED BY <1>2, <1>3, <2>1, <3>1, <3>2
  <2>2. CASE i \in (n + 1)..(n + Len(y))
    <3>. DEFINE j == i - n
    <3>1. j \in 1..Len(y) /\ i = n + j /\ i \in 1..(n + Len(y)) /\ i \notin 1..n
      BY <1>1, <2>2
    <3>2. (x \o y)[i] = y[j]
      BY <1>1, <3>1
    <3>3. \A k \in B : i = n + k => k = j
      BY <1>1, <1>2, <3>1
    <3>. QED BY <1>2, <1>3, <3>1, <3>2, <3>3
  <2>3. CASE i \notin 1..n /\ i \notin (n + 1)..(n + Len(y))
    <3>1. i \notin 1..(n + Len(y))
      BY <1>1, <2>3
    <3>2. \A j \in B : n + j \in (n + 1)..(n + Len(y))
      BY <1>1, <1>2
    <3>. QED BY <1>2, <1>3, <2>3, <3>1, <3>2
  <2>. QED BY <2>1, <2>2, <2>3
<1>5. WithWord(x \o y) = A \cup C
  BY <1>4
<1>6. A \cap C = {}
  BY <1>1, <1>2
<1>7. IsFiniteSet(A) /\ IsFiniteSet(B) /\ Cardinality(A) \in Nat
  BY CountType DEF A, B, Count
<1>8. f \in Bijection(B, C)
  <2>1. \A i \in B, j \in B : n + i = n + j => i = j
    BY <1>1, <1>2
  <2>. QED BY <2>1 DEF Bijection, Injection, Surjection, IsInjective
<1>9. IsFiniteSet(C) /\ Cardinality(C) = Cardinality(B)
  <2>1. ExistsBijection(B, C)
    BY <1>8 DEF ExistsBijection
  <2>. HIDE DEF C
  <2>. QED BY <1>7, <2>1, FS_Bijection
<1>. HIDE DEF C
<1>10. Cardinality(A \cup C) = Cardinality(A) + Cardinality(C) - Cardinality(A \cap C)
  BY <1>7, <1>9, FS_Union
<1>11. Cardinality(A \cap C) = 0
  BY <1>6, FS_EmptySet
<1>12. Cardinality(C) \in Nat
  BY <1>9, FS_CardinalityType
<1>13. Cardinality(A \cup C) = Cardinality(A) + Cardinality(B)
  BY <1>7, <1>9, <1>10, <1>11, <1>12
<1>. QED BY <1>5, <1>13 DEF Count, A, B

\* The word of an operation.
LEMMA CountOne ==
  ASSUME NEW o \in Op
  PROVE  Count(<<o>>) = IF o.op \in {"BEGIN_STRUCT", "FIELD"} THEN 1 ELSE 0
<1>1. DOMAIN <<o>> = {1} /\ <<o>>[1] = o
  OBVIOUS
<1>2. WithWord(<<o>>) = IF o.op \in {"BEGIN_STRUCT", "FIELD"} THEN {1} ELSE {}
  BY <1>1 DEF WithWord
<1>3. Cardinality({1}) = 1 /\ Cardinality({}) = 0
  BY FS_Singleton, FS_EmptySet
<1>. QED BY <1>2, <1>3 DEF Count

\* Values without empty arrays take no more slots than they have words.
Full(V) ==
  /\ V \subseteq Values
  /\ \A v \in V : /\ \A i \in DOMAIN v.items : v.items[i] \in V
                  /\ v.kind = "array" => v.items # <<>>

Bounded(v) == \A k \in Slots[v] : k <= Count(Ops[v])

\* The step from the items of a value to the value.
LEMMA ItemsBounded ==
  ASSUME NEW v \in Values, v.kind # "field", v.kind = "array" => v.items # <<>>,
         \A i \in DOMAIN v.items : Bounded(v.items[i])
  PROVE  Bounded(v)
<1>. DEFINE n  == Len(v.items)
            os == ItemsOf(Ops, v)
            u(i) == v.items[i]
<1>1. n \in Nat /\ DOMAIN v.items = 1..n /\ \A i \in 1..n : u(i) \in Values
  BY KindsOfValues
<1>2. \A i \in 1..n : Ops[u(i)] \in Seq(Op)
  BY <1>1, OpsType
<1>3. os \in Seq(Seq(Op)) /\ Len(os) = n /\ \A i \in 1..n : os[i] = Ops[u(i)]
  BY <1>1, <1>2, ItemsType DEF ItemsOf
<1>4. \A i \in 1..n : /\ 1 \in Slots[u(i)] /\ Slots[u(i)] \subseteq Nat /\ Count(Ops[u(i)]) \in Nat
                      /\ \A k \in Slots[u(i)] : k <= Count(Ops[u(i)])
  BY <1>1, <1>2, SlotsOf, SlotsType, CountType DEF Bounded
<1>. HIDE DEF os, u
<1>5. PICK p : IsFlattening(Op, os, p)
  BY <1>3, FlatteningExists
<1>6. p[n] = FlattenSeq(os) /\ p[n] \in Seq(Op)
  BY <1>3, <1>5, FlattenSeqIs
<1>7. p[0] = <<>> /\ \A k \in 0..n : p[k] \in Seq(Op)
  BY <1>3, <1>5 DEF IsFlattening
<1>8. \A i \in 1..n : p[i] = p[i - 1] \o Ops[u(i)]
  BY <1>3, <1>5 DEF IsFlattening
<1>. DEFINE Enough == {j \in Nat : j <= n => /\ j <= Count(p[j])
                                            /\ \A i \in 1..j : \A k \in Slots[u(i)] : (i - 1) + k <= Count(p[j])}
<1>9. 0 \in Enough
  <2>1. Count(p[0]) \in Nat
    BY <1>1, <1>7, CountType
  <2>. QED BY <2>1
<1>10. ASSUME NEW j \in Nat, j \in Enough, j < n
       PROVE  j + 1 \in Enough
  <2>1. j + 1 \in 1..n /\ (j + 1) - 1 = j /\ j \in 0..n
    BY <1>1, <1>10
  <2>2. Count(p[j + 1]) = Count(p[j]) + Count(Ops[u(j + 1)]) /\ Count(p[j]) \in Nat
    BY <1>2, <1>7, <1>8, <2>1, CountBoth, CountType, ZenonT(60)
  <2>3. Count(Ops[u(j + 1)]) \in Nat /\ 1 <= Count(Ops[u(j + 1)])
    BY <1>4, <2>1
  <2>4. j <= Count(p[j]) /\ \A i \in 1..j : \A k \in Slots[u(i)] : (i - 1) + k <= Count(p[j])
    BY <1>1, <1>10
  <2>5. j + 1 <= Count(p[j + 1])
    BY <2>2, <2>3, <2>4
  <2>6. ASSUME NEW i \in 1..(j + 1), NEW k \in Slots[u(i)]
        PROVE  (i - 1) + k <= Count(p[j + 1])
    <3>1. i \in 1..n /\ k \in Nat
      BY <1>1, <1>4, <2>1
    <3>2. CASE i = j + 1
      <4>1. k <= Count(Ops[u(j + 1)])
        BY <1>4, <2>1, <3>2
      <4>. QED BY <2>1, <2>2, <2>3, <2>4, <3>1, <3>2, <4>1
    <3>3. CASE i # j + 1
      <4>1. i \in 1..j
        BY <3>3
      <4>2. (i - 1) + k <= Count(p[j])
        BY <2>4, <4>1
      <4>. QED BY <2>2, <2>3, <3>1, <4>2
    <3>. QED BY <3>2, <3>3
  <2>. QED BY <2>5, <2>6
<1>11. \A j \in 0..n : j \in Enough
  <2>1. Enough \in SUBSET Nat
    OBVIOUS
  <2>. HIDE DEF Enough
  <2>. QED BY <1>1, <1>9, <1>10, <2>1, SetInduction
<1>12. n <= Count(p[n]) /\ \A i \in 1..n : \A k \in Slots[u(i)] : (i - 1) + k <= Count(p[n])
  BY <1>1, <1>11
<1>. DEFINE begin == <<Begin(v)>>
            end   == <<End(v)>>
<1>13. Begin(v) \in Op /\ End(v) \in Op /\ Ops[v] = begin \o p[n] \o end
  BY <1>6, CompositeFacts DEF os
<1>14. Count(begin) = Lead(v) /\ Count(end) = 0
  <2>1. Count(begin) = IF Begin(v).op \in {"BEGIN_STRUCT", "FIELD"} THEN 1 ELSE 0
    BY <1>13, CountOne
  <2>2. Count(end) = IF End(v).op \in {"BEGIN_STRUCT", "FIELD"} THEN 1 ELSE 0
    BY <1>13, CountOne
  <2>3. CASE v.kind = "struct"
    BY <2>1, <2>2, <2>3 DEF Begin, End, Lead
  <2>4. CASE v.kind # "struct"
    BY <2>1, <2>2, <2>4 DEF Begin, End, Lead
  <2>. QED BY <2>3, <2>4
<1>15. begin \in Seq(Op) /\ end \in Seq(Op)
  BY <1>13
<1>. HIDE DEF begin, end
<1>16. Count(Ops[v]) = Lead(v) + Count(p[n])
  <2>1. begin \o p[n] \in Seq(Op)
    BY <1>6, <1>15
  <2>2. Count(begin \o p[n]) = Count(begin) + Count(p[n])
    BY <1>6, <1>15, CountBoth
  <2>3. Count((begin \o p[n]) \o end) = Count(begin \o p[n]) + Count(end)
    BY <1>15, <2>1, CountBoth
  <2>4. Count(p[n]) \in Nat /\ Lead(v) \in Nat
    BY <1>6, CountType DEF Lead
  <2>. QED BY <1>13, <1>14, <2>2, <2>3, <2>4
<1>17. Count(p[n]) \in Nat /\ Lead(v) \in Nat /\ (Lead(v) = 1 \/ n >= 1)
  <2>1. v.kind = "struct" \/ v.kind = "array"
    BY KindsOfValues
  <2>2. v.kind = "array" => n >= 1
    BY KindsOfValues
  <2>. QED BY <1>6, <2>1, <2>2, CountType DEF Lead
<1>18. ASSUME NEW k \in Slots[v]
       PROVE  k <= Lead(v) + Count(p[n])
  <2>1. CASE k = 1
    BY <1>1, <1>12, <1>17, <2>1
  <2>2. CASE k # 1
    <3>1. PICK i \in DOMAIN v.items : \E h \in Slots[v.items[i]] : k = (Lead(v) + (i - 1)) + h
      BY <2>2, SlotsOf
    <3>2. PICK h \in Slots[v.items[i]] : k = (Lead(v) + (i - 1)) + h
      BY <3>1
    <3>3. i \in 1..n /\ h \in Slots[u(i)]
      BY <1>1, <3>2 DEF u
    <3>4. (i - 1) + h <= Count(p[n]) /\ h \in Nat
      BY <1>4, <1>12, <3>3
    <3>. QED BY <1>17, <3>2, <3>3, <3>4
  <2>. QED BY <2>1, <2>2
<1>. QED BY <1>16, <1>18 DEF Bounded

\* And the induction.
LEMMA FullIsBounded ==
  ASSUME NEW V, Full(V)
  PROVE  \A v \in V : Bounded(v)
<1>. DEFINE S == {v \in Values : v \in V => Bounded(v)}
<1>1. ASSUME NEW v \in Values, v \in V, v.kind = "field"
      PROVE  Bounded(v)
  <2>. DEFINE o == [op |-> "FIELD", word |-> v.word]
  <2>1. Ops[v] = <<o>> /\ o \in Op /\ o.op = "FIELD"
    BY <1>1, FieldFacts, KindsOfValues DEF Op
  <2>2. DOMAIN v.items = {}
    BY <1>1, KindsOfValues
  <2>3. \A k \in Slots[v] : k = 1
    BY <2>2, SlotsOf
  <2>. HIDE DEF o
  <2>4. Count(Ops[v]) = 1
    BY <2>1, CountOne
  <2>. QED BY <2>3, <2>4 DEF Bounded
<1>2. ASSUME NEW v \in Values, \A i \in DOMAIN v.items : v.items[i] \in S, v \in V
      PROVE  Bounded(v)
  <2>1. \A i \in DOMAIN v.items : Bounded(v.items[i])
    BY <1>2 DEF Full
  <2>2. v.kind = "array" => v.items # <<>>
    BY <1>2 DEF Full
  <2>. QED BY <1>1, <1>2, <2>1, <2>2, ItemsBounded
<1>3. \A v \in Values : (\A i \in DOMAIN v.items : v.items[i] \in S) => v \in S
  BY <1>2
<1>. HIDE DEF S
<1>4. \A v \in Values : v \in S
  BY <1>3, ValuesMakeTree, TreeInduction
<1>. QED BY <1>4 DEF S, Full

\* A message fits the buffer if no array in it is empty.
LEMMA FullMessagesFit ==
  ASSUME NEW V, Full(V), NEW m \in V
  PROVE  Fits(m)
<1>1. m \in Values /\ Ops[m] \in Seq(Op)
  BY OpsType DEF Full
<1>. DEFINE ops == Ops[m]
            n == Len(ops)
            k == Count(ops)
<1>2. k \in Nat /\ n \in Nat /\ k <= n
  BY <1>1, CountType
<1>3. BufferLength(ops) = ((33 + n + 32 * k) \div 17) + 2
  BY DEF BufferLength, OpsLength, Count
<1>. HIDE DEF n, k
<1>4. k <= ((33 + n + 32 * k) \div 17) + 2
  <2>. DEFINE x == 33 + n + 32 * k
  <2>1. x \in Nat /\ x >= 17 * k
    BY <1>2
  <2>. HIDE DEF x
  <2>2. x \div 17 \in Nat /\ x < 17 * (x \div 17) + 17
    BY <2>1
  <2>3. k <= (x \div 17) + 2
    BY <1>2, <2>1, <2>2
  <2>. QED BY <2>3 DEF x
<1>5. \A j \in Slots[m] : j <= k /\ j \in Nat
  BY <1>1, FullIsBounded, SlotsType DEF Bounded, k
<1>6. \A j \in Slots[m] : j <= BufferLength(ops)
  <2>. DEFINE b == ((33 + n + 32 * k) \div 17) + 2
  <2>1. b \in Nat
    BY <1>2
  <2>. HIDE DEF b
  <2>2. k <= b /\ BufferLength(ops) = b
    BY <1>3, <1>4 DEF b
  <2>. QED BY <1>2, <1>5, <2>1, <2>2
<1>. QED BY <1>6 DEF Fits

\* The buffer of words is large enough for messages without empty arrays: what
\* line 331 of Guard2.sol says of all messages is true of those (eip712Hash).
THEOREM BufferSufficesForFullArrays ==
  (\A v \in Values : v.kind = "array" => v.items # <<>>) => (Spec => []BufferSuffices)
<1> SUFFICES ASSUME \A v \in Values : v.kind = "array" => v.items # <<>>
             PROVE  Spec => []BufferSuffices
  OBVIOUS
<1>1. BufferSuffices
  <2>1. Full(Values)
    BY KindsOfValues DEF Full
  <2>2. \A m \in Messages : Fits(m)
    BY <2>1, FullMessagesFit, ValuesAssumption
  <2>3. ASSUME NEW m \in Messages, NEW s \in Senders
        PROVE  EIP712Hash(eip712Whitelist, Ops[m], s, Members).ended # "panic"
    <3>. DEFINE hashed == EIP712Hash(eip712Whitelist, Ops[m], s, Members)
                covers(d) == \A i \in DOMAIN Fields[m] : SignMatch(d, i, Fields[m][i], s, Members)
    <3>1. hashed = IF eip712Whitelist # <<>> /\ ~Fits(m) THEN [ended |-> "panic", digest |-> NoWord]
                   ELSE [ended  |-> "no",
                         digest |-> IF \E d \in Range(eip712Whitelist) : covers(d) THEN Canonical[m] ELSE NoWord]
      BY DigestOfMessage
    <3>. HIDE DEF hashed, covers
    <3>2. hashed.ended = "no"
      BY <2>2, <3>1
    <3>. QED BY <3>2 DEF hashed
  <2>. QED BY <2>3 DEF BufferSuffices
<1>. QED BY <1>1, PTL

-----------------------------------------------------------------------------
(* Methods                                                                 *)

\* The inputs of methods and their components make a tree.
LEMMA InputsMakeTree == Tree(Inputs, InputDepth)
  BY MethodsAssumption DEF Tree

\* So recursive functions over them exist.
LEMMA InputsRecursion ==
  \A what, word : \E f : f = [v \in Inputs |-> Made(what, word, ItemsOf(f, v), v)]
BY InputsMakeTree, TreeRecursion

\* The recursive functions over inputs do what their definitions say: ProcessInput.
LEMMA ProcessInputMade ==
  \A v \in Inputs : ProcessInput[v] = Made("directives", <<>>, ItemsOf(ProcessInput, v), v)
<1> DEFINE Body(f, v) ==
             IF v.type = "tuple" /\ LastDim(v) # 0
               THEN FlattenSeq([n \in 1..LastDim(v) |-> FlattenSeq([i \in DOMAIN v.items |-> f[v.items[i]]])])
               ELSE Emit(IF LastDim(v) = 0 THEN 1 ELSE LastDim(v), v.tag)
           Solves(f) == f = [v \in Inputs |-> Body(f, v)]
<1>1. \A f, v : Made("directives", <<>>, ItemsOf(f, v), v) = Body(f, v)
  BY DEF Made, ItemsOf
<1>2. ProcessInput = CHOOSE f : Solves(f)
  BY DEF ProcessInput
<1>. HIDE DEF Body
<1>3. PICK f : f = [v \in Inputs |-> Made("directives", <<>>, ItemsOf(f, v), v)]
  BY InputsRecursion, ZenonT(60)
<1>4. Solves(f)
  BY <1>1, <1>3, Zenon
<1>5. Solves(ProcessInput)
  <2>. HIDE DEF Solves
  <2>. QED BY <1>2, <1>4
<1>. QED BY <1>1, <1>5

\* The same of WordsOf.
LEMMA WordsOfMade ==
  ASSUME NEW word
  PROVE  \A v \in Inputs : WordsOf(word)[v] = Made("words", word, ItemsOf(WordsOf(word), v), v)
<1> DEFINE Body(f, v) ==
             LET element == IF v.type = "tuple" THEN FlattenSeq([i \in DOMAIN v.items |-> f[v.items[i]]])
                                                ELSE word[v.tag]
             IN IF IsDynamic[v] THEN word["any"] ELSE FlattenSeq([n \in 1..Elements(v.dims) |-> element])
           Solves(f) == f = [v \in Inputs |-> Body(f, v)]
<1>1. \A f, v : Made("words", word, ItemsOf(f, v), v) = Body(f, v)
  BY DEF Made, ItemsOf
<1>2. WordsOf(word) = CHOOSE f : Solves(f)
  BY DEF WordsOf
<1>. HIDE DEF Body
<1>3. PICK f : f = [v \in Inputs |-> Made("words", word, ItemsOf(f, v), v)]
  BY InputsRecursion, ZenonT(60)
<1>4. Solves(f)
  BY <1>1, <1>3, Zenon
<1>5. Solves(WordsOf(word))
  <2>. HIDE DEF Solves
  <2>. QED BY <1>2, <1>4
<1>. QED BY <1>1, <1>5

\* The same of HasDynamic.
LEMMA HasDynamicMade ==
  \A v \in Inputs : HasDynamic[v] = Made("hasDynamic", <<>>, ItemsOf(HasDynamic, v), v)
<1> DEFINE Body(f, v) ==
             \/ LastDim(v) = 0
             \/ v.type = "bytes" /\ v.dims = <<>>
             \/ v.type = "tuple" /\ \E i \in DOMAIN v.items : f[v.items[i]]
           Solves(f) == f = [v \in Inputs |-> Body(f, v)]
<1>1. \A f, v : Made("hasDynamic", <<>>, ItemsOf(f, v), v) = Body(f, v)
  BY ZenonT(60) DEF Made, ItemsOf
<1>2. HasDynamic = CHOOSE f : Solves(f)
  BY DEF HasDynamic
<1>. HIDE DEF Body
<1>3. PICK f : f = [v \in Inputs |-> Made("hasDynamic", <<>>, ItemsOf(f, v), v)]
  BY InputsRecursion, ZenonT(60)
<1>4. Solves(f)
  BY <1>1, <1>3, Zenon
<1>5. Solves(HasDynamic)
  <2>. HIDE DEF Solves
  <2>. QED BY <1>2, <1>4
<1>. QED BY <1>1, <1>5

\* The same of IsDynamic.
LEMMA IsDynamicMade ==
  \A v \in Inputs : IsDynamic[v] = Made("isDynamic", <<>>, ItemsOf(IsDynamic, v), v)
<1> DEFINE Body(f, v) ==
             \/ \E k \in DOMAIN v.dims : v.dims[k] = 0
             \/ v.type = "bytes"
             \/ v.type = "tuple" /\ \E i \in DOMAIN v.items : f[v.items[i]]
           Solves(f) == f = [v \in Inputs |-> Body(f, v)]
<1>1. \A f, v : Made("isDynamic", <<>>, ItemsOf(f, v), v) = Body(f, v)
  BY ZenonT(60) DEF Made, ItemsOf
<1>2. IsDynamic = CHOOSE f : Solves(f)
  BY DEF IsDynamic
<1>. HIDE DEF Body
<1>3. PICK f : f = [v \in Inputs |-> Made("isDynamic", <<>>, ItemsOf(f, v), v)]
  BY InputsRecursion, ZenonT(60)
<1>4. Solves(f)
  BY <1>1, <1>3, Zenon
<1>5. Solves(IsDynamic)
  <2>. HIDE DEF Solves
  <2>. QED BY <1>2, <1>4
<1>. QED BY <1>1, <1>5

\* The same of Supported.
LEMMA SupportedMade ==
  \A v \in Inputs : Supported[v] = Made("supported", <<>>, ItemsOf(Supported, v), v)
<1> DEFINE Body(f, v) ==
             IF IsDynamic[v]
               THEN v.tag = "any" /\ (LastDim(v) = 0 \/ (v.type = "bytes" /\ v.dims = <<>>))
               ELSE /\ LastDim(v) = Elements(v.dims)
                    /\ IF v.type = "tuple" THEN \A i \in DOMAIN v.items : f[v.items[i]]
                                           ELSE v.tag # "any" => LastDim(v) = 1
           Solves(f) == f = [v \in Inputs |-> Body(f, v)]
<1>1. \A f, v : Made("supported", <<>>, ItemsOf(f, v), v) = Body(f, v)
  BY ZenonT(60) DEF Made, ItemsOf
<1>2. Supported = CHOOSE f : Solves(f)
  BY DEF Supported
<1>. HIDE DEF Body
<1>3. PICK f : f = [v \in Inputs |-> Made("supported", <<>>, ItemsOf(f, v), v)]
  BY InputsRecursion, ZenonT(60)
<1>4. Solves(f)
  BY <1>1, <1>3, Zenon
<1>5. Solves(Supported)
  <2>. HIDE DEF Solves
  <2>. QED BY <1>2, <1>4
<1>. QED BY <1>1, <1>5

\* What an input is made of.
LEMMA KindsOfInputs ==
  ASSUME NEW v \in Inputs
  PROVE  /\ v.type \in {"word", "bytes", "tuple"} /\ v.tag \in {"any", "self", "list"}
         /\ LastDim(v) \in Nat
         /\ v.items \in Seq(Inputs) /\ Len(v.items) \in Nat
         /\ DOMAIN v.items = 1..Len(v.items)
         /\ \A i \in DOMAIN v.items : v.items[i] \in Inputs
<1>1. v.dims \in Seq(Nat)
  BY MethodsAssumption
<1>2. LastDim(v) \in Nat
  <2>1. CASE v.dims = <<>>
    BY <2>1 DEF LastDim
  <2>2. CASE v.dims # <<>>
    <3>1. Len(v.dims) \in 1..Len(v.dims)
      BY <1>1, <2>2
    <3>2. v.dims[Len(v.dims)] \in Nat
      BY <1>1, <3>1
    <3>. QED BY <2>2, <3>2 DEF LastDim, Last
  <2>. QED BY <2>1, <2>2
<1>. QED BY <1>2, MethodsAssumption

\* An input of a fixed size is no bytes, has no empty bracket, and no component of
\* a size that is not fixed.
LEMMA FixedInputs ==
  ASSUME NEW v \in Inputs, ~IsDynamic[v]
  PROVE  /\ v.type # "bytes" /\ LastDim(v) # 0
         /\ v.type = "tuple" => \A i \in DOMAIN v.items : ~IsDynamic[v.items[i]]
<1>1. v.dims \in Seq(Nat)
  BY MethodsAssumption
<1>2. IsDynamic[v] = Made("isDynamic", <<>>, ItemsOf(IsDynamic, v), v)
  BY IsDynamicMade
<1>3. /\ \A k \in DOMAIN v.dims : v.dims[k] # 0
      /\ v.type # "bytes"
      /\ v.type = "tuple" => \A i \in DOMAIN v.items : ~ItemsOf(IsDynamic, v)[i]
  BY <1>2 DEF Made
<1>4. LastDim(v) # 0
  <2>1. CASE v.dims = <<>>
    BY <2>1 DEF LastDim
  <2>2. CASE v.dims # <<>>
    <3>1. Len(v.dims) \in DOMAIN v.dims
      BY <1>1, <2>2
    <3>. QED BY <1>3, <2>2, <3>1 DEF LastDim, Last
  <2>. QED BY <2>1, <2>2
<1>. QED BY <1>3, <1>4 DEF ItemsOf

\* What makes an input supported.
LEMMA SupportedInputs ==
  ASSUME NEW v \in Inputs, Supported[v]
  PROVE  /\ IsDynamic[v] => v.tag = "any" /\ (LastDim(v) = 0 \/ (v.type = "bytes" /\ v.dims = <<>>))
         /\ ~IsDynamic[v] => LastDim(v) = Elements(v.dims)
         /\ ~IsDynamic[v] /\ v.type = "tuple" => \A i \in DOMAIN v.items : Supported[v.items[i]]
         /\ ~IsDynamic[v] /\ v.type # "tuple" => (v.tag # "any" => LastDim(v) = 1)
<1>1. Supported[v] = Made("supported", <<>>, ItemsOf(Supported, v), v)
  BY SupportedMade
<1>. QED BY <1>1 DEF Made, ItemsOf

\* The script notices the dynamic ones of the supported inputs.
LEMMA DynamicNoticed ==
  \A v \in Inputs : Supported[v] => (HasDynamic[v] <=> IsDynamic[v])
<1> DEFINE S == {v \in Inputs : Supported[v] => (HasDynamic[v] <=> IsDynamic[v])}
<1>1. ASSUME NEW v \in Inputs, \A i \in DOMAIN v.items : v.items[i] \in S, Supported[v]
      PROVE  HasDynamic[v] <=> IsDynamic[v]
  <2>1. HasDynamic[v] <=> \/ LastDim(v) = 0
                          \/ v.type = "bytes" /\ v.dims = <<>>
                          \/ v.type = "tuple" /\ \E i \in DOMAIN v.items : HasDynamic[v.items[i]]
    <3>1. HasDynamic[v] = Made("hasDynamic", <<>>, ItemsOf(HasDynamic, v), v)
      BY HasDynamicMade
    <3>. QED BY <3>1 DEF Made, ItemsOf
  <2>2. CASE IsDynamic[v]
    BY <1>1, <2>1, <2>2, SupportedInputs
  <2>3. CASE ~IsDynamic[v]
    <3>1. v.type # "bytes" /\ LastDim(v) # 0
      BY <2>3, FixedInputs
    <3>2. ASSUME v.type = "tuple", NEW i \in DOMAIN v.items
          PROVE  ~HasDynamic[v.items[i]]
      <4>1. ~IsDynamic[v.items[i]] /\ Supported[v.items[i]] /\ v.items[i] \in S
        BY <1>1, <2>3, <3>2, FixedInputs, SupportedInputs
      <4>. QED BY <4>1
    <3>. QED BY <2>1, <2>3, <3>1, <3>2
  <2>. QED BY <2>2, <2>3
<1>2. \A v \in Inputs : (\A i \in DOMAIN v.items : v.items[i] \in S) => v \in S
  BY <1>1
<1>. HIDE DEF S
<1>3. \A v \in Inputs : v \in S
  BY <1>2, InputsMakeTree, TreeInduction
<1>. QED BY <1>3 DEF S

-----------------------------------------------------------------------------
(* Directives and the words they are for                                   *)

\* Along directives x, none of an exact match, and bytes y the loop gets from the
\* begin of both to their ends, wherever they stand.
Suits(x, y, blob, data, matched) ==
  /\ x \in Seq(Nat) /\ \A k \in 1..Len(x) : TypeOf(x[k]) # EXACT
  /\ y \in Seq(Nat)
  /\ \A b, p \in Nat :
       Holds(blob, b, x) /\ Holds(data, p, y) => Leads(matched, b, p, b + Len(x), p + Len(y))

\* Nothing suits nothing.
LEMMA NothingSuits ==
  ASSUME NEW blob, NEW data, NEW matched
  PROVE  Suits(<<>>, <<>>, blob, data, matched)
<1>1. \A b, p \in Nat : b + Len(<<>>) = b /\ p + Len(<<>>) = p
  OBVIOUS
<1>. QED BY <1>1 DEF Suits, Leads

\* What suits goes together.
LEMMA SuitsTogether ==
  ASSUME NEW blob \in Seq(Nat), NEW data \in Seq(Nat), NEW matched, NEW x, NEW y, NEW u, NEW w,
         Suits(x, y, blob, data, matched), Suits(u, w, blob, data, matched)
  PROVE  Suits(x \o u, y \o w, blob, data, matched)
<1>1. x \in Seq(Nat) /\ u \in Seq(Nat) /\ y \in Seq(Nat) /\ w \in Seq(Nat)
  BY DEF Suits
<1>2. /\ x \o u \in Seq(Nat) /\ y \o w \in Seq(Nat)
      /\ Len(x \o u) = Len(x) + Len(u) /\ Len(y \o w) = Len(y) + Len(w)
      /\ Len(x) \in Nat /\ Len(u) \in Nat /\ Len(y) \in Nat /\ Len(w) \in Nat
  BY <1>1
<1>3. ASSUME NEW k \in 1..Len(x \o u)
      PROVE  TypeOf((x \o u)[k]) # EXACT
  <2>1. CASE k <= Len(x)
    <3>1. k \in 1..Len(x) /\ (x \o u)[k] = x[k]
      BY <1>1, <1>2, <2>1
    <3>. QED BY <3>1 DEF Suits
  <2>2. CASE k > Len(x)
    <3>1. k - Len(x) \in 1..Len(u) /\ (x \o u)[k] = u[k - Len(x)]
      BY <1>1, <1>2, <2>2
    <3>. QED BY <3>1 DEF Suits
  <2>. QED BY <1>2, <2>1, <2>2
<1>4. ASSUME NEW b \in Nat, NEW p \in Nat, Holds(blob, b, x \o u), Holds(data, p, y \o w)
      PROVE  Leads(matched, b, p, b + Len(x \o u), p + Len(y \o w))
  <2>1. Holds(blob, b, x) /\ Holds(blob, b + Len(x), u)
    BY <1>1, <1>4, HoldsParts
  <2>2. Holds(data, p, y) /\ Holds(data, p + Len(y), w)
    BY <1>1, <1>4, HoldsParts
  <2>3. Leads(matched, b, p, b + Len(x), p + Len(y))
    BY <2>1, <2>2 DEF Suits
  <2>4. b + Len(x) \in Nat /\ p + Len(y) \in Nat
    BY <1>2
  <2>5. Leads(matched, b + Len(x), p + Len(y), (b + Len(x)) + Len(u), (p + Len(y)) + Len(w))
    BY <2>1, <2>2, <2>4 DEF Suits
  <2>6. b + Len(x \o u) = (b + Len(x)) + Len(u) /\ p + Len(y \o w) = (p + Len(y)) + Len(w)
    BY <1>2
  <2>. QED BY <2>3, <2>5, <2>6 DEF Leads
<1>. QED BY <1>2, <1>3, <1>4 DEF Suits

\* And so do sequences of them.
LEMMA SuitsFlattened ==
  ASSUME NEW blob \in Seq(Nat), NEW data \in Seq(Nat), NEW matched,
         NEW n \in Nat, NEW xs \in Seq(Seq(Nat)), NEW ys \in Seq(Seq(Nat)), Len(xs) = n, Len(ys) = n,
         \A i \in 1..n : Suits(xs[i], ys[i], blob, data, matched)
  PROVE  Suits(FlattenSeq(xs), FlattenSeq(ys), blob, data, matched)
<1>3. PICK p : IsFlattening(Nat, xs, p)
  BY FlatteningExists
<1>4. PICK q : IsFlattening(Nat, ys, q)
  BY FlatteningExists
<1>5. FlattenSeq(xs) = p[n] /\ FlattenSeq(ys) = q[n]
  BY <1>3, <1>4, FlattenSeqIs
<1>. DEFINE S == {i \in Nat : i <= n => Suits(p[i], q[i], blob, data, matched)}
<1>6. 0 \in S
  <2>1. p[0] = <<>> /\ q[0] = <<>>
    BY <1>3, <1>4 DEF IsFlattening
  <2>. QED BY <2>1, NothingSuits
<1>7. ASSUME NEW i \in Nat, i \in S, i < n
      PROVE  i + 1 \in S
  <2>1. i + 1 \in 1..n /\ (i + 1) - 1 = i
    BY <1>7
  <2>2. p[i + 1] = p[i] \o xs[i + 1] /\ q[i + 1] = q[i] \o ys[i + 1]
    BY <1>3, <1>4, <2>1 DEF IsFlattening
  <2>3. Suits(p[i], q[i], blob, data, matched) /\ Suits(xs[i + 1], ys[i + 1], blob, data, matched)
    BY <1>7, <2>1
  <2>4. Suits(p[i + 1], q[i + 1], blob, data, matched)
    BY <2>2, <2>3, SuitsTogether
  <2>. QED BY <2>4
<1>8. n \in S
  <2>1. S \in SUBSET Nat
    OBVIOUS
  <2>. HIDE DEF S
  <2>2. \A i \in 0..n : i \in S
    BY <1>6, <1>7, <2>1, SetInduction
  <2>. QED BY <2>2
<1>. QED BY <1>5, <1>8

\* Wildcards over words suit as many words.
LEMMA WordsSuit ==
  ASSUME NEW blob \in Seq(Nat), NEW data \in Seq(Nat), NEW sender, NEW members,
         NEW matched, matched = MatchLoop(blob, data, sender, members),
         NEW n \in Nat, NEW y \in Seq(Nat), Len(y) = n * WordLength
  PROVE  Suits(WildcardWords(n), y, blob, data, matched)
<1>1. PICK full \in Nat, rest \in 0..(MaxSpan - 1), heads \in Seq(Nat), last \in Seq(Nat) :
        /\ n = full * MaxSpan + rest
        /\ WildcardWords(n) = heads \o last
        /\ Len(heads) = full /\ \A i \in 1..full : heads[i] = Header(WILDCARD_WORDS, MaxSpan)
        /\ rest > 0 => last = <<Header(WILDCARD_WORDS, rest)>>
        /\ rest = 0 => last = <<>>
  BY WordsParts
<1>2. \A span \in 1..MaxSpan : TypeOf(Header(WILDCARD_WORDS, span)) # EXACT
  <2>1. WILDCARD_WORDS \in Nat /\ WILDCARD_WORDS # EXACT
    BY DEF WILDCARD_WORDS, EXACT
  <2>. QED BY <2>1, HeaderSays
<1>3. MaxSpan \in 1..MaxSpan /\ rest \in Nat
  BY DirectivesAssumption
<1>4. \A i \in 1..Len(heads) : TypeOf(heads[i]) # EXACT
  BY <1>1, <1>2, <1>3
<1>5. \A i \in 1..Len(last) : TypeOf(last[i]) # EXACT
  <2>1. CASE rest = 0
    <3>1. last = <<>>
      BY <1>1, <2>1
    <3>. QED BY <3>1
  <2>2. CASE rest > 0
    <3>1. last = <<Header(WILDCARD_WORDS, rest)>> /\ rest \in 1..MaxSpan
      BY <1>1, <1>3, <2>2
    <3>2. Len(last) = 1 /\ last[1] = Header(WILDCARD_WORDS, rest)
      BY <3>1
    <3>. QED BY <1>2, <3>1, <3>2
  <2>. QED BY <1>3, <2>1, <2>2
<1>6. ASSUME NEW k \in 1..Len(heads \o last)
      PROVE  TypeOf((heads \o last)[k]) # EXACT
  <2>1. CASE k <= Len(heads)
    <3>1. k \in 1..Len(heads) /\ (heads \o last)[k] = heads[k]
      BY <2>1
    <3>. QED BY <1>4, <3>1
  <2>2. CASE k > Len(heads)
    <3>1. k - Len(heads) \in 1..Len(last) /\ (heads \o last)[k] = last[k - Len(heads)]
      BY <2>2
    <3>. QED BY <1>5, <3>1
  <2>. QED BY <2>1, <2>2
<1>. DEFINE x == WildcardWords(n)
<1>7. x \in Seq(Nat) /\ \A k \in 1..Len(x) : TypeOf(x[k]) # EXACT
  <2>1. x = heads \o last /\ heads \o last \in Seq(Nat)
    BY <1>1
  <2>. HIDE DEF x
  <2>. QED BY <1>6, <2>1
<1>8. ASSUME NEW b \in Nat, NEW p \in Nat, Holds(blob, b, x), Holds(data, p, y)
      PROVE  Leads(matched, b, p, b + Len(x), p + Len(y))
  <2>1. p + n * WordLength <= Len(data)
    BY <1>8 DEF Holds
  <2>2. matched[b][p] = matched[b + Len(WildcardWords(n))][p + n * WordLength]
    BY <1>8, <2>1, WordsSkipped
  <2>. QED BY <2>2 DEF Leads
<1>. HIDE DEF x
<1>9. Suits(x, y, blob, data, matched)
  BY <1>7, <1>8 DEF Suits
<1>. QED BY <1>9 DEF x

\* An address in the last bytes of a word.
LEMMA PaddedAddress ==
  ASSUME NEW address \in [1..AddressLength -> Nat]
  PROVE  LET y == Zeros(WordLength - AddressLength) \o address
         IN  /\ y \in Seq(Nat) /\ Len(y) = WordLength
             /\ \A data \in Seq(Nat), p \in Nat :
                  Holds(data, p, y) => Bytes(data, p + WordLength - AddressLength, AddressLength) = address
<1> DEFINE n == WordLength - AddressLength
           pad == Zeros(n)
           y == pad \o address
<1>1. n \in Nat /\ AddressLength \in Nat /\ WordLength \in Nat /\ n + AddressLength = WordLength
  BY DirectivesAssumption
<1>. HIDE DEF n
<1>2. pad \in Seq(Nat) /\ Len(pad) = n
  BY <1>1 DEF Zeros
<1>3. address \in Seq(Nat) /\ Len(address) = AddressLength
  BY <1>1
<1>. HIDE DEF pad
<1>4. y \in Seq(Nat) /\ Len(y) = WordLength
  <2>1. y \in Seq(Nat) /\ Len(y) = Len(pad) + Len(address)
    <3>1. \A s, t \in Seq(Nat) : s \o t \in Seq(Nat) /\ Len(s \o t) = Len(s) + Len(t)
      OBVIOUS
    <3>. QED BY <1>2, <1>3, <3>1, Zenon
  <2>. QED BY <1>1, <1>2, <1>3, <2>1
<1>5. ASSUME NEW data \in Seq(Nat), NEW p \in Nat, Holds(data, p, y)
      PROVE  Bytes(data, p + WordLength - AddressLength, AddressLength) = address
  <2>1. Holds(data, p + Len(pad), address)
    BY <1>2, <1>3, <1>5, HoldsParts
  <2>2. p + Len(pad) = p + WordLength - AddressLength /\ p + Len(pad) \in Nat
    BY <1>1, <1>2
  <2>. DEFINE from == p + Len(pad)
  <2>. HIDE DEF from
  <2>3. from \in Nat /\ from + AddressLength <= Len(data)
        /\ \A k \in 1..AddressLength : data[from + k] = address[k]
    BY <1>3, <2>1, <2>2 DEF Holds, from
  <2>4. Bytes(data, from, AddressLength) = [k \in 1..AddressLength |-> data[from + k]]
    BY <1>1, <2>3, BytesFacts
  <2>5. [k \in 1..AddressLength |-> data[from + k]] = address
    BY <2>3
  <2>. QED BY <1>3, <2>2, <2>4, <2>5 DEF from
<1>. QED BY <1>4, <1>5 DEF n, pad, y

\* A header for an address suits a word with an address of its role.
LEMMA AddressSuits ==
  ASSUME NEW blob \in Seq(Nat), NEW data \in Seq(Nat), NEW sender, NEW members,
         NEW matched, matched = MatchLoop(blob, data, sender, members),
         NEW address \in [1..AddressLength -> Nat], NEW type \in {SELF, FROM_LIST},
         address \in (IF type = SELF THEN {sender} ELSE members)
  PROVE  Suits(<<Header(type, WordLength)>>, Zeros(WordLength - AddressLength) \o address, blob, data, matched)
<1> DEFINE x == <<Header(type, WordLength)>>
           y == Zeros(WordLength - AddressLength) \o address
<1>1. WordLength \in 1..MaxSpan /\ WordLength \in AddressSpans /\ type \in Nat /\ type # EXACT /\ SELF # FROM_LIST
  BY DirectivesAssumption DEF AddressSpans, SELF, FROM_LIST, EXACT
<1>2. x \in Seq(Nat) /\ Len(x) = 1 /\ x[1] = Header(type, WordLength)
  BY <1>1, HeaderSays
<1>3. \A k \in 1..Len(x) : TypeOf(x[k]) # EXACT
  BY <1>1, <1>2, HeaderSays
<1>4. /\ y \in Seq(Nat) /\ Len(y) = WordLength
      /\ \A p \in Nat : Holds(data, p, y) => Bytes(data, p + WordLength - AddressLength, AddressLength) = address
  BY PaddedAddress
<1>. HIDE DEF x, y
<1>5. ASSUME NEW b \in Nat, NEW p \in Nat, Holds(blob, b, x), Holds(data, p, y)
      PROVE  Leads(matched, b, p, b + Len(x), p + Len(y))
  <2>1. b < Len(blob) /\ blob[b + 1] = Header(type, WordLength)
    BY <1>2, <1>5 DEF Holds
  <2>2. p + WordLength <= Len(data) /\ p <= Len(data)
    BY <1>1, <1>4, <1>5 DEF Holds
  <2>3. Bytes(data, p + WordLength - AddressLength, AddressLength) = address
    BY <1>4, <1>5
  <2>4. CASE type = SELF
    <3>1. Bytes(data, p + WordLength - AddressLength, AddressLength) = sender
      BY <2>3, <2>4
    <3>2. Leads(matched, b, p, b + 1, p + WordLength)
      BY <1>1, <2>1, <2>2, <2>4, <3>1, FoundSelf
    <3>. QED BY <1>2, <1>4, <3>2
  <2>5. CASE type = FROM_LIST
    <3>1. Bytes(data, p + WordLength - AddressLength, AddressLength) \in members
      BY <1>1, <2>3, <2>5
    <3>2. Leads(matched, b, p, b + 1, p + WordLength)
      BY <1>1, <2>1, <2>2, <2>5, <3>1, FoundMember
    <3>. QED BY <1>2, <1>4, <3>2
  <2>. QED BY <2>4, <2>5
<1>6. Suits(x, y, blob, data, matched)
  BY <1>2, <1>3, <1>4, <1>5 DEF Suits
<1>. QED BY <1>6 DEF x, y

\* A word for each tag.
LEMMA WordType ==
  ASSUME NEW sender \in [1..AddressLength -> Nat], NEW member \in [1..AddressLength -> Nat],
         NEW tag \in {"any", "self", "list"}
  PROVE  Word(sender, member)[tag] \in Seq(Nat) /\ Len(Word(sender, member)[tag]) = WordLength
<1>1. CASE tag = "any"
  <2>1. Word(sender, member)[tag] = [i \in 1..WordLength |-> 1]
    BY <1>1 DEF Word
  <2>2. WordLength \in Nat
    BY DirectivesAssumption
  <2>. QED BY <2>1, <2>2
<1>2. CASE tag = "self"
  <2>1. Word(sender, member)[tag] = Zeros(WordLength - AddressLength) \o sender
    BY <1>2 DEF Word
  <2>. QED BY <2>1, PaddedAddress
<1>3. CASE tag = "list"
  <2>1. Word(sender, member)[tag] = Zeros(WordLength - AddressLength) \o member
    BY <1>3 DEF Word
  <2>. QED BY <2>1, PaddedAddress
<1>. QED BY <1>1, <1>2, <1>3

\* The span of a word does not reach into the type.
LEMMA WordSpan ==
  /\ SpillingHeader(SELF, WordLength) = Header(SELF, WordLength)
  /\ SpillingHeader(FROM_LIST, WordLength) = Header(FROM_LIST, WordLength)
<1>1. WordLength - 1 \in Nat /\ WordLength - 1 < MaxSpan /\ MaxSpan \in Nat \ {0}
  BY DirectivesAssumption
<1>2. (WordLength - 1) \div MaxSpan = 0
  BY <1>1
<1>3. Or(SELF, 0) = SELF /\ Or(FROM_LIST, 0) = FROM_LIST
  BY DEF Or, SELF, FROM_LIST
<1>. QED BY <1>2, <1>3 DEF SpillingHeader, Header

\* What is emitted for a word suits it.
LEMMA EmittedSuits ==
  ASSUME NEW blob \in Seq(Nat), NEW data \in Seq(Nat), NEW sender \in [1..AddressLength -> Nat], NEW members,
         NEW matched, matched = MatchLoop(blob, data, sender, members),
         NEW member \in [1..AddressLength -> Nat], member \in members,
         NEW tag \in {"any", "self", "list"}
  PROVE  Suits(Emit(1, tag), Word(sender, member)[tag], blob, data, matched)
<1>1. WordLength \in Nat /\ 1 * WordLength = WordLength
  BY DirectivesAssumption
<1>2. CASE tag = "any"
  <2>1. Emit(1, tag) = WildcardWords(1)
    BY <1>2 DEF Emit
  <2>2. Word(sender, member)[tag] \in Seq(Nat) /\ Len(Word(sender, member)[tag]) = 1 * WordLength
    BY <1>1, WordType
  <2>. QED BY <2>1, <2>2, WordsSuit
<1>3. CASE tag = "self"
  <2>1. Emit(1, tag) = <<Header(SELF, WordLength)>>
    BY <1>1, <1>3, WordSpan DEF Emit
  <2>2. Word(sender, member)[tag] = Zeros(WordLength - AddressLength) \o sender
    BY <1>3 DEF Word
  <2>3. Suits(<<Header(SELF, WordLength)>>, Zeros(WordLength - AddressLength) \o sender, blob, data, matched)
    BY AddressSuits
  <2>. QED BY <2>1, <2>2, <2>3
<1>4. CASE tag = "list"
  <2>1. Emit(1, tag) = <<Header(FROM_LIST, WordLength)>>
    BY <1>1, <1>4, WordSpan DEF Emit
  <2>2. Word(sender, member)[tag] = Zeros(WordLength - AddressLength) \o member
    BY <1>4 DEF Word
  <2>3. Suits(<<Header(FROM_LIST, WordLength)>>, Zeros(WordLength - AddressLength) \o member, blob, data, matched)
    <3>1. SELF # FROM_LIST
      BY DEF SELF, FROM_LIST
    <3>. QED BY <3>1, AddressSuits
  <2>. QED BY <2>1, <2>2, <2>3
<1>. QED BY <1>2, <1>3, <1>4

\* A sequence several times over.
LEMMA RepeatedLength ==
  ASSUME NEW w \in Seq(Nat), NEW n \in Nat
  PROVE  LET flat == FlattenSeq([k \in 1..n |-> w])
         IN  flat \in Seq(Nat) /\ Len(flat) = n * Len(w) /\ (n = 1 => flat = w)
<1> DEFINE ws == [k \in 1..n |-> w]
<1>1. ws \in Seq(Seq(Nat)) /\ Len(ws) = n /\ \A k \in 1..n : ws[k] = w
  OBVIOUS
<1>. HIDE DEF ws
<1>2. PICK p : IsFlattening(Nat, ws, p)
  BY <1>1, FlatteningExists
<1>3. FlattenSeq(ws) = p[n] /\ FlattenSeq(ws) \in Seq(Nat)
  BY <1>1, <1>2, FlattenSeqIs
<1>4. p[0] = <<>> /\ \A k \in 1..n : p[k - 1] \in Seq(Nat) /\ p[k] = p[k - 1] \o w
  <2>1. p \in [0..n -> Seq(Nat)] /\ p[0] = <<>> /\ \A k \in 1..n : p[k] = p[k - 1] \o ws[k]
    BY <1>1, <1>2 DEF IsFlattening
  <2>2. \A k \in 1..n : k - 1 \in 0..n
    OBVIOUS
  <2>3. \A k \in 1..n : p[k - 1] \in Seq(Nat)
    BY <2>1, <2>2
  <2>. QED BY <1>1, <2>1, <2>3
<1>. DEFINE Times(k) == k * Len(w)
            S == {k \in Nat : k <= n => Len(p[k]) = Times(k)}
<1>5. Len(w) \in Nat
  OBVIOUS
<1>6. 0 \in S
  BY <1>4, <1>5
<1>7. ASSUME NEW k \in Nat, k \in S, k < n
      PROVE  k + 1 \in S
  <2>1. k + 1 \in 1..n /\ (k + 1) - 1 = k
    BY <1>7
  <2>2. p[k] \in Seq(Nat) /\ p[k + 1] = p[k] \o w
    BY <1>4, <2>1
  <2>3. Len(p[k]) = Times(k) /\ Len(p[k] \o w) = Len(p[k]) + Len(w)
    BY <1>7, <2>2
  <2>4. Times(k + 1) = Times(k) + Len(w)
    BY <1>5
  <2>. HIDE DEF Times
  <2>. QED BY <2>2, <2>3, <2>4
<1>8. n \in S
  <2>1. S \in SUBSET Nat
    OBVIOUS
  <2>. HIDE DEF S
  <2>2. \A k \in 0..n : k \in S
    BY <1>6, <1>7, <2>1, SetInduction
  <2>. QED BY <2>2
<1>9. n = 1 => FlattenSeq(ws) = w
  <2>1. n = 1 => p[1] = p[1 - 1] \o w /\ p[1 - 1] = <<>>
    BY <1>4
  <2>2. <<>> \o w = w
    OBVIOUS
  <2>. QED BY <1>3, <2>1, <2>2
<1>. QED BY <1>3, <1>8, <1>9 DEF ws

\* What is emitted for an array suits its words.
LEMMA ArraySuits ==
  ASSUME NEW blob \in Seq(Nat), NEW data \in Seq(Nat), NEW sender \in [1..AddressLength -> Nat], NEW members,
         NEW matched, matched = MatchLoop(blob, data, sender, members),
         NEW member \in [1..AddressLength -> Nat], member \in members,
         NEW tag \in {"any", "self", "list"}, NEW n \in Nat, tag # "any" => n = 1
  PROVE  Suits(Emit(n, tag), FlattenSeq([k \in 1..n |-> Word(sender, member)[tag]]), blob, data, matched)
<1> DEFINE w == Word(sender, member)[tag]
           flat == FlattenSeq([k \in 1..n |-> w])
<1>1. w \in Seq(Nat) /\ Len(w) = WordLength
  BY WordType
<1>2. Suits(Emit(1, tag), w, blob, data, matched)
  BY EmittedSuits
<1>. HIDE DEF w
<1>3. flat \in Seq(Nat) /\ Len(flat) = n * Len(w) /\ (n = 1 => flat = w)
  BY <1>1, RepeatedLength
<1>. HIDE DEF flat
<1>4. CASE tag = "any"
  <2>1. Emit(n, tag) = WildcardWords(n)
    BY <1>4 DEF Emit
  <2>2. Suits(WildcardWords(n), flat, blob, data, matched)
    BY <1>1, <1>3, WordsSuit
  <2>. QED BY <2>1, <2>2 DEF flat, w
<1>5. CASE tag # "any"
  <2>1. Suits(Emit(n, tag), flat, blob, data, matched)
    BY <1>2, <1>3, <1>5
  <2>. QED BY <2>1 DEF flat, w
<1>. QED BY <1>4, <1>5

\* What processInput emits for a supported input suits its words.
LEMMA InputSuits ==
  ASSUME NEW blob \in Seq(Nat), NEW data \in Seq(Nat), NEW sender \in [1..AddressLength -> Nat], NEW members,
         NEW matched, matched = MatchLoop(blob, data, sender, members),
         NEW member \in [1..AddressLength -> Nat], member \in members
  PROVE  \A v \in Inputs :
           Supported[v] => Suits(ProcessInput[v], WordsOf(Word(sender, member))[v], blob, data, matched)
<1> DEFINE word == Word(sender, member)
           of == WordsOf(word)
           S == {v \in Inputs : Supported[v] => Suits(ProcessInput[v], of[v], blob, data, matched)}
<1>0. \A tag \in {"any", "self", "list"} :
        /\ Suits(Emit(1, tag), word[tag], blob, data, matched)
        /\ \A n \in Nat : (tag # "any" => n = 1)
             => Suits(Emit(n, tag), FlattenSeq([k \in 1..n |-> word[tag]]), blob, data, matched)
  BY EmittedSuits, ArraySuits
<1>1. ASSUME NEW v \in Inputs, \A i \in DOMAIN v.items : v.items[i] \in S, Supported[v]
      PROVE  Suits(ProcessInput[v], of[v], blob, data, matched)
  <2>. DEFINE xs == ItemsOf(ProcessInput, v)
              ys == ItemsOf(of, v)
              n == Len(v.items)
              m == LastDim(v)
  <2>1. /\ v.type \in {"word", "bytes", "tuple"} /\ v.tag \in {"any", "self", "list"}
        /\ m \in Nat
        /\ v.items \in Seq(Inputs) /\ n \in Nat /\ DOMAIN v.items = 1..n
    BY KindsOfInputs
  <2>2. ProcessInput[v] = Made("directives", <<>>, xs, v) /\ of[v] = Made("words", word, ys, v)
    BY ProcessInputMade, WordsOfMade
  <2>. HIDE DEF of, word
  <2>3. CASE IsDynamic[v]
    <3>1. v.tag = "any" /\ (LastDim(v) = 0 \/ (v.type = "bytes" /\ v.dims = <<>>))
      BY <1>1, <2>3, SupportedInputs
    <3>2. of[v] = word["any"]
      BY <2>2, <2>3 DEF Made
    <3>3. ProcessInput[v] = Emit(1, "any")
      <4>1. ProcessInput[v] = IF v.type = "tuple" /\ LastDim(v) # 0
                                THEN FlattenSeq([k \in 1..LastDim(v) |-> FlattenSeq(xs)])
                                ELSE Emit(IF LastDim(v) = 0 THEN 1 ELSE LastDim(v), v.tag)
        BY <2>2 DEF Made
      <4>2. v.dims = <<>> => LastDim(v) = 1
        BY DEF LastDim
      <4>. QED BY <3>1, <4>1, <4>2
    <3>. QED BY <1>0, <3>2, <3>3
  <2>4. CASE ~IsDynamic[v] /\ v.type # "tuple"
    <3>1. m # 0 /\ m = Elements(v.dims) /\ (v.tag # "any" => m = 1)
      BY <1>1, <2>4, FixedInputs, SupportedInputs
    <3>2. ProcessInput[v] = Emit(m, v.tag)
      BY <2>2, <2>4, <3>1 DEF Made
    <3>3. of[v] = FlattenSeq([k \in 1..m |-> word[v.tag]])
      <4>1. of[v] = FlattenSeq([k \in 1..Elements(v.dims) |-> word[v.tag]])
        BY <2>2, <2>4 DEF Made
      <4>. QED BY <3>1, <4>1
    <3>. HIDE DEF m
    <3>. QED BY <1>0, <2>1, <3>1, <3>2, <3>3
  <2>5. CASE ~IsDynamic[v] /\ v.type = "tuple"
    <3>1. m # 0 /\ m = Elements(v.dims) /\ \A i \in DOMAIN v.items : Supported[v.items[i]]
      BY <1>1, <2>5, FixedInputs, SupportedInputs
    <3>2. \A i \in 1..n : Suits(ProcessInput[v.items[i]], of[v.items[i]], blob, data, matched)
      BY <1>1, <2>1, <3>1
    <3>3. xs \in Seq(Seq(Nat)) /\ ys \in Seq(Seq(Nat)) /\ Len(xs) = n /\ Len(ys) = n
      <4>1. \A i \in DOMAIN v.items : ProcessInput[v.items[i]] \in Seq(Nat) /\ of[v.items[i]] \in Seq(Nat)
        BY <2>1, <3>2 DEF Suits
      <4>2. \A f, T : (\A i \in DOMAIN v.items : f[v.items[i]] \in T) =>
                        ItemsOf(f, v) \in Seq(T) /\ Len(ItemsOf(f, v)) = n
        BY <2>1 DEF ItemsOf
      <4>. QED BY <4>1, <4>2, Zenon
    <3>4. \A i \in 1..n : Suits(xs[i], ys[i], blob, data, matched)
      BY <2>1, <3>2 DEF ItemsOf
    <3>. HIDE DEF xs, ys, n
    <3>. DEFINE x == FlattenSeq(xs)
                y == FlattenSeq(ys)
    <3>5. Suits(x, y, blob, data, matched)
      <4>1. n \in Nat
        BY <2>1
      <4>. QED BY <3>3, <3>4, <4>1, SuitsFlattened
    <3>6. ProcessInput[v] = FlattenSeq([k \in 1..m |-> x])
      BY <2>2, <2>5, <3>1 DEF Made
    <3>7. of[v] = FlattenSeq([k \in 1..m |-> y])
      <4>1. of[v] = FlattenSeq([k \in 1..Elements(v.dims) |-> y])
        BY <2>2, <2>5 DEF Made
      <4>. QED BY <3>1, <4>1
    <3>8. x \in Seq(Nat) /\ y \in Seq(Nat) /\ m \in Nat
      BY <2>1, <3>5 DEF Suits
    <3>. HIDE DEF x, y, m
    <3>9. \A T : \A z \in T : [k \in 1..m |-> z] \in Seq(T) /\ Len([k \in 1..m |-> z]) = m
      BY <3>8
    <3>. DEFINE us == [k \in 1..m |-> x]
                ws == [k \in 1..m |-> y]
    <3>10. us \in Seq(Seq(Nat)) /\ ws \in Seq(Seq(Nat)) /\ Len(us) = m /\ Len(ws) = m
      BY <3>8, <3>9, Zenon
    <3>11. \A k \in 1..m : us[k] = x /\ ws[k] = y
      OBVIOUS
    <3>. HIDE DEF us, ws
    <3>12. Suits(FlattenSeq(us), FlattenSeq(ws), blob, data, matched)
      BY <3>5, <3>8, <3>10, <3>11, SuitsFlattened
    <3>. QED BY <3>6, <3>7, <3>12 DEF us, ws
  <2>. QED BY <2>3, <2>4, <2>5
<1>2. \A v \in Inputs : (\A i \in DOMAIN v.items : v.items[i] \in S) => v \in S
  BY <1>1
<1>. HIDE DEF S
<1>3. \A v \in Inputs : v \in S
  BY <1>2, InputsMakeTree, TreeInduction
<1>. QED BY <1>3 DEF S

-----------------------------------------------------------------------------
(* The last pass                                                           *)

\* The last pass of main runs the rounds of CompressRound.
LEMMA CompressLoopRounds ==
  ASSUME NEW directives \in Seq(Nat), NEW b \in Nat, NEW words \in Nat
  PROVE  CompressLoop(directives)[b][words]
           = CompressRound(CompressLoop(directives), directives, b, words)
<1> DEFINE Byte == Nat \cup {directives[k] : k \in Nat}
           V == Seq(Byte)
           W == [Nat -> V]
           R(f, c, q) == CompressRound(f, directives, c, q)
           Round == [f \in [Nat -> W] |-> [c \in Nat |-> [q \in Nat |-> R(f, c, q)]]]
           Solves(f) == f = [c \in Nat |-> [q \in Nat |-> R(f, c, q)]]
           Field(c) == (directives[c + 1] % (2 * MaxSpan)) + 1
<1>0. ASSUME NEW c \in Nat, c < Len(directives), NEW q \in Nat
      PROVE  /\ Field(c) \in Nat \ {0} /\ c + 1 \in Nat /\ c + 1 > c
             /\ c + 1 + Field(c) \in Nat /\ c + 1 + Field(c) > c /\ q + Field(c) \in Nat
  <2>1. directives[c + 1] \in Nat /\ 2 * MaxSpan \in Nat \ {0}
    BY <1>0, DirectivesAssumption
  <2>2. directives[c + 1] % (2 * MaxSpan) \in Nat
    BY <2>1
  <2>. QED BY <2>2
<1>1. ASSUME NEW f \in [Nat -> W], NEW c \in Nat, NEW q \in Nat
      PROVE  R(f, c, q) \in V
  <2>. DEFINE h == directives[c + 1]
  <2>0. WildcardWords(q) \in V
    <3>. DEFINE w == WildcardWords(q)
    <3>1. w \in Seq(Nat) /\ Nat \subseteq Byte
      BY WordsType
    <3>. HIDE DEF w, Byte
    <3>2. w \in Seq(Byte)
      BY <3>1
    <3>. QED BY <3>2 DEF w
  <2>1. CASE c >= Len(directives)
    BY <2>0, <2>1 DEF CompressRound
  <2>2. CASE c < Len(directives)
    <3>. DEFINE n == Field(c)
    <3>1. n \in Nat \ {0} /\ c + 1 \in Nat /\ c + 1 + n \in Nat /\ q + n \in Nat
      BY <1>0, <2>2
    <3>2. R(f, c, q) = CASE TypeOf(h) = WILDCARD_WORDS -> f[c + 1][q + n]
                         [] TypeOf(h) = EXACT ->
                              WildcardWords(q) \o Bytes(directives, c, 1 + n) \o f[c + 1 + n][0]
                         [] OTHER -> WildcardWords(q) \o <<h>> \o f[c + 1][0]
      BY <2>2 DEF CompressRound
    <3>. HIDE DEF n, R
    <3>3. f[c + 1][q + n] \in V /\ f[c + 1][0] \in V /\ f[c + 1 + n][0] \in V
      <4>. HIDE DEF V
      <4>. QED BY <3>1
    <3>4. Bytes(directives, c, 1 + n) \in V
      <4>1. \A k \in 1..(1 + n) : c + k \in Nat /\ directives[c + k] \in Byte
        BY <3>1
      <4>2. SubSeq(directives, c + 1, c + (1 + n)) = [k \in 1..(1 + n) |-> directives[c + k]]
        BY <3>1
      <4>. DEFINE m == 1 + n
                  byte(k) == directives[c + k]
      <4>4. m \in Nat /\ \A k \in 1..m : byte(k) \in Byte
        BY <3>1, <4>1
      <4>. HIDE DEF Byte, m, byte
      <4>5. [k \in 1..m |-> byte(k)] \in V
        BY <4>4
      <4>3. [k \in 1..(1 + n) |-> directives[c + k]] \in V
        BY <4>5 DEF m, byte
      <4>. QED BY <4>2, <4>3 DEF Bytes
    <3>5. <<h>> \in V
      <4>1. h \in Byte
        BY <3>1
      <4>. HIDE DEF Byte, h
      <4>. QED BY <4>1
    <3>. HIDE DEF h, Byte
    <3>6. /\ WildcardWords(q) \o Bytes(directives, c, 1 + n) \o f[c + 1 + n][0] \in V
          /\ WildcardWords(q) \o <<h>> \o f[c + 1][0] \in V
      BY <2>0, <3>3, <3>4, <3>5
    <3>. HIDE DEF V
    <3>. QED BY <3>2, <3>3, <3>6
  <2>. QED BY <2>1, <2>2
<1>2. ASSUME NEW f \in [Nat -> W], NEW g \in [Nat -> W], NEW c \in Nat,
             c < Len(directives) => \A d \in Nat : d > c => f[d] = g[d], NEW q \in Nat
      PROVE  R(f, c, q) = R(g, c, q)
  <2>1. CASE c < Len(directives)
    <3>1. f[c + 1] = g[c + 1] /\ f[c + 1 + Field(c)] = g[c + 1 + Field(c)]
      <4>. HIDE DEF Field
      <4>. QED BY <1>0, <1>2, <2>1
    <3>. QED BY <3>1 DEF CompressRound
  <2>2. CASE c >= Len(directives)
    BY <2>2 DEF CompressRound
  <2>. QED BY <2>1, <2>2
<1>3. Round \in [[Nat -> W] -> [Nat -> W]]
  <2>. HIDE DEF R, V
  <2>. QED BY <1>1
<1>4. CountsLater(Round, V, Len(directives))
  <2>. HIDE DEF R
  <2>1. \A f \in [Nat -> W], c \in Nat, q \in Nat : Round[f][c][q] = R(f, c, q)
    OBVIOUS
  <2>2. ASSUME NEW f \in [Nat -> W], NEW g \in [Nat -> W], NEW c \in Nat, NEW q \in Nat,
               c < Len(directives) => \A d \in Nat : d > c => f[d] = g[d]
        PROVE  Round[f][c][q] = Round[g][c][q]
    <3>1. R(f, c, q) = R(g, c, q)
      BY <1>2, <2>2
    <3>2. Round[f][c][q] = R(f, c, q) /\ Round[g][c][q] = R(g, c, q)
      BY <2>1
    <3>. QED BY <3>1, <3>2, Zenon
  <2>. HIDE DEF Round
  <2>. QED BY <2>2 DEF CountsLater
<1>5. Len(directives) \in Nat /\ V # {}
  <2>. HIDE DEF Byte
  <2>1. <<>> \in V
    OBVIOUS
  <2>2. Len(directives) \in Nat
    OBVIOUS
  <2>. HIDE DEF V
  <2>. QED BY <2>1, <2>2
<1>6. \E f \in [Nat -> [Nat -> V]] : f = Round[f]
  <2>. HIDE DEF Round, V
  <2>. QED BY <1>3, <1>4, <1>5, CountingLoopHasSolution
<1>7. \E f : Solves(f)
  <2>. HIDE DEF R
  <2>. QED BY <1>6
<1>. DEFINE loop == CompressLoop(directives)
<1>8. loop = CHOOSE f : Solves(f)
  BY DEF CompressLoop
<1>9. Solves(loop)
  <2>. HIDE DEF Solves, loop
  <2>. QED BY <1>7, <1>8
<1>10. loop[b] = [q \in Nat |-> R(loop, b, q)]
  <2>. HIDE DEF loop, R
  <2>. QED BY <1>9
<1>. QED BY <1>10, Zenon

\* The pass reads the spans of wildcards over words as Guard2 does.
LEMMA WildcardField ==
  ASSUME NEW h \in Nat, TypeOf(h) = WILDCARD_WORDS
  PROVE  (h % (2 * MaxSpan)) + 1 = SpanOf(h) /\ SpanOf(h) \in Nat
<1>1. MaxSpan \in Nat \ {0}
  BY DirectivesAssumption
<1>2. h \div MaxSpan = 0
  BY DEF TypeOf, WILDCARD_WORDS
<1>3. h < MaxSpan /\ h < 2 * MaxSpan
  BY <1>1, <1>2
<1>4. h % MaxSpan = h /\ h % (2 * MaxSpan) = h
  BY <1>1, <1>3
<1>. QED BY <1>4 DEF SpanOf

\* What the pass prints from place b on, with some words to skip before it, is
\* read by Guard2 as the directives were from there.
PrintsTheSame(directives, data, sender, members, b, words) ==
  LET printed == CompressLoop(directives)[b][words]
  IN  /\ printed \in Seq(Nat)
      /\ \A blob \in Seq(Nat), start \in Nat, p \in Nat :
           /\ Suffix(blob, start, printed)
           /\ RestMatches(directives, data, sender, members, b, p + words * WordLength)
           => RestMatches(blob, data, sender, members, start, p)

\* At the end of the directives only wildcards are left.
LEMMA EndPrintsTheSame ==
  ASSUME NEW directives \in Seq(Nat), NEW data \in Seq(Nat), NEW sender, NEW members,
         NEW b \in Nat, b >= Len(directives), NEW words \in Nat
  PROVE  PrintsTheSame(directives, data, sender, members, b, words)
<1> DEFINE printed == CompressLoop(directives)[b][words]
           skips == WildcardWords(words)
<1>1. printed = skips
  <2>1. printed = CompressRound(CompressLoop(directives), directives, b, words)
    BY CompressLoopRounds
  <2>. QED BY <2>1 DEF CompressRound
<1>2. skips \in Seq(Nat)
  BY WordsType
<1>. DEFINE far == words * WordLength
<1>3. far \in Nat
  BY DirectivesAssumption
<1>4. ASSUME NEW blob \in Seq(Nat), NEW start \in Nat, NEW p \in Nat, Suffix(blob, start, skips),
             RestMatches(directives, data, sender, members, b, p + far)
      PROVE  RestMatches(blob, data, sender, members, start, p)
  <2>. DEFINE q == p + far
              read == MatchLoop(directives, data, sender, members)
              matched == MatchLoop(blob, data, sender, members)
              end == start + Len(skips)
  <2>1. q \in Nat
    BY <1>3
  <2>2. read[b][q] = MatchRound(read, directives, data, sender, members, b, q)
    <3>. HIDE DEF q
    <3>. QED BY <2>1, MatchLoopRounds
  <2>3. read[b][q] = "yes"
    BY <1>4 DEF RestMatches
  <2>. HIDE DEF read, far
  <2>4. q = Len(data)
    <3>. HIDE DEF q
    <3>. QED BY <2>1, <2>2, <2>3 DEF MatchRound
  <2>5. Holds(blob, start, skips) /\ end = Len(blob) /\ end \in Nat
    BY <1>2, <1>4 DEF Suffix
  <2>6. p + words * WordLength <= Len(data)
    BY <2>4 DEF far
  <2>7. matched[start][p] = matched[end][q]
    BY <2>5, <2>6, WordsSkipped DEF far
  <2>8. matched[end][q] = MatchRound(matched, blob, data, sender, members, end, q)
    <3>. HIDE DEF q, end
    <3>. QED BY <2>1, <2>5, MatchLoopRounds
  <2>. HIDE DEF matched, q, end
  <2>9. matched[end][q] = "yes"
    BY <2>1, <2>4, <2>5, <2>8 DEF MatchRound
  <2>. QED BY <2>7, <2>9 DEF RestMatches, matched
<1>5. printed \in Seq(Nat)
  BY <1>1, <1>2
<1>. QED BY <1>1, <1>4, <1>5, Zenon DEF PrintsTheSame, far

\* A wildcard over words is added to those before it.
LEMMA WildcardPrintsTheSame ==
  ASSUME NEW directives \in Seq(Nat), NEW data \in Seq(Nat), NEW sender, NEW members,
         NEW b \in Nat, b < Len(directives), NEW words \in Nat,
         TypeOf(directives[b + 1]) = WILDCARD_WORDS,
         \A n \in Nat : PrintsTheSame(directives, data, sender, members, b + 1, n)
  PROVE  PrintsTheSame(directives, data, sender, members, b, words)
<1> DEFINE h == directives[b + 1]
           span == SpanOf(h)
           more == words + span
           printed == CompressLoop(directives)[b][words]
           read == MatchLoop(directives, data, sender, members)
<1>1. h \in Nat
  OBVIOUS
<1>2. (h % (2 * MaxSpan)) + 1 = span /\ span \in Nat
  BY <1>1, WildcardField
<1>3. printed = CompressLoop(directives)[b + 1][more]
  <2>1. printed = CompressRound(CompressLoop(directives), directives, b, words)
    BY CompressLoopRounds
  <2>2. printed = CompressLoop(directives)[b + 1][words + ((h % (2 * MaxSpan)) + 1)]
    <3>1. ~(b >= Len(directives)) /\ TypeOf(directives[b + 1]) = WILDCARD_WORDS
      OBVIOUS
    <3>. HIDE DEF printed, h
    <3>2. CompressRound(CompressLoop(directives), directives, b, words)
            = CompressLoop(directives)[b + 1][words + ((directives[b + 1] % (2 * MaxSpan)) + 1)]
      BY <3>1 DEF CompressRound, WILDCARD_WORDS, EXACT
    <3>. QED BY <2>1, <3>2, Zenon DEF h
  <2>. QED BY <1>2, <2>2, Zenon
<1>4. WordLength \in Nat /\ words * WordLength \in Nat /\ span * WordLength \in Nat /\ more \in Nat
      /\ more * WordLength = words * WordLength + span * WordLength
  <2>1. WordLength \in Nat
    BY DirectivesAssumption
  <2>. HIDE DEF span
  <2>. QED BY <1>2, <2>1
<1>5. ASSUME NEW p \in Nat, RestMatches(directives, data, sender, members, b, p + words * WordLength)
      PROVE  RestMatches(directives, data, sender, members, b + 1, p + more * WordLength)
  <2>. DEFINE q == p + words * WordLength
  <2>1. q \in Nat
    BY <1>4
  <2>2. read[b][q] = "yes"
    BY <1>5 DEF RestMatches
  <2>3. read[b][q] = MatchRound(read, directives, data, sender, members, b, q)
    <3>. HIDE DEF q
    <3>. QED BY <2>1, MatchLoopRounds
  <2>4. p + more * WordLength = q + span * WordLength
    BY <1>4
  <2>. HIDE DEF read, q
  <2>6. ~(b >= Len(directives)) /\ TypeOf(directives[b + 1]) # ANY
    BY DEF WILDCARD_WORDS, ANY
  <2>7. ~(q > Len(data))
    BY <2>2, <2>3 DEF MatchRound
  <2>5. read[b + 1][q + span * WordLength] = "yes"
    <3>1. TypeOf(directives[b + 1]) = WILDCARD_WORDS
      OBVIOUS
    <3>2. MatchRound(read, directives, data, sender, members, b, q) = read[b + 1][q + span * WordLength]
      BY <2>6, <2>7, <3>1
         DEF MatchRound, WILDCARD_WORDS, ANY, WILDCARD_BYTES, EXACT, SELF, FROM_LIST, span
    <3>. QED BY <2>2, <2>3, <3>2, Zenon
  <2>. QED BY <2>4, <2>5 DEF RestMatches, read
<1>. HIDE DEF more
<1>6. PrintsTheSame(directives, data, sender, members, b + 1, more)
  BY <1>4
<1>. QED BY <1>3, <1>5, <1>6, Zenon DEF PrintsTheSame

\* Any other header is copied, but for those of exact matches.
LEMMA CopyPrintsTheSame ==
  ASSUME NEW directives \in Seq(Nat), NEW data \in Seq(Nat), NEW sender, NEW members,
         NEW b \in Nat, b < Len(directives), NEW words \in Nat,
         TypeOf(directives[b + 1]) \notin {WILDCARD_WORDS, EXACT},
         PrintsTheSame(directives, data, sender, members, b + 1, 0)
  PROVE  PrintsTheSame(directives, data, sender, members, b, words)
<1> USE DEF WILDCARD_WORDS, WILDCARD_BYTES, ANY, SELF, FROM_LIST, EXACT
<1> DEFINE h == directives[b + 1]
           span == SpanOf(h)
           skips == WildcardWords(words)
           rest == CompressLoop(directives)[b + 1][0]
           printed == CompressLoop(directives)[b][words]
           read == MatchLoop(directives, data, sender, members)
           far == words * WordLength
<1>1. h \in Nat /\ span \in Nat
  <2>1. h \in Nat
    OBVIOUS
  <2>2. span \in 1..MaxSpan
    BY <2>1, HeaderParts
  <2>3. MaxSpan \in Nat
    BY DirectivesAssumption
  <2>. HIDE DEF span, h
  <2>. QED BY <2>1, <2>2, <2>3
<1>2. printed = skips \o <<h>> \o rest
  <2>1. printed = CompressRound(CompressLoop(directives), directives, b, words)
    BY CompressLoopRounds
  <2>2. ~(b >= Len(directives)) /\ TypeOf(directives[b + 1]) # WILDCARD_WORDS /\ TypeOf(directives[b + 1]) # EXACT
    OBVIOUS
  <2>. HIDE DEF printed
  <2>. QED BY <2>1, <2>2 DEF CompressRound
<1>3. skips \in Seq(Nat) /\ rest \in Seq(Nat) /\ <<h>> \in Seq(Nat) /\ Len(<<h>>) = 1
  <2>1. skips \in Seq(Nat)
    BY WordsType
  <2>2. rest \in Seq(Nat)
    BY DEF PrintsTheSame
  <2>. QED BY <1>1, <2>1, <2>2
<1>4. far \in Nat
  BY DirectivesAssumption
<1>5. ASSUME NEW blob \in Seq(Nat), NEW start \in Nat, NEW p \in Nat, Suffix(blob, start, printed),
             RestMatches(directives, data, sender, members, b, p + far)
      PROVE  RestMatches(blob, data, sender, members, start, p)
  <2>. DEFINE q == p + far
              matched == MatchLoop(blob, data, sender, members)
              end == start + Len(skips)
  <2>1. q \in Nat /\ end \in Nat
    BY <1>3, <1>4
  <2>2. /\ Holds(blob, start, skips) /\ end < Len(blob) /\ blob[end + 1] = h
        /\ Suffix(blob, end + 1, rest)
    <3>. DEFINE front == skips \o <<h>>
    <3>1. front \in Seq(Nat) /\ Len(front) = Len(skips) + 1
      BY <1>3
    <3>2. Suffix(blob, start, front \o rest)
      BY <1>2, <1>5
    <3>. HIDE DEF front, rest
    <3>3. Holds(blob, start, front) /\ Suffix(blob, start + Len(front), rest)
      BY <1>3, <3>1, <3>2, HoldsParts
    <3>4. start + Len(front) = end + 1
      BY <1>3, <3>1
    <3>. HIDE DEF skips, h, end
    <3>5. Holds(blob, start, skips \o <<h>>)
      BY <3>3 DEF front
    <3>6. Holds(blob, start, skips) /\ Holds(blob, end, <<h>>)
      BY <1>3, <3>5, HoldsParts DEF end
    <3>7. end < Len(blob) /\ blob[end + 1] = h
      <4>. DEFINE one == <<h>>
      <4>1. Len(one) = 1 /\ one[1] = h
        OBVIOUS
      <4>2. Holds(blob, end, one)
        BY <3>6
      <4>. HIDE DEF one
      <4>. QED BY <2>1, <4>1, <4>2 DEF Holds
    <3>. QED BY <3>3, <3>4, <3>6, <3>7
  <2>3. read[b][q] = MatchRound(read, directives, data, sender, members, b, q)
    <3>. HIDE DEF q
    <3>. QED BY <2>1, MatchLoopRounds
  <2>4. read[b][q] = "yes"
    BY <1>5 DEF RestMatches
  <2>5. matched[end][q] = MatchRound(matched, blob, data, sender, members, end, q)
    <3>. HIDE DEF q, end
    <3>. QED BY <2>1, MatchLoopRounds
  <2>6. q <= Len(data)
    <3>. HIDE DEF read, q
    <3>. QED BY <2>1, <2>3, <2>4 DEF MatchRound
  <2>7. matched[start][p] = matched[end][q]
    <3>1. p + words * WordLength <= Len(data)
      BY <2>6
    <3>. QED BY <2>2, <3>1, WordsSkipped
  <2>8. ASSUME NEW r \in Nat, read[b + 1][r] = "yes"
        PROVE  matched[end + 1][r] = "yes"
    <3>1. r + 0 * WordLength = r /\ end + 1 \in Nat
      BY <2>1, DirectivesAssumption, SMTT(30)
    <3>2. RestMatches(directives, data, sender, members, b + 1, r + 0 * WordLength)
      BY <2>8, <3>1 DEF RestMatches
    <3>. HIDE DEF end, read, matched
    <3>3. RestMatches(blob, data, sender, members, end + 1, r)
      BY <2>2, <3>1, <3>2 DEF PrintsTheSame
    <3>. QED BY <3>3 DEF RestMatches, matched
  <2>9. matched[end][q] = "yes"
    <3>. DEFINE type == TypeOf(h)
                got == Bytes(data, q + span - AddressLength, AddressLength)
                found == /\ type \in {SELF, FROM_LIST} /\ span \in AddressSpans /\ q + span <= Len(data)
                         /\ got \in (IF type = SELF THEN {sender} ELSE members)
                goes == type = WILDCARD_BYTES \/ found
    <3>1. ~(q > Len(data)) /\ ~(b >= Len(directives)) /\ ~(end >= Len(blob)) /\ q + span \in Nat
      <4>. HIDE DEF q, end, span
      <4>. QED BY <1>1, <2>1, <2>2, <2>6, SMTT(30)
    <3>2. type \notin {WILDCARD_WORDS, EXACT}
      OBVIOUS
    <3>. HIDE DEF read, matched, q, end
    <3>3. read[b][q] = CASE type = ANY -> "yes" [] goes -> read[b + 1][q + span] [] OTHER -> "no"
      BY <2>3, <3>1, <3>2 DEF MatchRound
    <3>4. matched[end][q] = CASE type = ANY -> "yes" [] goes -> matched[end + 1][q + span] [] OTHER -> "no"
      BY <2>2, <2>5, <3>1, <3>2 DEF MatchRound
    <3>5. ~(type = ANY /\ goes)
      OBVIOUS
    <3>. HIDE DEF type, goes, span
    <3>. QED BY <2>4, <2>8, <3>1, <3>3, <3>4, <3>5
  <2>. QED BY <2>7, <2>9 DEF RestMatches
<1>6. printed \in Seq(Nat)
  BY <1>2, <1>3
<1>. HIDE DEF printed
<1>. QED BY <1>5, <1>6 DEF PrintsTheSame, printed

\* What the pass prints for directives without exact matches from some place on
\* is read as they are.
LEMMA PassPrintsTheSame ==
  ASSUME NEW directives \in Seq(Nat), NEW data \in Seq(Nat), NEW sender, NEW members, NEW from \in Nat,
         \A k \in from..(Len(directives) - 1) : TypeOf(directives[k + 1]) # EXACT
  PROVE  PrintsTheSame(directives, data, sender, members, from, 0)
<1> DEFINE Same(b, words) == PrintsTheSame(directives, data, sender, members, b, words)
           S == {b \in Nat : b >= from => \A words \in Nat : Same(b, words)}
<1>1. ASSUME NEW b \in Nat, b < Len(directives) => \A c \in Nat : c > b => c \in S, b >= from, NEW words \in Nat
      PROVE  Same(b, words)
  <2>1. CASE b >= Len(directives)
    BY <2>1, EndPrintsTheSame
  <2>2. CASE b < Len(directives)
    <3>1. b + 1 \in S /\ b + 1 >= from /\ b \in from..(Len(directives) - 1)
      <4>. HIDE DEF S
      <4>. QED BY <1>1, <2>2
    <3>2. \A n \in Nat : Same(b + 1, n)
      <4>. HIDE DEF Same
      <4>. QED BY <3>1
    <3>3. TypeOf(directives[b + 1]) # EXACT
      BY <3>1
    <3>4. CASE TypeOf(directives[b + 1]) = WILDCARD_WORDS
      BY <2>2, <3>2, <3>4, WildcardPrintsTheSame
    <3>5. CASE TypeOf(directives[b + 1]) # WILDCARD_WORDS
      <4>1. Same(b + 1, 0)
        BY <3>2
      <4>. QED BY <2>2, <3>3, <3>5, <4>1, CopyPrintsTheSame
    <3>. QED BY <3>4, <3>5
  <2>. QED BY <2>1, <2>2
<1>2. from \in S
  <2>1. S \in SUBSET Nat /\ Len(directives) \in Nat
    OBVIOUS
  <2>2. \A b \in Nat : (b < Len(directives) => \A c \in Nat : c > b => c \in S) => b \in S
    BY <1>1
  <2>. HIDE DEF S
  <2>. QED BY <2>1, <2>2, BackwardInduction
<1>. QED BY <1>2

-----------------------------------------------------------------------------
(* What is printed for a method                                            *)

\* What is emitted for all inputs, when they are supported, suits their words.
LEMMA InputsSuit ==
  ASSUME NEW blob \in Seq(Nat), NEW data \in Seq(Nat), NEW sender \in [1..AddressLength -> Nat], NEW members,
         NEW member \in [1..AddressLength -> Nat], member \in members,
         NEW inputs \in Seq(Inputs), \A i \in DOMAIN inputs : Supported[inputs[i]]
  PROVE  Suits(FlattenSeq([i \in DOMAIN inputs |-> ProcessInput[inputs[i]]]),
               FlattenSeq([i \in DOMAIN inputs |-> WordsOf(Word(sender, member))[inputs[i]]]),
               blob, data, MatchLoop(blob, data, sender, members))
<1> DEFINE matched == MatchLoop(blob, data, sender, members)
           of == WordsOf(Word(sender, member))
           xs == [i \in DOMAIN inputs |-> ProcessInput[inputs[i]]]
           ys == [i \in DOMAIN inputs |-> of[inputs[i]]]
           n == Len(inputs)
<1>1. n \in Nat /\ DOMAIN inputs = 1..n /\ \A i \in 1..n : inputs[i] \in Inputs
  OBVIOUS
<1>2. \A v \in Inputs : Supported[v] => Suits(ProcessInput[v], of[v], blob, data, matched)
  BY InputSuits
<1>. HIDE DEF of, matched
<1>3. \A i \in 1..n : Suits(ProcessInput[inputs[i]], of[inputs[i]], blob, data, matched)
  BY <1>1, <1>2
<1>4. xs \in Seq(Seq(Nat)) /\ ys \in Seq(Seq(Nat)) /\ Len(xs) = n /\ Len(ys) = n
  <2>1. \A i \in 1..n : ProcessInput[inputs[i]] \in Seq(Nat) /\ of[inputs[i]] \in Seq(Nat)
    BY <1>3 DEF Suits
  <2>2. \A f, T : (\A i \in 1..n : f[inputs[i]] \in T) =>
          [i \in DOMAIN inputs |-> f[inputs[i]]] \in Seq(T) /\ Len([i \in DOMAIN inputs |-> f[inputs[i]]]) = n
    BY <1>1
  <2>. QED BY <2>1, <2>2, Zenon
<1>5. \A i \in 1..n : Suits(xs[i], ys[i], blob, data, matched)
  BY <1>1, <1>3
<1>. HIDE DEF xs, ys, n
<1>6. Suits(FlattenSeq(xs), FlattenSeq(ys), blob, data, matched)
  BY <1>1, <1>4, <1>5, SuitsFlattened
<1>. QED BY <1>6 DEF xs, ys, of, matched

\* The bytes where a sequence stands.
LEMMA HeldBytes ==
  ASSUME NEW blob \in Seq(Nat), NEW b \in Nat, NEW s \in Seq(Nat), NEW n \in Nat, Len(s) = n, Holds(blob, b, s)
  PROVE  Bytes(blob, b, n) = s /\ b + n <= Len(blob)
<1>1. b + n <= Len(blob) /\ \A k \in 1..n : blob[b + k] = s[k]
  BY DEF Holds
<1>2. Bytes(blob, b, n) = [k \in 1..n |-> blob[b + k]]
  BY <1>1, BytesFacts
<1>3. [k \in 1..n |-> blob[b + k]] = s
  BY <1>1
<1>. QED BY <1>1, <1>2, <1>3

\* Directives that begin with a selector let a call with that selector through to
\* what follows it.
LEMMA SelectorCompared ==
  ASSUME NEW data \in Seq(Nat), NEW sender, NEW members, NEW selector \in Seq(Nat), NEW rest \in Seq(Nat),
         NEW blob, blob = <<Header(EXACT, SelectorLength)>> \o selector \o rest,
         Len(selector) = SelectorLength, Holds(data, 0, selector)
  PROVE  /\ blob \in Seq(Nat) /\ Suffix(blob, 1 + SelectorLength, rest)
         /\ RestMatches(blob, data, sender, members, 1 + SelectorLength, SelectorLength)
              => RestMatches(blob, data, sender, members, 0, 0)
<1> DEFINE n == SelectorLength
           head == <<Header(EXACT, n)>>
           front == head \o selector
           matched == MatchLoop(blob, data, sender, members)
<1>1. n \in Nat \ {0} /\ n \in 1..MaxSpan /\ EXACT \in Nat
  BY DirectivesAssumption DEF EXACT
<1>2. head \in Seq(Nat) /\ Len(head) = 1 /\ head[1] = Header(EXACT, n)
  BY <1>1, HeaderType
<1>. HIDE DEF head, n
<1>3. front \in Seq(Nat) /\ Len(front) = 1 + n
  <2>1. \A s, t \in Seq(Nat) : s \o t \in Seq(Nat) /\ Len(s \o t) = Len(s) + Len(t)
    OBVIOUS
  <2>2. front \in Seq(Nat) /\ Len(front) = Len(head) + Len(selector)
    BY <1>2, <2>1, Zenon
  <2>3. Len(selector) = n
    BY DEF n
  <2>. HIDE DEF front
  <2>. QED BY <1>2, <2>2, <2>3
<1>4. blob \in Seq(Nat) /\ blob = front \o rest
  BY <1>3 DEF head, n
<1>5. Suffix(blob, 0, blob)
  BY <1>4 DEF Suffix, Holds
<1>6. Holds(blob, 0, front) /\ Suffix(blob, 0 + Len(front), rest)
  <2>. HIDE DEF front
  <2>1. Suffix(blob, 0, front \o rest)
    BY <1>4, <1>5
  <2>. QED BY <1>3, <1>4, <2>1, HoldsParts
<1>7. Holds(blob, 0, head) /\ Holds(blob, 0 + Len(head), selector)
  BY <1>2, <1>4, <1>6, HoldsParts
<1>8. 0 + Len(front) = 1 + n /\ 0 + Len(head) = 1
  BY <1>1, <1>2, <1>3
<1>9. 0 < Len(blob) /\ blob[0 + 1] = Header(EXACT, n)
  BY <1>2, <1>4, <1>7 DEF Holds
<1>10. SameBytes(blob, 0 + 1, data, 0, n)
  <2>1. Bytes(blob, 1, n) = selector /\ 1 + n <= Len(blob)
    <3>1. Holds(blob, 1, selector)
      BY <1>7, <1>8
    <3>2. 1 \in Nat /\ n \in Nat /\ Len(selector) = n
      BY <1>1 DEF n
    <3>. QED BY <1>4, <3>1, <3>2, HeldBytes, ZenonT(60)
  <2>2. Bytes(data, 0, n) = selector /\ 0 + n <= Len(data)
    BY <1>1, HeldBytes DEF n
  <2>. QED BY <2>1, <2>2 DEF SameBytes
<1>11. matched[0][0] = matched[0 + 1 + n][0 + n]
  <2>1. matched = MatchLoop(blob, data, sender, members) /\ blob \in Seq(Nat) /\ 0 <= Len(data) /\ 0 \in Nat
    BY <1>4
  <2>. HIDE DEF matched
  <2>2. Leads(matched, 0, 0, 0 + 1 + n, 0 + n)
    BY <1>1, <1>9, <1>10, <2>1, ComparedBytes, Zenon
  <2>. QED BY <2>2 DEF Leads
<1>12. 0 + 1 + n = 1 + n /\ 0 + n = n
  BY <1>1
<1>13. Suffix(blob, 1 + n, rest)
  BY <1>6, <1>8
<1>14. RestMatches(blob, data, sender, members, 1 + n, n) => RestMatches(blob, data, sender, members, 0, 0)
  BY <1>11, <1>12 DEF RestMatches
<1>. QED BY <1>4, <1>13, <1>14 DEF n

\* The directives before the last pass and the call: what they are made of, and
\* that from their selectors on the loop gets to the end.
LEMMA DirectivesAllow ==
  ASSUME NEW m \in Methods, NEW sender \in [1..AddressLength -> Nat], NEW members,
         NEW member \in [1..AddressLength -> Nat], member \in members,
         NEW after \in Tails, \A k \in DOMAIN m.inputs : Supported[m.inputs[k]]
  PROVE  LET directives == Directives(m.selector, m.inputs)
             call == CallOf(m, sender, member, after)
             n == SelectorLength
         IN  /\ m.selector \in Seq(Nat) /\ Len(m.selector) = n
             /\ directives \in Seq(Nat) /\ call \in Seq(Nat)
             /\ Holds(directives, 0, <<Header(EXACT, n)>> \o m.selector) /\ Holds(call, 0, m.selector)
             /\ \A k \in (1 + n)..(Len(directives) - 1) : TypeOf(directives[k + 1]) # EXACT
             /\ RestMatches(directives, call, sender, members, 1 + n, n)
<1> DEFINE n == SelectorLength
           selector == m.selector
           dynamic == \E i \in DOMAIN m.inputs : IsDynamic[m.inputs[i]]
           front == <<Header(EXACT, n)>> \o selector
           x == FlattenSeq([i \in DOMAIN m.inputs |-> ProcessInput[m.inputs[i]]])
           tail == IF dynamic THEN <<Header(ANY, 1)>> ELSE <<>>
           y == FlattenSeq([i \in DOMAIN m.inputs |-> WordsOf(Word(sender, member))[m.inputs[i]]])
           more == IF dynamic THEN after ELSE <<>>
           directives == Directives(m.selector, m.inputs)
           call == CallOf(m, sender, member, after)
           matched == MatchLoop(directives, call, sender, members)
<1>1. selector \in Seq(Nat) /\ Len(selector) = n /\ n \in Nat \ {0} /\ n \in 1..MaxSpan /\ m.inputs \in Seq(Inputs)
  <2>1. m.selector \in [1..SelectorLength -> Nat] /\ m.inputs \in Seq(Inputs)
    BY MethodsAssumption
  <2>2. SelectorLength \in Nat \ {0} /\ SelectorLength \in 1..MaxSpan
    BY DirectivesAssumption
  <2>3. \A k \in Nat : \A f \in [1..k -> Nat] : f \in Seq(Nat) /\ Len(f) = k
    OBVIOUS
  <2>4. m.selector \in Seq(Nat) /\ Len(m.selector) = SelectorLength
    BY <2>1, <2>2, <2>3, Zenon
  <2>. QED BY <2>1, <2>2, <2>4
<1>2. front \in Seq(Nat) /\ Len(front) = 1 + n
  <2>. DEFINE head == <<Header(EXACT, n)>>
  <2>1. head \in Seq(Nat) /\ Len(head) = 1
    BY <1>1, HeaderType DEF EXACT
  <2>. HIDE DEF head, n, selector
  <2>2. \A s, t \in Seq(Nat) : s \o t \in Seq(Nat) /\ Len(s \o t) = Len(s) + Len(t)
    OBVIOUS
  <2>3. head \o selector \in Seq(Nat) /\ Len(head \o selector) = Len(head) + Len(selector)
    BY <1>1, <2>1, <2>2, Zenon
  <2>4. head \o selector \in Seq(Nat) /\ Len(head \o selector) = 1 + n
    BY <1>1, <2>1, <2>3
  <2>. QED BY <2>4 DEF head
<1>3. directives = front \o x \o tail /\ call = selector \o y \o more
  <2>1. \A k \in DOMAIN m.inputs : HasDynamic[m.inputs[k]] <=> IsDynamic[m.inputs[k]]
    BY <1>1, DynamicNoticed
  <2>2. dynamic <=> \E k \in DOMAIN m.inputs : HasDynamic[m.inputs[k]]
    BY <2>1
  <2>. HIDE DEF dynamic
  <2>3. directives = front \o x \o tail
    BY <2>2 DEF Directives
  <2>4. call = selector \o y \o more
    BY DEF CallOf, dynamic
  <2>. QED BY <2>3, <2>4
<1>4. ASSUME NEW blob \in Seq(Nat), NEW data \in Seq(Nat)
      PROVE  Suits(x, y, blob, data, MatchLoop(blob, data, sender, members))
  BY <1>1, InputsSuit
<1>5. x \in Seq(Nat) /\ y \in Seq(Nat) /\ \A k \in 1..Len(x) : TypeOf(x[k]) # EXACT
  <2>. HIDE DEF x, y
  <2>1. <<>> \in Seq(Nat)
    OBVIOUS
  <2>2. Suits(x, y, <<>>, <<>>, MatchLoop(<<>>, <<>>, sender, members))
    BY <1>4, <2>1, Zenon
  <2>. QED BY <2>2 DEF Suits
<1>6. /\ tail \in Seq(Nat) /\ more \in Seq(Nat)
      /\ IF dynamic THEN Len(tail) = 1 /\ tail[1] = Header(ANY, 1) /\ TypeOf(tail[1]) = ANY
                    ELSE Len(tail) = 0 /\ Len(more) = 0
  <2>1. 1 \in 1..MaxSpan /\ ANY \in Nat
    BY DirectivesAssumption DEF ANY
  <2>2. Header(ANY, 1) \in Nat /\ TypeOf(Header(ANY, 1)) = ANY
    BY <2>1, HeaderSays
  <2>3. after \in Seq(Nat)
    BY MethodsAssumption
  <2>. HIDE DEF dynamic
  <2>. QED BY <2>2, <2>3
<1>. HIDE DEF front, x, y, tail, more, directives, call, dynamic, n, selector
<1>7. front \o x \in Seq(Nat) /\ selector \o y \in Seq(Nat) /\ directives \in Seq(Nat) /\ call \in Seq(Nat)
  BY <1>1, <1>2, <1>3, <1>5, <1>6
<1>8. /\ Len(front \o x) = (1 + n) + Len(x) /\ Len(selector \o y) = n + Len(y)
      /\ Len(x) \in Nat /\ Len(y) \in Nat /\ 1 + n \in Nat /\ n \in Nat
  <2>1. \A s, t \in Seq(Nat) : Len(s \o t) = Len(s) + Len(t)
    OBVIOUS
  <2>2. Len(front \o x) = Len(front) + Len(x) /\ Len(selector \o y) = Len(selector) + Len(y)
    BY <1>1, <1>2, <1>5, <2>1, Zenon
  <2>3. Len(x) \in Nat /\ Len(y) \in Nat
    BY <1>5
  <2>. QED BY <1>1, <1>2, <2>2, <2>3
<1>. DEFINE b == (1 + n) + Len(x)
            p == n + Len(y)
<1>9. Suffix(directives, 0, front \o x \o tail) /\ Suffix(call, 0, selector \o y \o more)
  <2>1. \A s \in Seq(Nat) : Suffix(s, 0, s)
    BY DEF Suffix, Holds
  <2>2. Suffix(directives, 0, directives) /\ Suffix(call, 0, call)
    BY <1>7, <2>1, Zenon
  <2>. QED BY <1>3, <2>2, Zenon
<1>10. Holds(directives, 0, front \o x) /\ Suffix(directives, 0 + Len(front \o x), tail)
  <2>. DEFINE z == front \o x
  <2>. HIDE DEF z
  <2>1. Suffix(directives, 0, z \o tail) /\ z \in Seq(Nat)
    BY <1>7, <1>9 DEF z
  <2>2. Holds(directives, 0, z) /\ Suffix(directives, 0 + Len(z), tail)
    BY <1>6, <1>7, <2>1, HoldsParts
  <2>. QED BY <2>2 DEF z
<1>11. Holds(call, 0, selector \o y) /\ Suffix(call, 0 + Len(selector \o y), more)
  <2>. DEFINE z == selector \o y
  <2>. HIDE DEF z
  <2>1. Suffix(call, 0, z \o more) /\ z \in Seq(Nat)
    BY <1>7, <1>9 DEF z
  <2>2. Holds(call, 0, z) /\ Suffix(call, 0 + Len(z), more)
    BY <1>6, <1>7, <2>1, HoldsParts
  <2>. QED BY <2>2 DEF z
<1>12. b \in Nat /\ p \in Nat /\ 0 + Len(front \o x) = b /\ 0 + Len(selector \o y) = p
  BY <1>8
<1>13. Holds(directives, 0, front) /\ Holds(directives, 0 + Len(front), x)
  BY <1>2, <1>5, <1>7, <1>10, HoldsParts
<1>14. Holds(call, 0, selector) /\ Holds(call, 0 + Len(selector), y)
  BY <1>1, <1>5, <1>7, <1>11, HoldsParts
<1>15. Holds(directives, 1 + n, x) /\ Holds(call, n, y)
  <2>1. 0 + Len(front) = 1 + n /\ 0 + Len(selector) = n
    BY <1>1, <1>2, <1>8
  <2>. QED BY <1>13, <1>14, <2>1
<1>16. matched[1 + n][n] = matched[b][p]
  <2>1. Suits(x, y, directives, call, matched)
    BY <1>4, <1>7
  <2>2. Leads(matched, 1 + n, n, (1 + n) + Len(x), n + Len(y))
    BY <1>8, <1>15, <2>1 DEF Suits
  <2>. QED BY <2>2 DEF Leads
<1>17. matched[b][p] = MatchRound(matched, directives, call, sender, members, b, p)
  <2>. HIDE DEF b, p
  <2>. QED BY <1>7, <1>12, MatchLoopRounds
<1>18. Suffix(directives, b, tail) /\ Suffix(call, p, more)
  BY <1>10, <1>11, <1>12
<1>. HIDE DEF b, p, matched
<1>19. b + Len(tail) = Len(directives) /\ p + Len(more) = Len(call) /\ Len(more) \in Nat
       /\ \A k \in 1..Len(tail) : directives[b + k] = tail[k]
  BY <1>6, <1>18 DEF Suffix, Holds
<1>20. matched[b][p] = "yes"
  <2>1. CASE dynamic
    <3>1. Len(tail) = 1 /\ TypeOf(tail[1]) = ANY
      BY <1>6, <2>1
    <3>2. b < Len(directives) /\ p <= Len(call)
      BY <1>12, <1>19, <3>1
    <3>3. directives[b + 1] = tail[1]
      BY <1>19, <3>1
    <3>4. TypeOf(directives[b + 1]) = ANY
      BY <3>1, <3>3
    <3>5. ~(p > Len(call)) /\ ~(b >= Len(directives))
      BY <1>7, <1>12, <3>2
    <3>. QED BY <1>17, <3>4, <3>5 DEF MatchRound, ANY, WILDCARD_WORDS, WILDCARD_BYTES, EXACT, SELF, FROM_LIST
  <2>2. CASE ~dynamic
    <3>1. b = Len(directives) /\ p = Len(call)
      BY <1>6, <1>12, <1>19, <2>2
    <3>. QED BY <1>12, <1>17, <3>1 DEF MatchRound
  <2>. QED BY <2>1, <2>2
<1>21. ASSUME NEW k \in (1 + n)..(Len(directives) - 1)
       PROVE  TypeOf(directives[k + 1]) # EXACT
  <2>1. k \in Nat /\ k + 1 <= Len(directives) /\ Len(tail) \in {0, 1}
    BY <1>6, <1>8
  <2>2. CASE k < b
    <3>. DEFINE j == k + 1 - (1 + n)
    <3>1. j \in 1..Len(x) /\ (1 + n) + j = k + 1
      BY <1>8, <2>1, <2>2 DEF b
    <3>. HIDE DEF j
    <3>2. directives[(1 + n) + j] = x[j]
      BY <1>15, <3>1 DEF Holds
    <3>. QED BY <1>5, <3>1, <3>2
  <2>3. CASE k >= b
    <3>1. k = b /\ Len(tail) = 1
      BY <1>12, <1>19, <2>1, <2>3
    <3>2. dynamic
      BY <1>6, <3>1
    <3>3. directives[k + 1] = tail[1] /\ TypeOf(tail[1]) = ANY
      BY <1>6, <1>19, <3>1, <3>2
    <3>. QED BY <3>3 DEF ANY, EXACT
  <2>. QED BY <1>12, <2>1, <2>2, <2>3
<1>22. RestMatches(directives, call, sender, members, 1 + n, n)
  BY <1>16, <1>20 DEF RestMatches, matched
<1>. QED BY <1>1, <1>7, <1>13, <1>14, <1>21, <1>22 DEF front, directives, call, n, selector

\* The pass reads the span of the header before the selector as Guard2 does, although
\* it takes six bits.
LEMMA SelectorField ==
  /\ Header(EXACT, SelectorLength) \in Nat /\ TypeOf(Header(EXACT, SelectorLength)) = EXACT
  /\ (Header(EXACT, SelectorLength) % (2 * MaxSpan)) + 1 = SelectorLength
<1> DEFINE n == SelectorLength
           width == 2 * MaxSpan
<1>1. MaxSpan \in Nat \ {0} /\ n \in 1..MaxSpan /\ EXACT \in Nat
  BY DirectivesAssumption DEF EXACT
<1>2. Header(EXACT, n) \in Nat /\ TypeOf(Header(EXACT, n)) = EXACT
  <2>. HIDE DEF n
  <2>. QED BY <1>1, HeaderSays
<1>3. width \in Nat \ {0} /\ 2 \in Nat /\ n - 1 \in Nat /\ n - 1 < width
  BY <1>1
<1>4. Header(EXACT, n) = 2 * width + (n - 1)
  <2>1. (n - 1) % MaxSpan = n - 1
    BY <1>1
  <2>. QED BY <1>1, <2>1 DEF Header, EXACT
<1>5. (2 * width + (n - 1)) % width = n - 1
  <2>. HIDE DEF width, n
  <2>. QED BY <1>3, Division
<1>. QED BY <1>1, <1>2, <1>4, <1>5

\* No words, no wildcards.
LEMMA NoWords == WildcardWords(0) = <<>>
<1>1. PICK full \in Nat, rest \in 0..(MaxSpan - 1), heads \in Seq(Nat), last \in Seq(Nat) :
        /\ 0 = full * MaxSpan + rest
        /\ WildcardWords(0) = heads \o last
        /\ Len(heads) = full
        /\ rest = 0 => last = <<>>
  BY WordsParts
<1>2. full = 0 /\ rest = 0
  <2>1. MaxSpan \in Nat \ {0}
    BY DirectivesAssumption
  <2>. DEFINE bytes == full * MaxSpan
  <2>2. bytes \in Nat /\ (full >= 1 => bytes >= MaxSpan) /\ (full = 0 => bytes = 0)
    BY <2>1
  <2>3. 0 = bytes + rest /\ rest \in Nat /\ full \in Nat
    BY <1>1, <2>1
  <2>. HIDE DEF bytes
  <2>. QED BY <2>1, <2>2, <2>3
<1>3. heads = <<>>
  BY <1>1, <1>2
<1>. QED BY <1>1, <1>2, <1>3

\* What the script prints for a method allows its calls with tagged words that are
\* the pool and addresses on the list.
LEMMA EncodedAllows ==
  ASSUME NEW m \in Methods, NEW sender \in [1..AddressLength -> Nat], NEW members,
         NEW member \in [1..AddressLength -> Nat], member \in members,
         NEW after \in Tails, \A k \in DOMAIN m.inputs : Supported[m.inputs[k]]
  PROVE  /\ CallOf(m, sender, member, after) \in Seq(Nat)
         /\ Match(Encode(m.selector, m.inputs), CallOf(m, sender, member, after), sender, members) = "yes"
<1> DEFINE n == SelectorLength
           selector == m.selector
           directives == Directives(m.selector, m.inputs)
           call == CallOf(m, sender, member, after)
           head == <<Header(EXACT, n)>>
           front == head \o selector
           pass == CompressLoop(directives)
           rest == pass[1 + n][0]
           printed == Encode(m.selector, m.inputs)
<1>1. /\ selector \in Seq(Nat) /\ Len(selector) = n
      /\ directives \in Seq(Nat) /\ call \in Seq(Nat)
      /\ Holds(directives, 0, front) /\ Holds(call, 0, selector)
      /\ \A k \in (1 + n)..(Len(directives) - 1) : TypeOf(directives[k + 1]) # EXACT
      /\ RestMatches(directives, call, sender, members, 1 + n, n)
  BY DirectivesAllow
<1>2. n \in Nat /\ 1 + n \in Nat /\ EXACT \in Nat
  BY DirectivesAssumption DEF EXACT
<1>3. Header(EXACT, n) \in Nat /\ TypeOf(Header(EXACT, n)) = EXACT /\ (Header(EXACT, n) % (2 * MaxSpan)) + 1 = n
  BY SelectorField
<1>4. printed = pass[0][0]
  BY DEF Encode
<1>. HIDE DEF n, selector, directives, call, printed
<1>5. PrintsTheSame(directives, call, sender, members, 1 + n, 0)
  BY <1>1, <1>2, PassPrintsTheSame
<1>6. rest \in Seq(Nat)
  BY <1>5 DEF PrintsTheSame
<1>7. head \in Seq(Nat) /\ Len(head) = 1 /\ head[1] = Header(EXACT, n)
  BY <1>3
<1>. HIDE DEF head
<1>8. front \in Seq(Nat) /\ Len(front) = 1 + n
  <2>1. \A s, t \in Seq(Nat) : s \o t \in Seq(Nat) /\ Len(s \o t) = Len(s) + Len(t)
    OBVIOUS
  <2>2. front \in Seq(Nat) /\ Len(front) = Len(head) + Len(selector)
    BY <1>1, <1>7, <2>1, Zenon
  <2>. HIDE DEF front
  <2>. QED BY <1>1, <1>7, <2>2
<1>9. Bytes(directives, 0, 1 + n) = front /\ 0 + (1 + n) <= Len(directives)
  <2>. HIDE DEF front
  <2>1. 0 \in Nat
    OBVIOUS
  <2>. QED BY <1>1, <1>2, <1>8, <2>1, HeldBytes, Zenon
<1>10. 0 < Len(directives) /\ directives[0 + 1] = Header(EXACT, n)
  <2>1. Holds(directives, 0, head)
    BY <1>1, <1>7, HoldsParts
  <2>. QED BY <1>7, <2>1 DEF Holds
<1>11. printed = front \o rest
  <2>1. pass[0][0] = CompressRound(pass, directives, 0, 0)
    BY <1>1, CompressLoopRounds
  <2>. HIDE DEF pass, front
  <2>2. CompressRound(pass, directives, 0, 0)
          = WildcardWords(0) \o Bytes(directives, 0, 1 + n) \o pass[0 + 1 + n][0]
    <3>1. ~(0 >= Len(directives))
      BY <1>1, <1>10
    <3>. DEFINE header == directives[0 + 1]
                lengthField == (header % (2 * MaxSpan)) + 1
    <3>2. TypeOf(header) = EXACT /\ lengthField = n
      BY <1>3, <1>10
    <3>. HIDE DEF header
    <3>3. TypeOf(header) # WILDCARD_WORDS
      BY <3>2 DEF EXACT, WILDCARD_WORDS
    <3>4. CompressRound(pass, directives, 0, 0)
            = WildcardWords(0) \o Bytes(directives, 0, 1 + lengthField) \o pass[0 + 1 + lengthField][0]
      <4>. HIDE DEF lengthField
      <4>. QED BY <3>1, <3>2, <3>3, Zenon DEF CompressRound, header, lengthField
    <3>. QED BY <3>2, <3>4, Zenon
  <2>3. 0 + 1 + n = 1 + n
    BY <1>2
  <2>4. \A s \in Seq(Nat) : <<>> \o s = s
    OBVIOUS
  <2>5. <<>> \o front = front
    BY <1>8, <2>4, Zenon
  <2>. QED BY <1>4, <1>9, <2>1, <2>2, <2>3, <2>5, NoWords
<1>12. printed = <<Header(EXACT, SelectorLength)>> \o selector \o rest /\ Len(selector) = SelectorLength
  BY <1>1, <1>11 DEF head, n
<1>. HIDE DEF rest, front
<1>13. /\ printed \in Seq(Nat) /\ Suffix(printed, 1 + SelectorLength, rest)
       /\ RestMatches(printed, call, sender, members, 1 + SelectorLength, SelectorLength)
            => RestMatches(printed, call, sender, members, 0, 0)
  BY <1>1, <1>6, <1>12, SelectorCompared, Zenon
<1>14. RestMatches(printed, call, sender, members, 1 + n, n)
  <2>1. n + 0 * WordLength = n
    BY <1>2, DirectivesAssumption
  <2>2. Suffix(printed, 1 + n, rest)
    BY <1>13 DEF n
  <2>. QED BY <1>1, <1>2, <1>5, <1>13, <2>1, <2>2 DEF PrintsTheSame, rest
<1>15. RestMatches(printed, call, sender, members, 0, 0)
  BY <1>13, <1>14 DEF n
<1>16. Match(printed, call, sender, members) = "yes"
  BY <1>15 DEF RestMatches, Match
<1>. QED BY <1>1, <1>16 DEF printed, call

\* Once listed, what the script prints for a method whose inputs are supported
\* allows the calls of that method whose tagged words are the pool and addresses on
\* the list, unless an earlier entry runs out and panics
\* (encodeGuardDir.ts, isProtocolAllowed).
THEOREM EncodedDirectivesMatch == Spec => []EncodedDirectivesAllow
<1>1. GuardInv => EncodedDirectivesAllow
  <2> SUFFICES ASSUME GuardInv, NEW a \in Addresses, NEW i \in DOMAIN whitelist[a],
                      NEW m \in Methods, \A k \in DOMAIN m.inputs : Supported[m.inputs[k]],
                      NEW s \in Senders, NEW l \in Members, NEW t \in Tails,
                      whitelist[a][i].directives = Encoded[m]
               PROVE  Admits(a, i, CallOf(m, s, l, t), s)
    BY DEF EncodedDirectivesAllow
  <2>1. s \in [1..AddressLength -> Nat] /\ l \in [1..AddressLength -> Nat]
    BY GuardAssumption DEF Members
  <2>2. Encoded[m] = Encode(m.selector, m.inputs)
    BY DEF Encoded
  <2>3. /\ CallOf(m, s, l, t) \in Seq(Nat)
        /\ Match(Encode(m.selector, m.inputs), CallOf(m, s, l, t), s, Members) = "yes"
    BY <2>1, EncodedAllows
  <2>4. Match(whitelist[a][i].directives, CallOf(m, s, l, t), s, Members) = "yes"
    BY <2>2, <2>3
  <2>. QED BY <2>3, <2>4, FirstVerdictCounts
<1>. QED BY <1>1, GuardInvariant, PTL
=============================================================================
