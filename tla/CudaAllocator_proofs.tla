------------------------ MODULE CudaAllocator_proofs ------------------------
(***************************************************************************)
(* Theorems about CudaAllocator for every set of sequences, every pool and *)
(* block size.  The four properties are proved together: that a block      *)
(* handed out is in no table rests on the count of its users, that its     *)
(* count is exact rests on the free list, and that the free list repeats   *)
(* nothing rests on tables that repeat nothing.                            *)
(***************************************************************************)
EXTENDS CudaAllocator, FiniteSetTheorems, SequenceTheorems, TLAPS

AllocInv == AllocTypeOK /\ UsedBlocksCounted /\ FreeListExact /\ TablesInjective

Distinct(f) == \A i, j \in 1 .. Len(f) : f[i] = f[j] => i = j

-----------------------------------------------------------------------------
(* Sequences without repetition *)

\* What Range means for a sequence of blocks.
LEMMA InRange ==
  \A f \in Seq(Blocks) : \A b : b \in Range(f) <=> \E i \in 1 .. Len(f) : b = f[i]
<1>1. ASSUME NEW f \in Seq(Blocks) PROVE DOMAIN f = 1 .. Len(f)
  BY LenProperties
<1> QED
  BY <1>1 DEF Range

LEMMA RangeBlocks == \A f \in Seq(Blocks) : Range(f) \subseteq Blocks
<1>1. ASSUME NEW f \in Seq(Blocks) PROVE \A i \in 1 .. Len(f) : f[i] \in Blocks
  BY LenProperties
<1> QED
  BY <1>1, InRange

\* A sequence of blocks without repetition is no longer than the pool.
LEMMA DistinctBounded ==
  ASSUME NEW f \in Seq(Blocks), Distinct(f)
  PROVE  Len(f) <= NumBlocks
<1>1. Len(f) \in Nat /\ f \in [1 .. Len(f) -> Blocks]
  BY LenProperties
<1>2. f \in Injection(1 .. Len(f), Blocks)
  BY <1>1 DEF Injection, IsInjective, Distinct
<1>3. IsFiniteSet(Blocks) /\ Cardinality(Blocks) = NumBlocks
  BY AllocatorAssumption, FS_Interval DEF Blocks
<1>4. Cardinality(1 .. Len(f)) <= Cardinality(Blocks)
  BY <1>2, <1>3, FS_Injection
<1>5. Cardinality(1 .. Len(f)) = Len(f)
  BY <1>1, FS_Interval
<1> QED
  BY <1>3, <1>4, <1>5

\* Appending one sequence to another that shares nothing with it.
LEMMA Append2 ==
  ASSUME NEW f \in Seq(Blocks), NEW g \in Seq(Blocks)
  PROVE  /\ f \o g \in Seq(Blocks)
         /\ Range(f \o g) = Range(f) \cup Range(g)
         /\ Distinct(f) /\ Distinct(g) /\ Range(f) \cap Range(g) = {} => Distinct(f \o g)
<1> DEFINE h == f \o g
           p == Len(f)
           q == Len(g)
<1>1. p \in Nat /\ q \in Nat
  BY LenProperties
<1>2. /\ h \in Seq(Blocks) /\ Len(h) = p + q
      /\ \A i \in 1 .. p : h[i] = f[i]
      /\ \A i \in 1 .. p + q : i > p => h[i] = g[i - p]
  BY ConcatProperties
<1>3. \A i \in 1 .. p : f[i] \in Range(f)
  BY InRange
<1>4. \A i \in 1 .. q : g[i] \in Range(g)
  BY InRange
<1>5. \A i \in 1 .. p + q : i > p => i - p \in 1 .. q
  BY <1>1
<1>6. \A i \in 1 .. q : i + p \in 1 .. p + q /\ h[i + p] = g[i]
  <2> SUFFICES ASSUME NEW i \in 1 .. q PROVE i + p \in 1 .. p + q /\ h[i + p] = g[i]
    OBVIOUS
  <2>1. i + p \in 1 .. p + q /\ i + p > p /\ (i + p) - p = i
    BY <1>1
  <2> QED
    BY <1>2, <2>1
<1> HIDE DEF h, p, q
<1>7. ASSUME NEW b PROVE b \in Range(h) <=> b \in Range(f) \cup Range(g)
  <2>1. b \in Range(h) <=> \E i \in 1 .. p + q : b = h[i]
    BY <1>2, InRange
  <2>2. b \in Range(f) <=> \E i \in 1 .. p : b = f[i]
    BY InRange DEF p
  <2>3. b \in Range(g) <=> \E i \in 1 .. q : b = g[i]
    BY InRange DEF q
  <2>4. ASSUME NEW i \in 1 .. p + q, b = h[i] PROVE b \in Range(f) \cup Range(g)
    BY <1>1, <1>2, <1>3, <1>4, <1>5, <2>4
  <2>5. ASSUME NEW i \in 1 .. p, b = f[i] PROVE \E k \in 1 .. p + q : b = h[k]
    BY <1>1, <1>2, <2>5
  <2>6. ASSUME NEW i \in 1 .. q, b = g[i] PROVE \E k \in 1 .. p + q : b = h[k]
    BY <1>6, <2>6
  <2> QED
    BY <2>1, <2>2, <2>3, <2>4, <2>5, <2>6
<1>8. ASSUME Distinct(f), Distinct(g), Range(f) \cap Range(g) = {}
      PROVE  Distinct(h)
  <2> SUFFICES ASSUME NEW i \in 1 .. p + q, NEW j \in 1 .. p + q, h[i] = h[j] PROVE i = j
    BY <1>2 DEF Distinct
  <2>1. CASE i <= p /\ j <= p
    <3>1. i \in 1 .. p /\ j \in 1 .. p
      BY <1>1, <2>1
    <3> QED
      BY <1>2, <1>8, <3>1 DEF Distinct, p
  <2>2. CASE i > p /\ j > p
    <3>1. i - p \in 1 .. q /\ j - p \in 1 .. q /\ g[i - p] = g[j - p]
      BY <1>2, <1>5, <2>2
    <3>2. i - p = j - p
      BY <1>8, <3>1 DEF Distinct, q
    <3> QED
      BY <1>1, <3>2
  <2>3. CASE i <= p /\ j > p
    <3>1. i \in 1 .. p /\ j - p \in 1 .. q
      BY <1>1, <1>5, <2>3
    <3>2. h[i] \in Range(f) /\ h[j] \in Range(g)
      BY <1>2, <1>3, <1>4, <2>3, <3>1
    <3> QED
      BY <1>8, <3>2
  <2>4. CASE i > p /\ j <= p
    <3>1. j \in 1 .. p /\ i - p \in 1 .. q
      BY <1>1, <1>5, <2>4
    <3>2. h[j] \in Range(f) /\ h[i] \in Range(g)
      BY <1>2, <1>3, <1>4, <2>4, <3>1
    <3> QED
      BY <1>8, <3>2
  <2> QED
    BY <1>1, <2>1, <2>2, <2>3, <2>4
<1> QED
  BY <1>2, <1>7, <1>8 DEF h

\* SetToSeq lists a finite set without repetition.
LEMMA SetToSeqLists ==
  ASSUME NEW S, IsFiniteSet(S)
  PROVE  /\ SetToSeq(S) \in Seq(S)
         /\ Range(SetToSeq(S)) = S
         /\ Distinct(SetToSeq(S))
<1> DEFINE n == Cardinality(S)
           g == SetToSeq(S)
<1>1. n \in Nat /\ ExistsBijection(1 .. n, S)
  BY FS_CardinalityType
<1>2. \E f \in [1 .. n -> S] : IsInjective(f)
  BY <1>1 DEF ExistsBijection, Bijection, Injection
<1>3. g \in [1 .. n -> S] /\ IsInjective(g)
  BY <1>2 DEF SetToSeq
<1> HIDE DEF g
<1>4. g \in Injection(1 .. n, S)
  BY <1>3 DEF Injection
<1>5. Cardinality(1 .. n) = n
  BY <1>1, FS_Interval
<1>6. g \in Surjection(1 .. n, S)
  BY <1>4, <1>5, FS_Injection
<1>7. g \in Seq(S) /\ Len(g) = n
  BY <1>1, <1>3
<1>8. Range(g) = S
  BY <1>3, <1>6 DEF Surjection, Range
<1>9. Distinct(g)
  BY <1>3, <1>7 DEF Distinct, IsInjective
<1> QED
  BY <1>7, <1>8, <1>9 DEF g

-----------------------------------------------------------------------------
(* The free list *)

\* The top n entries of a stack, from the top down, and the rest of it.
LEMMA TopAndRest ==
  ASSUME NEW f \in Seq(Blocks), Distinct(f), NEW n \in Nat, n <= Len(f)
  PROVE  LET rest == SubSeq(f, 1, Len(f) - n)
             top  == [i \in 1 .. n |-> f[Len(f) - i + 1]]
         IN  /\ rest \in Seq(Blocks) /\ Distinct(rest) /\ Len(rest) = Len(f) - n
             /\ top \in Seq(Blocks) /\ Distinct(top) /\ Len(top) = n
             /\ Range(rest) = Range(f) \ Range(top)
             /\ Range(top) \subseteq Range(f)
<1> DEFINE l == Len(f)
           rest == SubSeq(f, 1, l - n)
           top == [i \in 1 .. n |-> f[l - i + 1]]
<1>1. l \in Nat /\ l - n \in Nat /\ l - n <= l /\ \A i \in 1 .. l : f[i] \in Blocks
  BY LenProperties
<1>2. \A i \in 1 .. n : l - i + 1 \in 1 .. l /\ l - i + 1 > l - n
  BY <1>1
<1>3. /\ rest \in Seq(Blocks) /\ Len(rest) = l - n
      /\ \A i \in 1 .. l - n : rest[i] = f[i]
  BY <1>1
<1>4. top \in [1 .. n -> Blocks] /\ \A i \in 1 .. n : top[i] = f[l - i + 1]
  BY <1>1, <1>2
<1>5. top \in Seq(Blocks) /\ Len(top) = n
  BY <1>4
<1>6. \A i, j \in 1 .. l : f[i] = f[j] => i = j
  BY DEF Distinct
<1> HIDE DEF l, rest, top
<1>7. Distinct(rest)
  <2>1. \A i \in 1 .. l - n : i \in 1 .. l
    BY <1>1
  <2> QED
    BY <1>3, <1>6, <2>1 DEF Distinct
<1>8. Distinct(top)
  <2> SUFFICES ASSUME NEW i \in 1 .. n, NEW j \in 1 .. n, top[i] = top[j] PROVE i = j
    BY <1>5 DEF Distinct
  <2>1. l - i + 1 = l - j + 1
    BY <1>2, <1>4, <1>6
  <2> QED
    BY <1>1, <2>1
<1>9. ASSUME NEW b
      PROVE  /\ b \in Range(rest) <=> b \in Range(f) \ Range(top)
             /\ b \in Range(top) => b \in Range(f)
  <2>1. b \in Range(f) <=> \E i \in 1 .. l : b = f[i]
    BY InRange DEF l
  <2>2. b \in Range(rest) <=> \E i \in 1 .. l - n : b = rest[i]
    BY <1>3, InRange
  <2>3. b \in Range(top) <=> \E i \in 1 .. n : b = top[i]
    BY <1>5, InRange
  <2>4. ASSUME NEW i \in 1 .. l - n, b = rest[i]
        PROVE  b \in Range(f) /\ b \notin Range(top)
    <3>1. i \in 1 .. l /\ b = f[i] /\ i <= l - n
      BY <1>1, <1>3, <2>4
    <3>2. \A k \in 1 .. n : l - k + 1 # i
      BY <1>1, <1>2, <3>1
    <3> QED
      BY <1>2, <1>4, <1>6, <2>1, <2>3, <3>1, <3>2
  <2>5. ASSUME NEW i \in 1 .. n, b = top[i] PROVE b \in Range(f)
    BY <1>2, <1>4, <2>1, <2>5
  <2>6. ASSUME NEW i \in 1 .. l, b = f[i], b \notin Range(top) PROVE b \in Range(rest)
    <3>1. CASE i > l - n
      <4>1. l - i + 1 \in 1 .. n /\ l - (l - i + 1) + 1 = i
        BY <1>1, <3>1
      <4>2. top[l - i + 1] = b
        BY <1>4, <2>6, <4>1
      <4> QED
        BY <2>3, <2>6, <4>1, <4>2
    <3>2. CASE i <= l - n
      <4>1. i \in 1 .. l - n
        BY <1>1, <3>2
      <4> QED
        BY <1>3, <2>2, <2>6, <4>1
    <3> QED
      BY <1>1, <3>1, <3>2
  <2> QED
    BY <2>1, <2>2, <2>3, <2>4, <2>5, <2>6
<1> QED
  BY <1>3, <1>5, <1>7, <1>8, <1>9 DEF l, rest, top

\* FreeListExact in the words of the lemmas.
LEMMA FreeListDistinct ==
  FreeListExact <=> /\ \A b \in Blocks : refs[b] = 0 <=> b \in Range(freeList)
                    /\ Distinct(freeList)
  BY DEF FreeListExact, Distinct

\* The blocks popped are free, and there is none twice.
LEMMA PoppedBlocks ==
  ASSUME freeList \in Seq(Blocks), FreeListExact, NEW n \in Nat, n <= Len(freeList)
  PROVE  /\ Popped(n) \in Seq(Blocks) /\ Distinct(Popped(n)) /\ Len(Popped(n)) = n
         /\ \A b \in Range(Popped(n)) : b \in Blocks /\ refs[b] = 0
<1>1. /\ Popped(n) \in Seq(Blocks) /\ Distinct(Popped(n)) /\ Len(Popped(n)) = n
      /\ Range(Popped(n)) \subseteq Range(freeList)
  BY FreeListDistinct, TopAndRest DEF Popped
<1> QED
  BY <1>1, RangeBlocks, FreeListDistinct

\* What n calls of alloc_block_locked leave.
LEMMA PopExact ==
  ASSUME AllocTypeOK, FreeListExact, NEW n \in Nat, n <= Len(freeList), Pop(n)
  PROVE  /\ freeList' \in Seq(Blocks) /\ refs' \in [Blocks -> Nat]
         /\ FreeListExact'
         /\ \A b \in Blocks : refs'[b] = IF b \in Range(Popped(n)) THEN 1 ELSE refs[b]
<1>1. freeList \in Seq(Blocks) /\ refs \in [Blocks -> Nat]
  BY DEF AllocTypeOK
<1>2. /\ freeList' = SubSeq(freeList, 1, Len(freeList) - n)
      /\ refs' = [b \in Blocks |-> IF b \in Range(Popped(n)) THEN 1 ELSE refs[b]]
  BY DEF Pop
<1>3. /\ freeList' \in Seq(Blocks) /\ Distinct(freeList')
      /\ Range(freeList') = Range(freeList) \ Range(Popped(n))
  BY <1>1, <1>2, FreeListDistinct, TopAndRest DEF Popped
<1>4. /\ refs' \in [Blocks -> Nat]
      /\ \A b \in Blocks : refs'[b] = IF b \in Range(Popped(n)) THEN 1 ELSE refs[b]
  BY <1>1, <1>2
<1>5. \A b \in Blocks : refs'[b] = 0 <=> b \in Range(freeList')
  BY <1>3, <1>4, FreeListDistinct
<1> QED
  BY <1>3, <1>4, <1>5 DEF FreeListExact, Distinct

\* What free_block_locked leaves, on blocks somebody counts.
LEMMA PushExact ==
  ASSUME AllocTypeOK, FreeListExact, NEW bids \in Seq(Blocks),
         \A b \in Range(bids) : refs[b] >= 1,
         Push(bids)
  PROVE  /\ freeList' \in Seq(Blocks) /\ refs' \in [Blocks -> Nat]
         /\ FreeListExact'
         /\ \A b \in Blocks : refs'[b] = IF b \in Range(bids) THEN refs[b] - 1 ELSE refs[b]
<1> DEFINE back == {b \in Range(bids) : refs[b] <= 1}
           g == SetToSeq(back)
<1>1. freeList \in Seq(Blocks) /\ refs \in [Blocks -> Nat] /\ Range(bids) \subseteq Blocks
  BY RangeBlocks DEF AllocTypeOK
<1>2. IsFiniteSet(back) /\ back \subseteq Blocks
  <2>1. IsFiniteSet(Blocks)
    BY AllocatorAssumption, FS_Interval DEF Blocks
  <2> QED
    BY <1>1, <2>1, FS_Subset
<1>3. g \in Seq(back) /\ Range(g) = back /\ Distinct(g)
  BY <1>2, SetToSeqLists
<1>4. /\ freeList' = freeList \o g
      /\ \A b \in Blocks : refs'[b] = IF b \in Range(bids) THEN refs[b] - 1 ELSE refs[b]
      /\ refs' \in [Blocks -> Nat]
  BY <1>1 DEF Push
<1>5. \A b \in Blocks : b \in back <=> b \in Range(bids) /\ refs[b] = 1
  BY <1>1
<1> HIDE DEF g, back
<1>6. g \in Seq(Blocks)
  BY <1>2, <1>3
<1>7. Range(freeList) \cap Range(g) = {}
  <2>1. \A b \in back : b \in Blocks /\ refs[b] # 0
    BY <1>2, <1>5
  <2> QED
    BY <1>3, <2>1, FreeListDistinct
<1>8. /\ freeList' \in Seq(Blocks) /\ Distinct(freeList')
      /\ Range(freeList') = Range(freeList) \cup back
  BY <1>1, <1>3, <1>4, <1>6, <1>7, FreeListDistinct, Append2
<1>9. ASSUME NEW b \in Blocks PROVE refs'[b] = 0 <=> b \in Range(freeList')
  <2>1. refs[b] = 0 <=> b \in Range(freeList)
    BY FreeListDistinct
  <2>2. refs[b] \in Nat
    BY <1>1
  <2>3. b \in Range(bids) => refs[b] # 0
    OBVIOUS
  <2>4. refs'[b] = 0 <=> refs[b] = 0 \/ b \in back
    BY <1>4, <1>5, <2>2, <2>3
  <2> QED
    BY <1>8, <2>1, <2>4
<1> QED
  BY <1>4, <1>8, <1>9 DEF FreeListExact, Distinct

-----------------------------------------------------------------------------
(* Counting the users of a block *)

LEMMA CountSome ==
  ASSUME NEW A, NEW B, IsFiniteSet(B), A \subseteq B
  PROVE  Cardinality(A) \in Nat /\ Cardinality(B) \in Nat /\ Cardinality(A) <= Cardinality(B)
  BY FS_Subset, FS_CardinalityType

LEMMA CountOneMore ==
  ASSUME NEW A, NEW B, NEW s, IsFiniteSet(B), A \subseteq B \cup {s}
  PROVE  Cardinality(A) \in Nat /\ Cardinality(A) <= Cardinality(B) + 1
<1>1. IsFiniteSet(B \cup {s}) /\ Cardinality(B) \in Nat /\ Cardinality(B \cup {s}) <= Cardinality(B) + 1
  BY FS_AddElement, FS_CardinalityType
<1>2. Cardinality(A) <= Cardinality(B \cup {s}) /\ Cardinality(A) \in Nat /\ Cardinality(B \cup {s}) \in Nat
  BY <1>1, CountSome
<1> QED
  BY <1>1, <1>2

LEMMA CountOneLess ==
  ASSUME NEW A, NEW B, NEW s \in B, IsFiniteSet(B), A \subseteq B \ {s}
  PROVE  Cardinality(A) \in Nat /\ Cardinality(A) <= Cardinality(B) - 1 /\ Cardinality(B) >= 1
<1>1. /\ IsFiniteSet(B \ {s}) /\ Cardinality(B \ {s}) = Cardinality(B) - 1
      /\ Cardinality(B) \in Nat /\ Cardinality(B \ {s}) \in Nat
  BY FS_RemoveElement, FS_CardinalityType
<1>2. Cardinality(A) <= Cardinality(B \ {s}) /\ Cardinality(A) \in Nat
  BY <1>1, CountSome
<1> QED
  BY <1>1, <1>2

LEMMA UsersFinite ==
  ASSUME NEW b
  PROVE  IsFiniteSet(Users(b)) /\ Cardinality(Users(b)) \in Nat
<1>1. Users(b) \subseteq Seqs
  BY DEF Users
<1> QED
  BY <1>1, AllocatorAssumption, FS_Subset, FS_CardinalityType

\* A block a table names is counted; a block nobody counts is in no table.
LEMMA UsedIsCounted ==
  ASSUME AllocInv, NEW b \in Blocks
  PROVE  /\ refs[b] \in Nat
         /\ \A s \in Users(b) : refs[b] >= 1
         /\ refs[b] = 0 => Users(b) = {}
<1>1. refs[b] \in Nat /\ Cardinality(Users(b)) <= refs[b]
  BY DEF AllocInv, AllocTypeOK, UsedBlocksCounted
<1>2. ASSUME NEW s \in Users(b) PROVE refs[b] >= 1
  <2>1. Cardinality(Users(b)) >= 1
    BY UsersFinite, CountOneLess
  <2> QED
    BY <1>1, <2>1, UsersFinite
<1> QED
  BY <1>1, <1>2

-----------------------------------------------------------------------------
(* The three ways in which tables change *)

\* What a step has to establish about the new table of s.
NewTable(s, t) ==
    /\ t \in Seq(Blocks) /\ Distinct(t)
    /\ tables' = [tables EXCEPT ![s] = t]

LEMMA NewTableTypes ==
  ASSUME AllocInv, NEW s \in Seqs, NEW t, NewTable(s, t)
  PROVE  /\ tables' \in [Seqs -> Seq(Blocks)]
         /\ TablesInjective'
         /\ \A r \in Seqs : tables'[r] = IF r = s THEN t ELSE tables[r]
<1>1. /\ tables' \in [Seqs -> Seq(Blocks)]
      /\ \A r \in Seqs : tables'[r] = IF r = s THEN t ELSE tables[r]
  BY DEF AllocInv, AllocTypeOK, NewTable
<1>2. \A r \in Seqs : Distinct(tables[r])
  BY DEF AllocInv, TablesInjective, Distinct
<1>3. \A r \in Seqs : Distinct(tables'[r])
  BY <1>1, <1>2 DEF NewTable
<1>4. TablesInjective'
  BY <1>3 DEF TablesInjective, Distinct
<1> QED
  BY <1>1, <1>4

\* What each way keeps; the other two variables are the business of the action.
Kept ==
    /\ freeList \in Seq(Blocks) /\ Len(freeList) <= NumBlocks
    /\ refs \in [Blocks -> Nat]
    /\ tables \in [Seqs -> Seq(Blocks)]
    /\ UsedBlocksCounted /\ FreeListExact /\ TablesInjective

LEMMA KeptNext ==
  ASSUME AllocInv, NEW s \in Seqs, NEW t, NewTable(s, t),
         freeList' \in Seq(Blocks), refs' \in [Blocks -> Nat], FreeListExact',
         \A b \in Blocks : Cardinality(Users(b)') <= refs'[b]
  PROVE  Kept'
<1>1. Distinct(freeList')
  BY DEF FreeListExact, Distinct
<1>2. Len(freeList') <= NumBlocks
  BY <1>1, DistinctBounded
<1> QED
  BY <1>2, NewTableTypes DEF Kept, UsedBlocksCounted

\* A sequence takes blocks from the pool.
LEMMA Take ==
  ASSUME AllocInv, NEW s \in Seqs, NEW t, NewTable(s, t),
         NEW n \in Nat, n <= Len(freeList), Pop(n),
         Range(t) \subseteq Range(tables[s]) \cup Range(Popped(n))
  PROVE  Kept'
<1>1. /\ freeList' \in Seq(Blocks) /\ refs' \in [Blocks -> Nat] /\ FreeListExact'
      /\ \A b \in Blocks : refs'[b] = IF b \in Range(Popped(n)) THEN 1 ELSE refs[b]
  BY PopExact DEF AllocInv
<1>2. \A r \in Seqs : tables'[r] = IF r = s THEN t ELSE tables[r]
  BY NewTableTypes
<1>3. \A b \in Range(Popped(n)) : b \in Blocks /\ refs[b] = 0
  BY PoppedBlocks DEF AllocInv, AllocTypeOK
<1>4. ASSUME NEW b \in Blocks PROVE Cardinality(Users(b)') <= refs'[b]
  <2>1. CASE b \in Range(Popped(n))
    <3>1. Users(b) = {}
      BY <1>3, <2>1, UsedIsCounted
    <3>2. Users(b)' \subseteq {} \cup {s}
      BY <1>2, <3>1 DEF Users
    <3>3. Cardinality(Users(b)') <= Cardinality({}) + 1
      BY <3>2, CountOneMore, FS_EmptySet
    <3>4. Cardinality(Users(b)') <= 1
      BY <3>3, FS_EmptySet
    <3> QED
      BY <1>1, <2>1, <3>4
  <2>2. CASE b \notin Range(Popped(n))
    <3>1. Users(b)' \subseteq Users(b)
      BY <1>2, <2>2 DEF Users
    <3>2. Cardinality(Users(b)') <= Cardinality(Users(b)) /\ Cardinality(Users(b)') \in Nat
      BY <3>1, UsersFinite, CountSome
    <3>3. Cardinality(Users(b)) <= refs[b] /\ refs[b] \in Nat
      BY DEF AllocInv, UsedBlocksCounted, AllocTypeOK
    <3> QED
      BY <1>1, <2>2, <3>2, <3>3, UsersFinite
  <2> QED
    BY <2>1, <2>2
<1> QED
  BY <1>1, <1>4, KeptNext

\* A sequence gives all its blocks back.
LEMMA Give ==
  ASSUME AllocInv, NEW s \in Seqs, Push(tables[s]), tables' = [tables EXCEPT ![s] = <<>>]
  PROVE  Kept'
<1>1. tables[s] \in Seq(Blocks)
  BY DEF AllocInv, AllocTypeOK
<1>2. \A b \in Range(tables[s]) : b \in Blocks /\ s \in Users(b)
  BY <1>1, RangeBlocks DEF Users
<1>3. \A b \in Range(tables[s]) : refs[b] >= 1
  BY <1>2, UsedIsCounted
<1>4. /\ freeList' \in Seq(Blocks) /\ refs' \in [Blocks -> Nat] /\ FreeListExact'
      /\ \A b \in Blocks : refs'[b] = IF b \in Range(tables[s]) THEN refs[b] - 1 ELSE refs[b]
  BY <1>1, <1>3, PushExact DEF AllocInv
<1>5. NewTable(s, <<>>)
  BY DEF NewTable, Distinct
<1>6. /\ \A r \in Seqs : tables'[r] = IF r = s THEN <<>> ELSE tables[r]
      /\ Range(<<>>) = {}
  BY <1>5, NewTableTypes DEF Range
<1>7. ASSUME NEW b \in Blocks PROVE Cardinality(Users(b)') <= refs'[b]
  <2>1. Cardinality(Users(b)) <= refs[b] /\ refs[b] \in Nat
    BY DEF AllocInv, UsedBlocksCounted, AllocTypeOK
  <2>2. Users(b)' \subseteq Users(b) \ {s}
    BY <1>6 DEF Users
  <2>3. CASE b \in Range(tables[s])
    <3>1. Cardinality(Users(b)') <= Cardinality(Users(b)) - 1 /\ Cardinality(Users(b)') \in Nat
      BY <1>2, <2>2, <2>3, UsersFinite, CountOneLess
    <3> QED
      BY <1>4, <2>1, <2>3, <3>1, UsersFinite
  <2>4. CASE b \notin Range(tables[s])
    <3>1. Cardinality(Users(b)') <= Cardinality(Users(b)) /\ Cardinality(Users(b)') \in Nat
      BY <2>2, UsersFinite, CountSome
    <3> QED
      BY <1>4, <2>1, <2>4, <3>1, UsersFinite
  <2> QED
    BY <2>3, <2>4
<1> QED
  BY <1>4, <1>5, <1>7, KeptNext

\* A sequence shares the blocks of another.
LEMMA Share ==
  ASSUME AllocInv, NEW src \in Seqs, NEW dst \in Seqs,
         tables' = [tables EXCEPT ![dst] = tables[src]],
         refs' = [b \in Blocks |-> IF b \in Range(tables[src]) THEN refs[b] + 1 ELSE refs[b]],
         freeList' = freeList
  PROVE  Kept'
<1>1. /\ freeList \in Seq(Blocks) /\ refs \in [Blocks -> Nat]
      /\ tables[src] \in Seq(Blocks) /\ Distinct(tables[src])
  BY DEF AllocInv, AllocTypeOK, TablesInjective, Distinct
<1>2. /\ refs' \in [Blocks -> Nat]
      /\ \A b \in Blocks : refs'[b] = IF b \in Range(tables[src]) THEN refs[b] + 1 ELSE refs[b]
  BY <1>1
<1>3. NewTable(dst, tables[src])
  BY <1>1 DEF NewTable
<1>4. \A r \in Seqs : tables'[r] = IF r = dst THEN tables[src] ELSE tables[r]
  BY <1>3, NewTableTypes
<1>5. ASSUME NEW b \in Range(tables[src]) PROVE b \in Blocks /\ refs[b] >= 1
  <2>1. b \in Blocks /\ src \in Users(b)
    BY <1>1, RangeBlocks DEF Users
  <2> QED
    BY <2>1, UsedIsCounted
<1>6. FreeListExact'
  <2>1. ASSUME NEW b \in Blocks PROVE refs'[b] = 0 <=> refs[b] = 0
    BY <1>1, <1>2, <1>5
  <2> QED
    BY <2>1 DEF AllocInv, FreeListExact
<1>7. ASSUME NEW b \in Blocks PROVE Cardinality(Users(b)') <= refs'[b]
  <2>1. Cardinality(Users(b)) <= refs[b] /\ refs[b] \in Nat
    BY DEF AllocInv, UsedBlocksCounted, AllocTypeOK
  <2>2. CASE b \in Range(tables[src])
    <3>1. Users(b)' \subseteq Users(b) \cup {dst}
      BY <1>4 DEF Users
    <3>2. Cardinality(Users(b)') <= Cardinality(Users(b)) + 1 /\ Cardinality(Users(b)') \in Nat
      BY <3>1, UsersFinite, CountOneMore
    <3> QED
      BY <1>2, <2>1, <2>2, <3>2, UsersFinite
  <2>3. CASE b \notin Range(tables[src])
    <3>1. Users(b)' \subseteq Users(b)
      BY <1>4, <2>3 DEF Users
    <3>2. Cardinality(Users(b)') <= Cardinality(Users(b)) /\ Cardinality(Users(b)') \in Nat
      BY <3>1, UsersFinite, CountSome
    <3> QED
      BY <1>2, <2>1, <2>3, <3>2, UsersFinite
  <2> QED
    BY <2>2, <2>3
<1> QED
  BY <1>1, <1>2, <1>3, <1>6, <1>7, KeptNext

-----------------------------------------------------------------------------
(* The methods *)

LEMMA BlocksForNat ==
  ASSUME NEW n \in Nat
  PROVE  BlocksFor(n) \in Nat
<1>1. (n + BlockSize - 1) \div BlockSize \in Int
  BY AllocatorAssumption
<1> QED
  BY <1>1 DEF BlocksFor

\* A table and the blocks popped for it make a table without repetition.
LEMMA GrownTable ==
  ASSUME AllocInv, NEW s \in Seqs, NEW n \in Nat, n <= Len(freeList)
  PROVE  /\ tables[s] \o Popped(n) \in Seq(Blocks)
         /\ Distinct(tables[s] \o Popped(n))
         /\ Range(tables[s] \o Popped(n)) = Range(tables[s]) \cup Range(Popped(n))
<1>1. tables[s] \in Seq(Blocks) /\ Distinct(tables[s])
  BY DEF AllocInv, AllocTypeOK, TablesInjective, Distinct
<1>2. /\ Popped(n) \in Seq(Blocks) /\ Distinct(Popped(n))
      /\ \A b \in Range(Popped(n)) : b \in Blocks /\ refs[b] = 0
  BY PoppedBlocks DEF AllocInv, AllocTypeOK
<1>3. \A b \in Range(Popped(n)) : s \notin Users(b)
  BY <1>2, UsedIsCounted
<1>4. Range(tables[s]) \cap Range(Popped(n)) = {}
  BY <1>3 DEF Users
<1> QED
  BY <1>1, <1>2, <1>4, Append2

LEMMA AllocInvFromKept ==
  ASSUME Kept', (live \subseteq Seqs)', (evicted \in [Seqs -> Nat \cup {NotEvicted}])'
  PROVE  AllocInv'
  BY DEF Kept, AllocInv, AllocTypeOK

LEMMA FreeListLen ==
  ASSUME AllocInv
  PROVE  Len(freeList) \in Nat /\ (freeList # <<>> => 1 <= Len(freeList))
<1>1. freeList \in Seq(Blocks) /\ Len(freeList) \in Nat
  BY LenProperties DEF AllocInv, AllocTypeOK
<1>2. Len(freeList) = 0 => freeList = <<>>
  BY <1>1, EmptySeq
<1> QED
  BY <1>1, <1>2

LEMMA AllocatePreserves ==
  ASSUME AllocInv, NEW s \in Seqs, NEW n \in Nat, Allocate(s, n)
  PROVE  AllocInv'
<1> DEFINE k == BlocksFor(n)
<1>1. k \in Nat /\ k <= Len(freeList) /\ Pop(k)
  BY BlocksForNat DEF Allocate
<1>2. tables' = [tables EXCEPT ![s] = Popped(k)]
  BY DEF Allocate
<1> HIDE DEF k
<1>3. Popped(k) \in Seq(Blocks) /\ Distinct(Popped(k))
  BY <1>1, PoppedBlocks DEF AllocInv, AllocTypeOK
<1>4. Kept'
  BY <1>1, <1>2, <1>3, Take DEF NewTable
<1>5. (live \subseteq Seqs)' /\ (evicted \in [Seqs -> Nat \cup {NotEvicted}])'
  BY DEF Allocate, AllocInv, AllocTypeOK
<1> QED
  BY <1>4, <1>5, AllocInvFromKept

LEMMA ExtendPreserves ==
  ASSUME AllocInv, NEW s \in Seqs, Extend(s)
  PROVE  AllocInv'
<1>1. 1 <= Len(freeList) /\ Pop(1)
  BY FreeListLen DEF Extend
<1>2. NewTable(s, tables[s] \o Popped(1))
  BY <1>1, GrownTable DEF NewTable, Extend, AllocInv, AllocTypeOK
<1>3. Kept'
  BY <1>1, <1>2, GrownTable, Take
<1>4. (live \subseteq Seqs)' /\ (evicted \in [Seqs -> Nat \cup {NotEvicted}])'
  BY DEF Extend, AllocInv, AllocTypeOK
<1> QED
  BY <1>3, <1>4, AllocInvFromKept

LEMMA FreePreserves ==
  ASSUME AllocInv, NEW s \in Seqs, Free(s)
  PROVE  AllocInv'
<1>1. Kept'
  BY Give DEF Free
<1>2. (live \subseteq Seqs)' /\ (evicted \in [Seqs -> Nat \cup {NotEvicted}])'
  BY DEF Free, AllocInv, AllocTypeOK
<1> QED
  BY <1>1, <1>2, AllocInvFromKept

LEMMA CopyPreserves ==
  ASSUME AllocInv, NEW src \in Seqs, NEW dst \in Seqs, Copy(src, dst)
  PROVE  AllocInv'
<1>1. Kept'
  BY Share DEF Copy
<1>2. (live \subseteq Seqs)' /\ (evicted \in [Seqs -> Nat \cup {NotEvicted}])'
  BY DEF Copy, AllocInv, AllocTypeOK
<1> QED
  BY <1>1, <1>2, AllocInvFromKept

LEMMA EvictPreserves ==
  ASSUME AllocInv, NEW s \in Seqs, Evict(s)
  PROVE  AllocInv'
<1>1. Kept'
  BY Give DEF Evict
<1>2. Len(tables[s]) \in Nat
  BY LenProperties DEF AllocInv, AllocTypeOK
<1>3. (live \subseteq Seqs)' /\ (evicted \in [Seqs -> Nat \cup {NotEvicted}])'
  BY <1>2 DEF Evict, AllocInv, AllocTypeOK
<1> QED
  BY <1>1, <1>3, AllocInvFromKept

LEMMA ReloadPreserves ==
  ASSUME AllocInv, NEW s \in Seqs, Reload(s)
  PROVE  AllocInv'
<1> DEFINE n == IF evicted[s] <= Len(freeList) THEN evicted[s] ELSE Len(freeList)
<1>1. evicted[s] \in Nat /\ Len(freeList) \in Nat
  BY FreeListLen DEF Reload, AllocInv, AllocTypeOK
<1>2. n \in Nat /\ n <= Len(freeList)
  BY <1>1
<1>3. Pop(n) /\ tables' = [tables EXCEPT ![s] = @ \o Popped(n)]
  BY DEF Reload
<1>4. (live \subseteq Seqs)' /\ (evicted \in [Seqs -> Nat \cup {NotEvicted}])'
  BY DEF Reload, AllocInv, AllocTypeOK
<1> HIDE DEF n
<1>5. NewTable(s, tables[s] \o Popped(n))
  BY <1>2, <1>3, GrownTable DEF NewTable, AllocInv, AllocTypeOK
<1>6. Kept'
  BY <1>2, <1>3, <1>5, GrownTable, Take
<1> QED
  BY <1>4, <1>6, AllocInvFromKept

-----------------------------------------------------------------------------
(* The theorems *)

LEMMA AllocInvInit == AllocInit => AllocInv
<1> SUFFICES ASSUME AllocInit PROVE AllocInv
  OBVIOUS
<1>1. NumBlocks \in Nat /\ NumBlocks > 0
  BY AllocatorAssumption
<1>2. /\ freeList = [i \in 1 .. NumBlocks |-> NumBlocks - i]
      /\ refs = [b \in Blocks |-> 0]
      /\ tables = [s \in Seqs |-> <<>>]
  BY DEF AllocInit
<1>3. freeList \in [1 .. NumBlocks -> Blocks]
  BY <1>1, <1>2 DEF Blocks
<1>4. freeList \in Seq(Blocks) /\ Len(freeList) = NumBlocks
  BY <1>1, <1>3
<1>5. \A b \in Blocks : b \in Range(freeList)
  <2> SUFFICES ASSUME NEW b \in Blocks PROVE \E i \in 1 .. NumBlocks : b = freeList[i]
    BY <1>4, InRange
  <2>1. NumBlocks - b \in 1 .. NumBlocks /\ b = NumBlocks - (NumBlocks - b)
    BY <1>1 DEF Blocks
  <2> QED
    BY <1>2, <2>1
<1>6. \A i, j \in 1 .. Len(freeList) : freeList[i] = freeList[j] => i = j
  BY <1>1, <1>2, <1>4
<1>7. FreeListExact
  BY <1>2, <1>5, <1>6 DEF FreeListExact
<1>8. AllocTypeOK
  BY <1>1, <1>2, <1>4 DEF AllocTypeOK, AllocInit
<1>9. \A b : Users(b) = {}
  <2>1. Range(<<>>) = {}
    BY DEF Range
  <2> QED
    BY <1>2, <2>1 DEF Users
<1>10. UsedBlocksCounted
  <2> SUFFICES ASSUME NEW b \in Blocks PROVE Cardinality(Users(b)) <= refs[b]
    BY DEF UsedBlocksCounted
  <2>1. Cardinality(Users(b)) = 0
    BY <1>9, FS_EmptySet
  <2> QED
    BY <1>2, <2>1
<1>11. TablesInjective
  BY <1>2 DEF TablesInjective
<1> QED
  BY <1>7, <1>8, <1>10, <1>11 DEF AllocInv

LEMMA AllocInvStep == AllocInv /\ [AllocNext]_allocVars => AllocInv'
<1> SUFFICES ASSUME AllocInv, [AllocNext]_allocVars PROVE AllocInv'
  OBVIOUS
<1>1. ASSUME NEW s \in Seqs, NEW n \in Nat, Allocate(s, n) PROVE AllocInv'
  BY <1>1, AllocatePreserves
<1>2. ASSUME NEW s \in Seqs, Extend(s) PROVE AllocInv'
  BY <1>2, ExtendPreserves
<1>3. ASSUME NEW s \in Seqs, Free(s) PROVE AllocInv'
  BY <1>3, FreePreserves
<1>4. ASSUME NEW s \in Seqs, NEW dst \in Seqs, Copy(s, dst) PROVE AllocInv'
  BY <1>4, CopyPreserves
<1>5. ASSUME NEW s \in Seqs, Evict(s) PROVE AllocInv'
  BY <1>5, EvictPreserves
<1>6. ASSUME NEW s \in Seqs, Reload(s) PROVE AllocInv'
  BY <1>6, ReloadPreserves
<1>7. CASE UNCHANGED allocVars
  BY <1>7 DEF allocVars, AllocInv, AllocTypeOK, UsedBlocksCounted, Users, FreeListExact,
              TablesInjective
<1> QED
  BY <1>1, <1>2, <1>3, <1>4, <1>5, <1>6, <1>7 DEF AllocNext

LEMMA AllocInvAlways == AllocSpec => []AllocInv
  BY AllocInvInit, AllocInvStep, PTL DEF AllocSpec

\* The free list never outgrows the pool, and every block it or a table names
\* is one of the pool, whatever the methods are called with and in what order.
THEOREM AllocTypeCorrect == AllocSpec => []AllocTypeOK
<1>1. AllocInv => AllocTypeOK
  BY DEF AllocInv
<1> QED
  BY <1>1, AllocInvAlways, PTL

\* A block in a table is counted at least once for every table that names it:
\* alloc_block_locked never hands out a block in use.
THEOREM NoBlockTakenTwice == AllocSpec => []UsedBlocksCounted
<1>1. AllocInv => UsedBlocksCounted
  BY DEF AllocInv
<1> QED
  BY <1>1, AllocInvAlways, PTL

\* free_list_ holds exactly the blocks whose count is zero, each once.
THEOREM FreeListIsExact == AllocSpec => []FreeListExact
<1>1. AllocInv => FreeListExact
  BY DEF AllocInv
<1> QED
  BY <1>1, AllocInvAlways, PTL

\* Two logical blocks of a sequence are never the same physical block.
THEOREM TablesNeverRepeat == AllocSpec => []TablesInjective
<1>1. AllocInv => TablesInjective
  BY DEF AllocInv
<1> QED
  BY <1>1, AllocInvAlways, PTL
=============================================================================
