------------------------ MODULE RequestPath_proofs ------------------------
(***************************************************************************)
(* Proofs about RequestPath.  A step of a request replaces its own record  *)
(* and may settle its outcome; Good says what a record is at each stage of *)
(* its handler, Moves what a step of a request may do.  The limiter and    *)
(* the registry keep their own invariants.  The total of the subcalls is a *)
(* sum over a set: the first section says what MapThenSumSet computes.     *)
(***************************************************************************)
EXTENDS RequestPath, RateLimiter_proofs, ToolRegistry_proofs, FiniteSetTheorems

-----------------------------------------------------------------------------
(* Sums over finite sets; the inductions take a least counterexample. *)

\* One of the elements of s, and what is left without it.
Some(s) == CHOOSE x \in s : TRUE
Rest(s) == s \ {Some(s)}

\* it[s] is the sum of F over s, for the subsets s of S.
Fold(F, S, it) ==
    it = [s \in SUBSET S |-> IF s = {} THEN 0 ELSE F[Some(s)] + it[Rest(s)]]

LEMMA RestFacts ==
  ASSUME NEW S, IsFiniteSet(S), NEW s \in SUBSET S, s # {}
  PROVE  /\ Some(s) \in s /\ Rest(s) \in SUBSET S
         /\ Cardinality(s) \in Nat /\ Cardinality(Rest(s)) = Cardinality(s) - 1
         /\ Cardinality(s) > 0
<1>1. Some(s) \in s
  BY DEF Some
<1>2. IsFiniteSet(s)
  BY FS_Subset
<1>3. Cardinality(s) \in Nat /\ Cardinality(s) # 0
  BY <1>2, FS_CardinalityType, FS_EmptySet
<1>4. Cardinality(Rest(s)) = Cardinality(s) - 1
  BY <1>1, <1>2, FS_RemoveElement DEF Rest
<1> QED BY <1>1, <1>3, <1>4 DEF Rest

\* g is a fold as far as sets of at most n elements go.
UpTo(F, S, g, n) ==
    \A s \in SUBSET S : Cardinality(s) <= n =>
        g[s] = IF s = {} THEN 0 ELSE F[Some(s)] + g[Rest(s)]

LEMMA FoldExists ==
  ASSUME NEW F, NEW S, IsFiniteSet(S)
  PROVE  \E it : Fold(F, S, it)
<1> DEFINE Bad == {n \in Nat : ~ \E g : UpTo(F, S, g, n)}
<1>1. \A s \in SUBSET S : Cardinality(s) \in Nat /\ Cardinality(s) <= Cardinality(S)
  BY FS_Subset, FS_CardinalityType
<1>2. Bad = {}
  <2> SUFFICES ASSUME Bad # {} PROVE FALSE
    OBVIOUS
  <2>1. PICK n \in Bad : \A m \in Bad : n <= m
    <3>1. Bad \subseteq Nat
      OBVIOUS
    <3> HIDE DEF Bad
    <3> QED BY <3>1, LeastElement
  <2>2. CASE n = 0
    <3> DEFINE g == [s \in SUBSET S |-> 0]
    <3>1. ASSUME NEW s \in SUBSET S, Cardinality(s) <= 0 PROVE s = {}
      BY <1>1, <3>1, RestFacts
    <3>2. UpTo(F, S, g, 0)
      BY <3>1 DEF UpTo
    <3> QED BY <2>1, <2>2, <3>2
  <2>3. CASE n # 0
    <3>1. n \in Nat /\ n - 1 \in Nat /\ ~(n <= n - 1)
      BY <2>1, <2>3
    <3>2. n - 1 \notin Bad
      BY <2>1, <3>1
    <3>3. PICK g : UpTo(F, S, g, n - 1)
      BY <3>1, <3>2
    <3> DEFINE h == [s \in SUBSET S |-> IF s = {} THEN 0 ELSE F[Some(s)] + g[Rest(s)]]
    <3>4. ASSUME NEW s \in SUBSET S, Cardinality(s) <= n, s # {}
          PROVE  h[s] = F[Some(s)] + h[Rest(s)]
      <4>1. Rest(s) \in SUBSET S /\ Cardinality(Rest(s)) <= n - 1
        BY <3>1, <3>4, RestFacts
      <4>2. h[Rest(s)] = g[Rest(s)]
        BY <3>3, <4>1 DEF UpTo
      <4> QED BY <3>4, <4>2
    <3>5. UpTo(F, S, h, n)
      BY <3>4 DEF UpTo
    <3> QED BY <2>1, <3>5
  <2> QED BY <2>2, <2>3
<1>3. Cardinality(S) \in Nat
  BY FS_CardinalityType
<1>4. PICK g : UpTo(F, S, g, Cardinality(S))
  BY <1>2, <1>3
<1> DEFINE it == [s \in SUBSET S |-> g[s]]
<1>5. ASSUME NEW s \in SUBSET S
      PROVE  it[s] = IF s = {} THEN 0 ELSE F[Some(s)] + it[Rest(s)]
  <2>1. s # {} => Rest(s) \in SUBSET S
    BY RestFacts
  <2> QED BY <1>1, <1>4, <2>1 DEF UpTo
<1>6. Fold(F, S, it)
  BY <1>5 DEF Fold
<1> QED BY <1>6

\* Folds of what agrees agree.
LEMMA FoldAgree ==
  ASSUME NEW F, NEW G, NEW S, IsFiniteSet(S), \A x \in S : F[x] = G[x],
         NEW f, Fold(F, S, f), NEW g, Fold(G, S, g)
  PROVE  \A s \in SUBSET S : f[s] = g[s]
<1> DEFINE Bad == {n \in Nat : \E s \in SUBSET S : Cardinality(s) = n /\ f[s] # g[s]}
<1>1. \A s \in SUBSET S : Cardinality(s) \in Nat
  BY FS_Subset, FS_CardinalityType
<1>2. Bad = {}
  <2> SUFFICES ASSUME Bad # {} PROVE FALSE
    OBVIOUS
  <2>1. PICK n \in Bad : \A m \in Bad : n <= m
    <3>1. Bad \subseteq Nat
      OBVIOUS
    <3> HIDE DEF Bad
    <3> QED BY <3>1, LeastElement
  <2>2. PICK s \in SUBSET S : Cardinality(s) = n /\ f[s] # g[s]
    BY <2>1
  <2>4. s # {}
    BY <2>2 DEF Fold
  <2>5. /\ Some(s) \in s /\ Rest(s) \in SUBSET S
        /\ n \in Nat /\ n - 1 \in Nat /\ Cardinality(Rest(s)) = n - 1
    BY <2>2, <2>4, RestFacts
  <2>6. n - 1 \notin Bad
    BY <2>1, <2>5
  <2>7. f[Rest(s)] = g[Rest(s)]
    BY <2>5, <2>6
  <2>8. f[s] = F[Some(s)] + f[Rest(s)] /\ g[s] = G[Some(s)] + g[Rest(s)]
    BY <2>4 DEF Fold
  <2> QED BY <2>2, <2>5, <2>7, <2>8
<1> HIDE DEF Bad
<1> QED BY <1>1, <1>2 DEF Bad

\* Part of a fold is a fold.
LEMMA FoldPart ==
  ASSUME NEW F, NEW T, NEW S, S \subseteq T, NEW g, Fold(F, T, g),
         NEW f, f = [s \in SUBSET S |-> g[s]]
  PROVE  Fold(F, S, f)
<1>1. ASSUME NEW s \in SUBSET S
      PROVE  f[s] = IF s = {} THEN 0 ELSE F[Some(s)] + f[Rest(s)]
  <2>1. s \in SUBSET T
    OBVIOUS
  <2>2. g[s] = IF s = {} THEN 0 ELSE F[Some(s)] + g[Rest(s)]
    BY <2>1 DEF Fold
  <2>3. s # {} => Rest(s) \in SUBSET S
    BY DEF Rest
  <2> QED BY <2>2, <2>3
<1> QED BY <1>1 DEF Fold

\* A sum may start with any element.
Sums(F, S, f) ==
    \A s \in SUBSET S : f[s] \in Int /\ \A y \in s : f[s] = F[y] + f[s \ {y}]

LEMMA FoldAny ==
  ASSUME NEW F, NEW S, IsFiniteSet(S), \A x \in S : F[x] \in Int,
         NEW f, Fold(F, S, f)
  PROVE  Sums(F, S, f)
<1> DEFINE Fine(s) == f[s] \in Int /\ \A y \in s : f[s] = F[y] + f[s \ {y}]
           Bad == {n \in Nat : \E s \in SUBSET S : Cardinality(s) = n /\ ~Fine(s)}
<1>1. \A s \in SUBSET S : IsFiniteSet(s) /\ Cardinality(s) \in Nat
  BY FS_Subset, FS_CardinalityType
<1>2. Bad = {}
  <2> SUFFICES ASSUME Bad # {} PROVE FALSE
    OBVIOUS
  <2>1. PICK n \in Bad : \A m \in Bad : n <= m
    <3>1. Bad \subseteq Nat
      OBVIOUS
    <3> HIDE DEF Bad
    <3> QED BY <3>1, LeastElement
  <2>2. PICK s \in SUBSET S : Cardinality(s) = n /\ ~Fine(s)
    BY <2>1
  <2>3. s # {}
    BY <2>2 DEF Fold
  <2> DEFINE x == Some(s)
  <2>4. x \in s /\ Rest(s) = s \ {x}
    BY <2>3, RestFacts DEF Rest
  <2>5. f[s] = F[x] + f[s \ {x}]
    BY <2>3, <2>4 DEF Fold
  <2>6. n \in Nat /\ n > 0
    BY <2>2, <2>3, RestFacts
  <2>7. ASSUME NEW t \in SUBSET S, Cardinality(t) < n PROVE Fine(t)
    <3> DEFINE m == Cardinality(t)
    <3>1. m \in Nat
      BY <1>1
    <3> HIDE DEF m
    <3>2. ~(n <= m)
      BY <2>6, <2>7, <3>1 DEF m
    <3>3. m \notin Bad
      BY <2>1, <3>2
    <3> QED BY <3>1, <3>3 DEF m
  <2> HIDE DEF x, Bad
  <2>8. ASSUME NEW y \in s
        PROVE  /\ s \ {y} \in SUBSET S
               /\ Cardinality(s \ {y}) < n /\ F[y] \in Int
    <3>1. IsFiniteSet(s)
      BY <1>1
    <3>2. Cardinality(s \ {y}) = n - 1
      BY ONLY <3>1, <2>2, <2>8, FS_RemoveElement
    <3> QED BY <2>2, <2>6, <3>2
  <2>9. f[s] \in Int
    <3>1. F[x] \in Int /\ Fine(s \ {x})
      BY <2>4, <2>7, <2>8
    <3>2. F[x] \in Int /\ f[s \ {x}] \in Int
      BY <3>1
    <3> QED BY ONLY <2>5, <3>2
  <2>10. ASSUME NEW y \in s PROVE f[s] = F[y] + f[s \ {y}]
    <3>1. CASE y = x
      BY <2>5, <3>1
    <3>2. CASE y # x
      <4> DEFINE t == (s \ {x}) \ {y}
      <4>1. /\ y \in s \ {x} /\ x \in s \ {y} /\ (s \ {y}) \ {x} = t
            /\ t \in SUBSET S
        BY <2>4, <3>2
      <4>2. Fine(s \ {x}) /\ Fine(s \ {y}) /\ F[x] \in Int /\ F[y] \in Int
        BY <2>4, <2>7, <2>8
      <4>3. f[s \ {x}] = F[y] + f[t] /\ f[s \ {y}] = F[x] + f[t]
        BY <4>1, <4>2
      <4>4. f[t] \in Int
        <5>1. IsFiniteSet(s \ {x}) /\ Cardinality(s \ {x}) \in Nat /\ Cardinality(s \ {x}) < n
          BY <1>1, <2>4, <2>8
        <5>2. Cardinality(t) = Cardinality(s \ {x}) - 1
          BY <4>1, <5>1, FS_RemoveElement
        <5>3. Cardinality(t) < n
          BY <2>6, <5>1, <5>2
        <5> QED BY <2>7, <4>1, <5>3
      <4> HIDE DEF t
      <4> DEFINE a == F[x]
                 b == F[y]
                 c == f[t]
      <4>5. f[s] = a + (b + c) /\ f[s \ {y}] = a + c
        BY <2>5, <4>3
      <4>6. a \in Int /\ b \in Int /\ c \in Int
        BY <4>2, <4>4
      <4> HIDE DEF a, b, c
      <4>7. a + (b + c) = b + (a + c)
        BY <4>6
      <4> QED BY <4>5, <4>7 DEF b
    <3> QED BY <3>1, <3>2
  <2> QED BY <2>2, <2>9, <2>10
<1> HIDE DEF Bad, Fine
<1>3. \A s \in SUBSET S : Fine(s)
  <2> SUFFICES ASSUME NEW s \in SUBSET S PROVE Fine(s)
    OBVIOUS
  <2> QED BY <1>1, <1>2 DEF Bad
<1> QED BY <1>3 DEF Fine, Sums

-----------------------------------------------------------------------------
\* The subcalls of the requests in C, of the records q.
SumOf(q, C) == MapThenSumSet(LAMBDA r : q[r].ctx.sub, C)

LEMMA SumIsFold ==
  ASSUME NEW q, NEW C, C \subseteq Requests
  PROVE  \E g : Fold([r \in Requests |-> q[r].ctx.sub], C, g) /\ SumOf(q, C) = g[C]
<1> DEFINE F == [r \in Requests |-> q[r].ctx.sub]
           Sub(it) == it = [s \in SUBSET C |->
                              IF s = {} THEN 0 ELSE q[Some(s)].ctx.sub + it[Rest(s)]]
           g == CHOOSE it : Sub(it)
<1>1. IsFiniteSet(C)
  BY PathAssumption, FS_Subset
<1>2. ASSUME NEW it PROVE Fold(F, C, it) <=> Sub(it)
  <2>1. ASSUME NEW s \in SUBSET C, s # {} PROVE F[Some(s)] = q[Some(s)].ctx.sub
    <3>1. Some(s) \in Requests
      BY <2>1, <1>1, RestFacts
    <3> QED BY <3>1
  <2> HIDE DEF F
  <2> QED BY <2>1 DEF Fold
<1>3. \E it : Sub(it)
  <2>1. \E it : Fold(F, C, it)
    BY <1>1, FoldExists
  <2> HIDE DEF F, Sub
  <2> QED BY <2>1, <1>2
<1>4. Fold(F, C, g)
  <2>1. Sub(g)
    <3> HIDE DEF Sub
    <3> QED BY <1>3
  <2> HIDE DEF F, g, Sub
  <2> QED BY <1>2, <2>1
<1>5. SumOf(q, C) = g[C]
  BY DEF SumOf, MapThenSumSet, MapThenFoldSet, Some, Rest
<1> HIDE DEF g, F
<1> QED BY <1>4, <1>5 DEF F

LEMMA SumFacts ==
  ASSUME NEW q, NEW C, C \subseteq Requests, \A x \in C : q[x].ctx.sub \in Int
  PROVE  /\ SumOf(q, {}) = 0
         /\ SumOf(q, C) \in Int
         /\ \A x \in C : SumOf(q, C) = q[x].ctx.sub + SumOf(q, C \ {x})
<1> PICK F : F = [r \in Requests |-> q[r].ctx.sub]
  OBVIOUS
<1>0. IsFiniteSet(C)
  BY PathAssumption, FS_Subset
<1>1. PICK g : Fold(F, C, g) /\ SumOf(q, C) = g[C]
  BY SumIsFold
<1>2. SumOf(q, {}) = 0
  <2>1. PICK e : Fold(F, {}, e) /\ SumOf(q, {}) = e[{}]
    BY SumIsFold
  <2> QED BY <2>1 DEF Fold
<1>3. \A x \in C : F[x] = q[x].ctx.sub /\ F[x] \in Int
  OBVIOUS
<1>4. SumOf(q, C) \in Int /\ \A x \in C : SumOf(q, C) = F[x] + g[C \ {x}]
  <2>1. C \in SUBSET C /\ \A x \in C : F[x] \in Int
    BY <1>3
  <2>2. Sums(F, C, g)
    <3>1. Fold(F, C, g)
      BY <1>1
    <3>2. \A x \in C : F[x] \in Int
      BY <1>3
    <3> HIDE <1>1, <1>3, <2>1
    <3> QED BY ONLY <1>0, <3>1, <3>2, FoldAny
  <2> QED BY <1>1, <2>1, <2>2 DEF Sums
<1>5. ASSUME NEW x \in C PROVE g[C \ {x}] = SumOf(q, C \ {x})
  <2>1. PICK e : Fold(F, C \ {x}, e) /\ SumOf(q, C \ {x}) = e[C \ {x}]
    BY SumIsFold
  <2>2. \A s \in SUBSET (C \ {x}) : e[s] = g[s]
    <3> DEFINE B == C \ {x}
    <3>1. B \in SUBSET C /\ IsFiniteSet(B)
      BY <1>0, FS_Subset
    <3>2. Fold(F, B, e)
      BY <2>1
    <3> HIDE DEF B
    <3>0. PICK h : h = [s \in SUBSET B |-> g[s]]
      OBVIOUS
    <3>3. Fold(F, B, h)
      <4>1. Fold(F, C, g)
        BY <1>1
      <4>2. B \subseteq C
        BY <3>1
      <4> QED BY ONLY <3>0, <4>1, <4>2, FoldPart
    <3>4. \A s \in SUBSET B : e[s] = h[s]
      <4>1. PICK G : G = F
        OBVIOUS
      <4>2. Fold(G, B, h)
        BY <3>3, <4>1
      <4>3. \A y \in B : F[y] = G[y]
        BY <4>1
      <4>4. IsFiniteSet(B)
        BY <3>1
      <4> QED BY ONLY <3>2, <4>2, <4>3, <4>4, FoldAgree
    <3> QED BY <3>0, <3>4 DEF B
  <2> QED BY <2>1, <2>2
<1> QED BY <1>2, <1>3, <1>4, <1>5

LEMMA SumSame ==
  ASSUME NEW q, NEW d, NEW C, C \subseteq Requests, \A x \in C : q[x].ctx.sub = d[x].ctx.sub
  PROVE  SumOf(q, C) = SumOf(d, C)
<1> DEFINE F == [r \in Requests |-> q[r].ctx.sub]
           G == [r \in Requests |-> d[r].ctx.sub]
<1>0. IsFiniteSet(C)
  BY PathAssumption, FS_Subset
<1>1. PICK f : Fold(F, C, f) /\ SumOf(q, C) = f[C]
  BY SumIsFold
<1>2. PICK g : Fold(G, C, g) /\ SumOf(d, C) = g[C]
  BY SumIsFold
<1>3. \A x \in C : F[x] = G[x]
  OBVIOUS
<1> HIDE DEF F, G
<1>4. \A s \in SUBSET C : f[s] = g[s]
  BY <1>0, <1>1, <1>2, <1>3, FoldAgree
<1> QED BY <1>1, <1>2, <1>4

-----------------------------------------------------------------------------
(* What a request keeps *)

Opening == {"idle", "auth", "parse", "prepare", "prep", "inject", "debug"}
Claiming == {"claim", "stream", "gen", "live"}
Statuses == {0, 200, 400, 401, 429, 500, 503}

\* The frame at the bottom of the stack is the one the stage waits for.
StackOK(q) ==
    /\ q.stack # <<>> =>
           \/ q.at = "prep" /\ q.stack[1].kind = "prep"
           \/ q.at = "gen" /\ q.stack[1].kind = "gen"
           \/ q.at \in {"tool", "debug"} /\ q.stack[1].kind \in {"tool", "remote"}
    /\ \A i \in 2 .. Len(q.stack) : q.stack[i].kind # "gen"
    /\ q.at = "tool" /\ q.stack # <<>> => q.loop.calls # <<>>

Returns(r) == IsChat(r) /\ Delegates(r)

Results(q) == q.conv.small + q.conv.big

\* What an answer stands on.
Backed(r, q) ==
    /\ q.loop.ok \/ q.conv.notice
    /\ (q.out.finish = "tool_calls") <=> (Returns(r) /\ q.loop.calls # <<>>)
Reached(q) ==
    \/ q.loop.shown = Results(q)
    \/ ~q.conv.notice /\ q.loop.round = MaxRounds + 1
    \/ q.conv.notice /\ ~q.loop.ok

\* Before the loop nothing has run; a client that runs its own tools never
\* gets into a second round.
RoundsOK(r, q) ==
    /\ q.at \in Opening \cup Claiming => q.loop.round = 0 /\ q.conv.small = 0 /\ q.conv.big = 0
    /\ q.at \in {"infer", "tool", "final"} => q.loop.round <= MaxRounds
    /\ q.at = "tool" => q.loop.ok /\ ~Returns(r)
    /\ q.at = "final" => q.conv.notice /\ ~Returns(r)
    /\ Returns(r) => q.loop.round = 0 /\ q.loop.given = 0

\* The last of the messages that follow a prompt is one of them.
LastOK(c) == c.small + c.big > 0 => IF c.lastBig THEN c.big > 0 ELSE c.small > 0

\* Each result is in the conversation, but for the one a notice has replaced.
ResultsOK(q) ==
    /\ q.loop.given = Results(q) + IF q.conv.notice THEN 1 ELSE 0
    /\ q.conv.notice => q.at \in {"final", "answer", "done"}
    /\ q.at = "tool" /\ q.loop.calls = <<>> => Results(q) > 0
    /\ ~q.conv.notice => LastOK(q.conv)

\* A counter of subcalls that nobody wrote.
Honest(c) == ~c.written => c.sub = c.made

\* The context is taken once and gone at the end, or lost with its stream.
ContextOK(r, q) ==
    /\ q.ctx.held = "gone" => q.at \in {"live", "done"}
    /\ q.at \in {"idle", "auth", "parse"} => q.ctx.held = "none"
    /\ q.at = "done" => q.ctx.held \in {"none", "gone", "lost"}
    /\ q.at = "live" => q.ctx.held \in {"none", "gone"}
    /\ q.at = "stream" => q.ctx.held = "stream"
    /\ q.ctx.held = "lost" => q.at = "done" /\ q.out.by = "none"
    /\ q.ctx.held \in {"stream", "lost"} => Streams(r)
    /\ Honest(q.ctx)

PromptOK(r, q) ==
    /\ q.at \in {"claim", "infer", "final", "answer"} => q.prompt = Rendering(q.conv)
    /\ IsChat(r) /\ (q.loop.round > 0 \/ q.at = "final") => q.conv.must # "any"
    /\ q.conv.lastBig => q.conv.big > 0

AnswerOK(r, q) ==
    /\ q.at # "done" => q.out.by = "none"
    /\ q.at \notin {"answer", "done"} => q.out.finish = "none"
    /\ q.at = "answer" \/ q.out.by = "loop" => Backed(r, q) /\ Reached(q)

Good(r, q) ==
    /\ q \in State
    /\ StackOK(q)
    /\ RoundsOK(r, q)
    /\ ResultsOK(q)
    /\ ContextOK(r, q)
    /\ PromptOK(r, q)
    /\ AnswerOK(r, q)

Totals == [chat : Nat, research : Nat, subcalls : Int]

\* The outcome is settled when the context goes, and only then.
Settled(r, q) ==
    \/ /\ totals' = totals /\ (q.ctx.held = "gone" <=> rq[r].ctx.held = "gone")
       /\ rq[r].ctx.held = "gone" =>
              q.ctx.sub = rq[r].ctx.sub /\ q.ctx.research = rq[r].ctx.research
    \/ /\ rq[r].ctx.held # "lost"
       /\ q.ctx.held = IF rq[r].ctx.held = "none" THEN "none" ELSE "gone"
       /\ q.ctx.sub = rq[r].ctx.sub /\ q.ctx.research = rq[r].ctx.research
       /\ IF IsChat(r) /\ rq[r].ctx.held \in {"held", "stream"}
          THEN /\ totals' \in Totals
               /\ totals'.chat = totals.chat + 1
               /\ totals'.research = totals.research + IF q.ctx.research THEN 1 ELSE 0
               /\ totals'.subcalls = totals.subcalls + IF q.ctx.research THEN q.ctx.sub ELSE 0
          ELSE totals' = totals

\* A tool that starts is in scope.
Scoped(r, q) ==
    /\ Runs(q) /\ Len(q.stack) > Len(rq[r].stack)
    /\ rq[r].at # "debug" \/ rq[r].stack # <<>>
    => InScope(Top(q).name, rq[r].ctx.allow)

Moves(r) == \E q : Good(r, q) /\ Put(r, q) /\ Settled(r, q) /\ Scoped(r, q)

Tally ==
    /\ totals.chat = Cardinality(Counted)
    /\ totals.research = Cardinality(Researched)
    /\ totals.subcalls = SumOf(rq, Researched)

PathInv ==
    /\ shape \in [Requests -> Shape]
    /\ loaded \in BOOLEAN
    /\ totals \in Totals
    /\ rq \in [Requests -> State]
    /\ \A r \in Requests : Good(r, rq[r])
    /\ Tally

Inv == LimiterIInv /\ RegistryInv /\ PathInv

-----------------------------------------------------------------------------
(* Records *)

\* The parts of a record that most steps leave alone.
Alike(d, q) == d.out = q.out /\ d.conv = q.conv /\ d.prompt = q.prompt /\ d.loop = q.loop

\* The context is where it was, and its counter as honest.
Steady(d, q) == d.ctx.held = q.ctx.held /\ (Honest(q.ctx) => Honest(d.ctx))

LEMMA Facts ==
  ASSUME PathInv, NEW r \in Requests
  PROVE  /\ Good(r, rq[r]) /\ rq[r] \in State
         /\ shape[r] \in Shape
         /\ totals \in Totals
  BY DEF PathInv

LEMMA StackType ==
  ASSUME NEW q \in State
  PROVE  /\ q.stack \in Seq(Frame) /\ Len(q.stack) \in Nat
         /\ q.stack # <<>> <=> Len(q.stack) > 0
         /\ \A i \in 1 .. Len(q.stack) : q.stack[i] \in Frame
<1>1. q.stack \in Seq(Frame)
  BY DEF State
<1> QED BY <1>1, ElementOfSeq, EmptySeq

\* A record with a frame more.
Pushed(d, q, f) ==
    /\ d \in State /\ Alike(d, q) /\ d.at = q.at /\ d.ctx = q.ctx
    /\ Len(d.stack) = Len(q.stack) + 1
    /\ \A i \in 1 .. Len(q.stack) : d.stack[i] = q.stack[i]
    /\ d.stack[Len(q.stack) + 1] = f

LEMMA PushFacts ==
  ASSUME NEW q \in State, NEW kind \in {"prep", "gen", "engine", "tool", "remote"}, NEW nth \in Nat,
         NEW name \in Qualified \cup {<<>>}
  PROVE  Pushed(Push(q, kind, nth, name), q, [kind |-> kind, nth |-> nth, name |-> name])
<1> DEFINE f == [kind |-> kind, nth |-> nth, name |-> name]
           d == Push(q, kind, nth, name)
<1>1. f \in Frame
  BY DEF Frame
<1> HIDE DEF f
<1>2. Append(q.stack, f) \in Seq(Frame) /\ q.stack \in Seq(Frame)
  BY <1>1 DEF State
<1>3. /\ Len(Append(q.stack, f)) = Len(q.stack) + 1
      /\ \A i \in 1 .. Len(q.stack) : Append(q.stack, f)[i] = q.stack[i]
      /\ Append(q.stack, f)[Len(q.stack) + 1] = f
  BY <1>1, <1>2, AppendProperties
<1>4. d = [q EXCEPT !.stack = Append(q.stack, f)]
  BY DEF Push, f
<1>5. d \in State /\ d.stack = Append(q.stack, f)
  BY <1>2, <1>4 DEF State
<1>6. Alike(d, q) /\ d.at = q.at /\ d.ctx = q.ctx
  BY <1>4 DEF State, Alike
<1> HIDE DEF d
<1>7. Pushed(d, q, f)
  BY <1>3, <1>5, <1>6 DEF Pushed
<1> QED BY <1>7 DEF d, f

LEMMA PopFacts ==
  ASSUME NEW q \in State, q.stack # <<>>
  PROVE  LET d == Pop(q) IN
         /\ d \in State /\ Alike(d, q) /\ d.at = q.at /\ d.ctx = q.ctx
         /\ Len(d.stack) = Len(q.stack) - 1 /\ Len(q.stack) \in Nat \ {0}
         /\ \A i \in 1 .. Len(d.stack) : d.stack[i] = q.stack[i]
<1> DEFINE s == q.stack
           d == Pop(q)
           t == SubSeq(s, 1, Len(s) - 1)
<1>1. s \in Seq(Frame) /\ s # <<>> /\ Len(s) \in Nat \ {0}
  BY StackType
<1>2. /\ t \in Seq(Frame) /\ Len(t) = Len(s) - 1
      /\ \A i \in 1 .. Len(t) : t[i] = s[i]
  BY <1>1, SubSeqProperties
<1>3. d = [q EXCEPT !.stack = t]
  BY DEF Pop
<1> HIDE DEF t
<1>4. d \in State /\ d.stack = t
  BY <1>2, <1>3 DEF State
<1>5. Alike(d, q) /\ d.at = q.at /\ d.ctx = q.ctx
  BY <1>3 DEF State, Alike
<1> QED BY <1>1, <1>2, <1>4, <1>5

\* A record with another stage.
LEMMA AtFacts ==
  ASSUME NEW q \in State, NEW at \in Stage
  PROVE  LET d == [q EXCEPT !.at = at] IN
         d \in State /\ Alike(d, q) /\ d.at = at /\ d.ctx = q.ctx /\ d.stack = q.stack
  BY DEF State, Alike

\* A plugin's call is counted against the bound.
LEMMA HostFacts ==
  ASSUME NEW q \in State
  PROVE  LET d == HostCalled(q) IN
         d \in State /\ Alike(d, q) /\ d.at = q.at /\ d.ctx = q.ctx /\ d.stack = q.stack
  BY DEF State, Alike, HostCalled

LEMMA ContextFacts ==
  ASSUME NEW q \in State, NEW c \in Context, c.held = q.ctx.held, Honest(q.ctx) => Honest(c)
  PROVE  LET d == [q EXCEPT !.ctx = c] IN
         d \in State /\ Alike(d, q) /\ d.at = q.at /\ d.stack = q.stack /\ Steady(d, q)
<1> DEFINE d == [q EXCEPT !.ctx = c]
<1>1. d \in State /\ Alike(d, q) /\ d.at = q.at /\ d.stack = q.stack /\ d.ctx = c
  BY DEF State, Alike
<1> HIDE DEF d
<1> QED BY <1>1 DEF Steady, d

\* A plugin writes a key of the metadata.
LEMMA AllowFacts ==
  ASSUME NEW q \in State, NEW l \in SUBSET Tokens
  PROVE  LET d == [q EXCEPT !.ctx.allow = l] IN
         d \in State /\ Alike(d, q) /\ d.at = q.at /\ d.stack = q.stack /\ Steady(d, q)
<1> DEFINE c == [q.ctx EXCEPT !.allow = l]
<1>1. c \in Context /\ c.held = q.ctx.held /\ (Honest(q.ctx) => Honest(c))
  BY DEF State, Context, Honest
<1>2. [q EXCEPT !.ctx.allow = l] = [q EXCEPT !.ctx = c]
  BY DEF State
<1> HIDE DEF c
<1> QED BY <1>1, <1>2, ContextFacts

LEMMA ModeFacts ==
  ASSUME NEW q \in State, NEW b \in BOOLEAN
  PROVE  LET d == [q EXCEPT !.ctx.research = b] IN
         d \in State /\ Alike(d, q) /\ d.at = q.at /\ d.stack = q.stack /\ Steady(d, q)
<1> DEFINE c == [q.ctx EXCEPT !.research = b]
<1>1. c \in Context /\ c.held = q.ctx.held /\ (Honest(q.ctx) => Honest(c))
  BY DEF State, Context, Honest
<1>2. [q EXCEPT !.ctx.research = b] = [q EXCEPT !.ctx = c]
  BY DEF State
<1> HIDE DEF c
<1> QED BY <1>1, <1>2, ContextFacts

LEMMA WrittenFacts ==
  ASSUME NEW q \in State, NEW n \in Written
  PROVE  LET d == [q EXCEPT !.ctx.sub = n, !.ctx.written = TRUE] IN
         d \in State /\ Alike(d, q) /\ d.at = q.at /\ d.stack = q.stack /\ Steady(d, q)
<1> DEFINE c == [q.ctx EXCEPT !.sub = n, !.written = TRUE]
<1>1. n \in Int
  BY PathAssumption
<1>2. c \in Context /\ c.held = q.ctx.held /\ Honest(c)
  BY <1>1 DEF State, Context, Honest
<1>3. [q EXCEPT !.ctx.sub = n, !.ctx.written = TRUE] = [q EXCEPT !.ctx = c]
  BY DEF State
<1> HIDE DEF c
<1> QED BY <1>2, <1>3, ContextFacts

\* An engine call is counted where the counter is and in the history.
LEMMA SubCallFacts ==
  ASSUME NEW q \in State, NEW ok \in BOOLEAN
  PROVE  LET d == SubCall(q, ok) IN
         d \in State /\ Alike(d, q) /\ d.at = q.at /\ d.stack = q.stack /\ Steady(d, q)
<1> DEFINE c == [q.ctx EXCEPT !.sub = @ + 1, !.made = @ + 1]
<1>1. c \in Context /\ c.held = q.ctx.held /\ (Honest(q.ctx) => Honest(c))
  <2>1. q.ctx \in Context
    BY DEF State
  <2> DEFINE n == q.ctx.sub + 1
             m == q.ctx.made + 1
  <2>2. n \in Int /\ m \in Nat /\ (q.ctx.sub = q.ctx.made => n = m)
    BY <2>1 DEF Context
  <2>3. c = [q.ctx EXCEPT !.sub = n, !.made = m]
    OBVIOUS
  <2> HIDE DEF n, m, c
  <2>4. /\ c \in Context /\ c.held = q.ctx.held /\ c.written = q.ctx.written
        /\ c.sub = n /\ c.made = m
    BY <2>1, <2>2, <2>3 DEF Context
  <2> QED BY <2>2, <2>4 DEF Honest
<1>2. SubCall(q, TRUE) = [q EXCEPT !.ctx = c] /\ SubCall(q, FALSE) = q
  BY DEF State, SubCall
<1> HIDE DEF c
<1>3. LET d == [q EXCEPT !.ctx = c] IN
      d \in State /\ Alike(d, q) /\ d.at = q.at /\ d.stack = q.stack /\ Steady(d, q)
  BY <1>1, ContextFacts
<1>4. Alike(q, q) /\ Steady(q, q)
  BY DEF Alike, Steady
<1> QED BY <1>2, <1>3, <1>4

-----------------------------------------------------------------------------
(* Steps *)

\* A plugin in the middle of a stage changes nothing that Good looks at.
LEMMA SameGood ==
  ASSUME NEW r, NEW q, Good(r, q), NEW d \in State, Alike(d, q), d.at = q.at,
         Steady(d, q), StackOK(d)
  PROVE  Good(r, d)
  BY DEF Good, Alike, Steady, RoundsOK, ResultsOK, ContextOK, PromptOK, AnswerOK, Backed,
         Reached, Results

\* A step that settles nothing.
LEMMA QuietMoves ==
  ASSUME NEW r \in Requests, NEW d, Good(r, d), Put(r, d), UNCHANGED totals,
         d.ctx.held = "gone" <=> rq[r].ctx.held = "gone",
         rq[r].ctx.held = "gone" =>
             d.ctx.sub = rq[r].ctx.sub /\ d.ctx.research = rq[r].ctx.research,
         Scoped(r, d)
  PROVE  Moves(r)
<1>1. Settled(r, d)
  BY DEF Settled
<1> QED BY <1>1 DEF Moves

LEMMA NotLonger ==
  ASSUME NEW r, NEW d, Len(d.stack) <= Len(rq[r].stack), Len(d.stack) \in Nat,
         Len(rq[r].stack) \in Nat
  PROVE  Scoped(r, d)
  BY DEF Scoped

LEMMA DroppedFacts ==
  ASSUME NEW q \in State
  PROVE  LET d == Dropped(q) IN
         /\ d \in State /\ Alike(d, q) /\ d.at = q.at /\ d.stack = q.stack
         /\ d.ctx.held = IF q.ctx.held = "none" THEN "none" ELSE "gone"
         /\ d.ctx.sub = q.ctx.sub /\ d.ctx.research = q.ctx.research
         /\ Honest(q.ctx) => Honest(d.ctx)
<1> DEFINE c == [q.ctx EXCEPT !.held = IF @ = "none" THEN "none" ELSE "gone"]
<1>1. /\ c \in Context /\ c.sub = q.ctx.sub /\ c.research = q.ctx.research
      /\ c.held = IF q.ctx.held = "none" THEN "none" ELSE "gone"
      /\ Honest(q.ctx) => Honest(c)
  <2>1. q.ctx \in Context
    BY DEF State
  <2> QED BY <2>1 DEF Context, Honest
<1>2. Dropped(q) = [q EXCEPT !.ctx = c]
  BY DEF State, Dropped
<1> HIDE DEF c
<1>3. LET d == [q EXCEPT !.ctx = c] IN
      d \in State /\ Alike(d, q) /\ d.at = q.at /\ d.stack = q.stack /\ d.ctx = c
  BY <1>1 DEF State, Alike
<1> QED BY <1>1, <1>2, <1>3

\* The recorder counts a chat that still holds its context.
LEMMA RecordSettles ==
  ASSUME NEW r \in Requests, totals \in Totals, NEW q \in State, q.ctx = rq[r].ctx, Record(r, q),
         rq[r].ctx.held # "lost",
         NEW d, d.ctx.held = IF q.ctx.held = "none" THEN "none" ELSE "gone",
         d.ctx.sub = q.ctx.sub, d.ctx.research = q.ctx.research
  PROVE  Settled(r, d)
<1>1. /\ q.ctx.sub \in Int /\ q.ctx.held = rq[r].ctx.held
      /\ d.ctx.sub = rq[r].ctx.sub /\ d.ctx.research = rq[r].ctx.research
  BY DEF State, Context
<1>2. CASE ~(IsChat(r) /\ q.ctx.held \in {"held", "stream"})
  BY <1>1, <1>2 DEF Record, Settled
<1>3. CASE IsChat(r) /\ q.ctx.held \in {"held", "stream"}
  <2> DEFINE inc == IF q.ctx.research THEN 1 ELSE 0
  <2>1. inc * q.ctx.sub \in Int
    BY <1>1
  <2>2. totals' = [chat |-> totals.chat + 1, research |-> totals.research + inc,
                   subcalls |-> totals.subcalls + inc * q.ctx.sub]
    BY <1>3 DEF Record
  <2>3. totals' \in Totals
    BY <2>1, <2>2 DEF Totals
  <2>4. inc * q.ctx.sub = IF q.ctx.research THEN q.ctx.sub ELSE 0
    BY <1>1
  <2>5. /\ totals'.chat = totals.chat + 1
        /\ totals'.research = totals.research + inc
        /\ totals'.subcalls = totals.subcalls + IF q.ctx.research THEN q.ctx.sub ELSE 0
    BY <2>2, <2>4
  <2> QED BY <1>1, <1>3, <2>3, <2>5 DEF Settled
<1> QED BY <1>2, <1>3

\* The end of a request.
LEMMA EndMoves ==
  ASSUME PathInv, NEW r \in Requests, NEW q \in State, NEW status \in Statuses, End(r, q, status),
         rq[r].at # "done",
         q.ctx = rq[r].ctx, q.stack = <<>>, q.conv = rq[r].conv,
         q.loop.round = rq[r].loop.round, q.loop.given = rq[r].loop.given,
         q.out.by = "loop" => Backed(r, q) /\ Reached(q)
  PROVE  Moves(r)
<1> DEFINE b == Dropped(q)
           o == [b.out EXCEPT !.status = status]
           d == [b EXCEPT !.at = "done", !.out.status = status]
<1>1. /\ Good(r, rq[r]) /\ rq[r] \in State /\ totals \in Totals
  BY Facts
<1>2. /\ b \in State /\ Alike(b, q) /\ b.stack = q.stack
      /\ b.ctx.held = IF q.ctx.held = "none" THEN "none" ELSE "gone"
      /\ b.ctx.sub = q.ctx.sub /\ b.ctx.research = q.ctx.research
      /\ Honest(q.ctx) => Honest(b.ctx)
  BY DroppedFacts
<1> HIDE DEF b
<1>3. o \in Outcome /\ o.by = b.out.by /\ o.finish = b.out.finish
  BY <1>2 DEF State, Outcome, Statuses
<1>4. d = [b EXCEPT !.at = "done", !.out = o]
  BY <1>2 DEF State
<1> HIDE DEF o
<1>5. /\ d \in State /\ d.at = "done" /\ d.out = o /\ d.conv = b.conv /\ d.loop = b.loop
      /\ d.stack = b.stack /\ d.ctx = b.ctx
  BY <1>2, <1>3, <1>4 DEF State, Stage
<1> HIDE DEF d
<1>6. /\ d.conv = q.conv /\ d.loop = q.loop /\ d.stack = <<>> /\ d.out.by = q.out.by
      /\ d.out.finish = q.out.finish /\ d.ctx.sub = q.ctx.sub
      /\ d.ctx.research = q.ctx.research /\ (Honest(q.ctx) => Honest(d.ctx))
      /\ d.ctx.held = IF q.ctx.held = "none" THEN "none" ELSE "gone"
  BY <1>2, <1>3, <1>5 DEF Alike
<1>7. q.conv = rq[r].conv /\ q.loop.round = rq[r].loop.round /\ q.loop.given = rq[r].loop.given
  OBVIOUS
<1>8. StackOK(d)
  BY <1>5, <1>6 DEF StackOK
<1>9. RoundsOK(r, d) /\ ResultsOK(d)
  BY <1>1, <1>5, <1>6, <1>7 DEF RoundsOK, ResultsOK, Results, Good, Opening, Claiming
<1>10. ContextOK(r, d) /\ PromptOK(r, d)
  BY <1>1, <1>5, <1>6, <1>7 DEF ContextOK, PromptOK, Good
<1>11. AnswerOK(r, d)
  BY <1>5, <1>6 DEF AnswerOK, Backed, Reached, Results
<1>12. Put(r, d) /\ Record(r, q)
  BY DEF End, d, b
<1>13. rq[r].ctx.held # "lost"
  BY <1>1 DEF Good, ContextOK
<1>14. Settled(r, d)
  BY <1>1, <1>6, <1>12, <1>13, RecordSettles
<1>15. Scoped(r, d)
  BY <1>1, <1>6, StackType, NotLonger
<1> QED BY <1>5, <1>8, <1>9, <1>10, <1>11, <1>12, <1>14, <1>15 DEF Moves, Good

\* An end in which only the outcome differs from what the request had.
LEMMA ByFacts ==
  ASSUME NEW q \in State, NEW by \in {"none", "direct", "prep", "gen", "live", "loop"}
  PROVE  LET d == [q EXCEPT !.out.by = by] IN
         /\ d \in State /\ d.out.by = by /\ d.out.finish = q.out.finish
         /\ d.ctx = q.ctx /\ d.conv = q.conv /\ d.loop = q.loop /\ d.stack = q.stack
<1> DEFINE o == [q.out EXCEPT !.by = by]
<1>1. o \in Outcome /\ o.by = by /\ o.finish = q.out.finish
  BY DEF State, Outcome
<1>2. [q EXCEPT !.out.by = by] = [q EXCEPT !.out = o]
  BY DEF State
<1> HIDE DEF o
<1> QED BY <1>1, <1>2 DEF State

LEMMA FinishFacts ==
  ASSUME NEW q \in State, NEW finish \in {"none", "stop", "tool_calls"}
  PROVE  LET d == [q EXCEPT !.out.finish = finish] IN
         /\ d \in State /\ d.out.finish = finish /\ d.out.by = q.out.by
         /\ d.at = q.at /\ d.ctx = q.ctx /\ d.conv = q.conv /\ d.prompt = q.prompt
         /\ d.loop = q.loop /\ d.stack = q.stack
<1> DEFINE o == [q.out EXCEPT !.finish = finish]
<1>1. o \in Outcome /\ o.finish = finish /\ o.by = q.out.by
  BY DEF State, Outcome
<1>2. [q EXCEPT !.out.finish = finish] = [q EXCEPT !.out = o]
  BY DEF State
<1> HIDE DEF o
<1> QED BY <1>1, <1>2 DEF State

LEMMA EndOkMoves ==
  ASSUME PathInv, NEW r \in Requests, NEW q \in State, NEW by \in {"direct", "prep", "gen", "live"},
         EndOk(r, q, by), rq[r].at # "done",
         q.ctx = rq[r].ctx, q.stack = <<>>, q.conv = rq[r].conv,
         q.loop.round = rq[r].loop.round, q.loop.given = rq[r].loop.given
  PROVE  Moves(r)
<1> DEFINE d == [q EXCEPT !.out.by = by]
<1>1. /\ d \in State /\ d.out.by = by /\ d.ctx = rq[r].ctx /\ d.stack = <<>>
      /\ d.conv = rq[r].conv /\ d.loop.round = rq[r].loop.round
      /\ d.loop.given = rq[r].loop.given
  <2>1. by \in {"none", "direct", "prep", "gen", "live", "loop"}
    OBVIOUS
  <2>2. /\ d \in State /\ d.out.by = by /\ d.ctx = q.ctx /\ d.conv = q.conv
        /\ d.loop = q.loop /\ d.stack = q.stack
    <3>1. d \in State /\ d.out.by = by
      BY <2>1, ByFacts
    <3>2. d.ctx = q.ctx /\ d.conv = q.conv
      BY DEF State
    <3>3. d.loop = q.loop /\ d.stack = q.stack
      BY DEF State
    <3> HIDE DEF d
    <3> QED BY <3>1, <3>2, <3>3
  <2> HIDE DEF d
  <2> QED BY <2>2
<1>2. End(r, d, 200)
  BY DEF EndOk
<1> HIDE DEF d
<1> QED BY <1>1, <1>2, EndMoves DEF Statuses

\* A stage before the tool loop follows another.
LEMMA OpeningMoves ==
  ASSUME PathInv, NEW r \in Requests, NEW d \in State, Put(r, d), UNCHANGED totals,
         d.conv = rq[r].conv, d.loop = rq[r].loop, d.out = rq[r].out,
         rq[r].at \in Opening, d.at \in Opening \ {"idle"},
         d.ctx = rq[r].ctx \/ (d.ctx.held = "held" /\ Honest(d.ctx)),
         d.at \in {"auth", "parse"} => d.ctx.held = "none",
         StackOK(d), Scoped(r, d)
  PROVE  Moves(r)
<1>1. Good(r, rq[r]) /\ rq[r] \in State
  BY Facts
<1>2. ContextOK(r, d) /\ d.ctx.held # "gone"
  BY <1>1 DEF ContextOK, Opening, Good
<1>3. RoundsOK(r, d) /\ ResultsOK(d) /\ PromptOK(r, d) /\ AnswerOK(r, d)
  BY <1>1 DEF Good, RoundsOK, ResultsOK, Results, PromptOK, AnswerOK, Opening, Backed, Reached
<1>4. rq[r].ctx.held # "gone"
  BY <1>1 DEF Good, ContextOK, Opening
<1> QED BY <1>2, <1>3, <1>4, QuietMoves DEF Good

LEMMA OnwardMoves ==
  ASSUME PathInv, NEW r \in Requests, NEW d \in State, Put(r, d), UNCHANGED totals,
         rq[r].stack = <<>>, d.stack = <<>>,
         d.conv = rq[r].conv, d.loop = rq[r].loop, d.out = rq[r].out,
         rq[r].at \in Opening, d.at \in Opening \ {"idle"},
         d.ctx = rq[r].ctx \/ (d.ctx.held = "held" /\ Honest(d.ctx)),
         d.at \in {"auth", "parse"} => d.ctx.held = "none"
  PROVE  Moves(r)
<1>1. StackOK(d)
  BY DEF StackOK
<1>2. Scoped(r, d)
  BY EmptySeq, NotLonger
<1> QED BY <1>1, <1>2, OpeningMoves

-----------------------------------------------------------------------------
(* The front of the server, the chain and what plugins call *)

LEMMA ArriveMoves ==
  ASSUME PathInv, NEW r \in Requests, Arrive(r) PROVE Moves(r)
<1>1. Good(r, rq[r]) /\ rq[r] \in State /\ rq[r].at = "idle" /\ rq[r].stack = <<>>
      /\ rq[r].ctx.held = "none"
  BY Facts DEF Arrive, Good, StackOK, ContextOK
<1>2. CASE EndOk(r, rq[r], "direct")
  BY <1>1, <1>2, EndOkMoves
<1>3. CASE End(r, rq[r], 429)
  BY <1>1, <1>3, EndMoves DEF Statuses, Good, AnswerOK
<1>4. CASE Goto(r, "auth")
  <2> DEFINE d == [rq[r] EXCEPT !.at = "auth"]
  <2>1. /\ d \in State /\ Alike(d, rq[r]) /\ d.at = "auth" /\ d.ctx = rq[r].ctx
        /\ d.stack = rq[r].stack
    BY <1>1, AtFacts DEF Stage
  <2>2. Put(r, d) /\ UNCHANGED totals
    BY <1>4 DEF Goto
  <2> HIDE DEF d
  <2> QED BY <1>1, <2>1, <2>2, OnwardMoves DEF Alike, Opening
<1> QED BY <1>2, <1>3, <1>4 DEF Arrive

LEMMA CheckAuthMoves ==
  ASSUME PathInv, NEW r \in Requests, CheckAuth(r) PROVE Moves(r)
<1>1. Good(r, rq[r]) /\ rq[r] \in State /\ rq[r].at = "auth" /\ rq[r].stack = <<>>
      /\ rq[r].ctx.held = "none"
  BY Facts DEF CheckAuth, Good, StackOK, ContextOK
<1>2. CASE Goto(r, "parse")
  <2> DEFINE d == [rq[r] EXCEPT !.at = "parse"]
  <2>1. /\ d \in State /\ Alike(d, rq[r]) /\ d.at = "parse" /\ d.ctx = rq[r].ctx
        /\ d.stack = rq[r].stack
    BY <1>1, AtFacts DEF Stage
  <2>2. Put(r, d) /\ UNCHANGED totals
    BY <1>2 DEF Goto
  <2> HIDE DEF d
  <2> QED BY <1>1, <2>1, <2>2, OnwardMoves DEF Alike, Opening
<1>3. CASE End(r, rq[r], 401)
  BY <1>1, <1>3, EndMoves DEF Statuses, Good, AnswerOK
<1> QED BY <1>2, <1>3 DEF CheckAuth

LEMMA ParseMoves ==
  ASSUME PathInv, NEW r \in Requests, Parse(r) PROVE Moves(r)
<1> DEFINE s == shape[r]
           at == IF s.api = "debug" THEN "debug" ELSE "prepare"
           c == [held |-> "held", allow |-> s.allow, research |-> s.research,
                 sub |-> s.count, made |-> 0, written |-> s.count # 0]
           d == [rq[r] EXCEPT !.at = at, !.ctx = c]
<1>1. Good(r, rq[r]) /\ rq[r] \in State /\ rq[r].at = "parse" /\ rq[r].stack = <<>>
      /\ rq[r].ctx.held = "none"
  BY Facts DEF Parse, Good, StackOK, ContextOK
<1>2. CASE EndOk(r, rq[r], "direct")
  BY <1>1, <1>2, EndOkMoves
<1>3. CASE End(r, rq[r], Verdict(s)) /\ Verdict(s) # 200
  <2>1. Verdict(s) \in Statuses
    BY DEF Verdict, Statuses
  <2> QED BY <1>1, <1>3, <2>1, EndMoves DEF Good, AnswerOK
<1>4. CASE Put(r, d) /\ UNCHANGED totals
  <2>1. s.allow \in SUBSET Tokens /\ s.research \in BOOLEAN /\ s.count \in Int
    BY Facts DEF Shape
  <2>2. c \in Context /\ c.held = "held" /\ Honest(c)
    BY <2>1 DEF Context, Honest
  <2> HIDE DEF c
  <2>3. d \in State /\ d.at = at /\ d.ctx = c /\ Alike(d, rq[r]) /\ d.stack = rq[r].stack
    BY <1>1, <2>2 DEF State, Stage, Alike
  <2> HIDE DEF d
  <2> QED BY <1>1, <1>4, <2>2, <2>3, OnwardMoves DEF Alike, Opening
<1> QED BY <1>2, <1>3, <1>4 DEF Parse, Report, Opened

LEMMA ChainMoves ==
  ASSUME PathInv, NEW r \in Requests, NEW q \in State, NEW n \in Nat,
         Put(r, RunChain(q, n)), UNCHANGED totals,
         q.at = "prep", q.stack = <<>>, Alike(q, rq[r]), q.ctx = rq[r].ctx,
         rq[r].at \in {"prepare", "prep"}
  PROVE  Moves(r)
<1>2. CASE n <= NPre
  <2> DEFINE d == Push(q, "prep", n, <<>>)
  <2>1. /\ d \in State /\ Alike(d, q) /\ d.at = "prep" /\ d.ctx = q.ctx
        /\ Len(d.stack) = 1 /\ d.stack[1].kind = "prep"
    <3>1. Len(q.stack) = 0 /\ <<>> \in Qualified \cup {<<>>}
      BY EmptySeq
    <3>2. Pushed(d, q, [kind |-> "prep", nth |-> n, name |-> <<>>])
      BY <3>1, PushFacts
    <3> HIDE DEF d
    <3> QED BY <3>1, <3>2 DEF Pushed
  <2>2. Put(r, d)
    BY <1>2 DEF RunChain
  <2> HIDE DEF d
  <2>3. StackOK(d)
    BY <2>1 DEF StackOK
  <2>4. Scoped(r, d)
    BY <2>1 DEF Scoped, Runs, Top
  <2>5. d.conv = rq[r].conv /\ d.loop = rq[r].loop /\ d.out = rq[r].out
    BY <2>1 DEF Alike
  <2>6. d.ctx = rq[r].ctx /\ d.at \notin {"auth", "parse"}
    BY <2>1
  <2>7. rq[r].at \in Opening /\ d.at \in Opening \ {"idle"}
    BY <2>1 DEF Opening
  <2> HIDE DEF Opening
  <2> QED BY <2>1, <2>2, <2>3, <2>4, <2>5, <2>6, <2>7, OpeningMoves
<1>3. CASE ~(n <= NPre)
  <2> DEFINE d == [q EXCEPT !.at = "inject"]
  <2>0. "inject" \in Stage
    BY DEF Stage
  <2>1. /\ d \in State /\ Alike(d, q) /\ d.at = "inject" /\ d.ctx = q.ctx
        /\ d.stack = <<>>
    BY <2>0, AtFacts
  <2>2. Put(r, d)
    BY <1>3 DEF RunChain
  <2> HIDE DEF d
  <2>3. StackOK(d)
    BY <2>1 DEF StackOK
  <2>4. Scoped(r, d)
    BY <2>1 DEF Scoped, Runs
  <2>5. d.conv = rq[r].conv /\ d.loop = rq[r].loop /\ d.out = rq[r].out
    BY <2>1 DEF Alike
  <2>6. d.ctx = rq[r].ctx /\ d.at \notin {"auth", "parse"}
    BY <2>1
  <2>7. rq[r].at \in Opening /\ d.at \in Opening \ {"idle"}
    BY <2>1 DEF Opening
  <2> HIDE DEF Opening
  <2> QED BY <2>1, <2>2, <2>3, <2>4, <2>5, <2>6, <2>7, OpeningMoves
<1> QED BY <1>2, <1>3

LEMMA PrepareMoves ==
  ASSUME PathInv, NEW r \in Requests, Prepare(r) PROVE Moves(r)
<1> DEFINE q == [rq[r] EXCEPT !.at = "prep"]
           d == RunChain(q, 1)
<1>1. Good(r, rq[r]) /\ rq[r] \in State /\ rq[r].at = "prepare" /\ rq[r].stack = <<>>
      /\ rq[r].ctx.held # "gone"
  BY Facts DEF Prepare, Good, StackOK, ContextOK
<1>2. q \in State /\ Alike(q, rq[r]) /\ q.at = "prep" /\ q.ctx = rq[r].ctx /\ q.stack = <<>>
  <2>1. "prep" \in Stage
    BY DEF Stage
  <2>2. /\ q \in State /\ Alike(q, rq[r]) /\ q.at = "prep" /\ q.ctx = rq[r].ctx
        /\ q.stack = rq[r].stack
    BY <1>1, <2>1, AtFacts
  <2> HIDE DEF q
  <2> QED BY <1>1, <2>2
<1>3. Put(r, d) /\ UNCHANGED totals
  BY DEF Prepare
<1> HIDE DEF q
<1> QED BY <1>1, <1>2, <1>3, ChainMoves

\* What remains of a stack keeps its bottom.
LEMMA PopStack ==
  ASSUME NEW r, NEW q, Good(r, q), q.stack # <<>>
  PROVE  /\ StackOK(Pop(q))
         /\ Pop(q).stack # <<>> => Pop(q).stack[1] = q.stack[1]
         /\ Pop(q).stack = <<>> => Top(q) = q.stack[1]
<1> DEFINE d == Pop(q)
<1>1. /\ d \in State /\ Alike(d, q) /\ d.at = q.at
      /\ Len(d.stack) = Len(q.stack) - 1 /\ Len(q.stack) \in Nat \ {0}
      /\ \A i \in 1 .. Len(d.stack) : d.stack[i] = q.stack[i]
  BY PopFacts DEF Good
<1> HIDE DEF d
<1>2. d.stack # <<>> <=> Len(d.stack) > 0
  BY <1>1, StackType
<1>3. d.stack # <<>> => d.stack[1] = q.stack[1]
  BY <1>1, <1>2
<1>4. d.stack = <<>> => Top(q) = q.stack[1]
  BY <1>1, <1>2 DEF Top
<1>5. StackOK(d)
  <2>1. StackOK(q) /\ d.loop = q.loop
    BY <1>1 DEF Good, Alike
  <2>2. \A i \in 2 .. Len(d.stack) : d.stack[i].kind # "gen"
    BY <1>1, <2>1 DEF StackOK
  <2>3. d.stack # <<>> => q.stack # <<>>
    BY <1>1, <1>2
  <2>4. d.at = q.at
    BY <1>1
  <2> QED BY ONLY <1>3, <2>1, <2>2, <2>3, <2>4, Zenon DEF StackOK
<1> QED BY <1>3, <1>4, <1>5 DEF d

\* A frame on top of others.
LEMMA PushStack ==
  ASSUME NEW q \in State, StackOK(q), q.stack # <<>>,
         NEW kind \in {"prep", "engine", "tool", "remote"}, NEW nth \in Nat,
         NEW name \in Qualified \cup {<<>>}
  PROVE  /\ StackOK(Push(q, kind, nth, name)) /\ Push(q, kind, nth, name).stack # <<>>
         /\ Top(Push(q, kind, nth, name)) = [kind |-> kind, nth |-> nth, name |-> name]
<1> DEFINE d == Push(q, kind, nth, name)
           f == [kind |-> kind, nth |-> nth, name |-> name]
<1>1. Pushed(d, q, f)
  BY PushFacts
<1>2. Len(q.stack) \in Nat \ {0} /\ f.kind # "gen"
  BY StackType
<1> HIDE DEF d, f
<1>3. d.stack # <<>>
  BY <1>1, <1>2, StackType DEF Pushed
<1>4. d.stack[1] = q.stack[1]
  BY <1>1, <1>2 DEF Pushed
<1>5. \A i \in 2 .. Len(d.stack) : d.stack[i].kind # "gen"
  BY <1>1, <1>2 DEF StackOK, Pushed
<1>6. StackOK(d)
  BY <1>1, <1>3, <1>4, <1>5 DEF StackOK, Alike, Pushed
<1>7. Top(d) = f
  BY <1>1 DEF Pushed, Top
<1> QED BY <1>3, <1>6, <1>7 DEF d, f

\* Plugin code changes nothing that Good looks at, and starts no tool.
LEMMA SameMoves ==
  ASSUME PathInv, NEW r \in Requests, NEW d \in State, Put(r, d), UNCHANGED totals,
         Alike(d, rq[r]), d.at = rq[r].at, Steady(d, rq[r]), StackOK(d),
         Scoped(r, d), rq[r].stack # <<>> \/ rq[r].at \in {"tool", "debug"}
  PROVE  Moves(r)
<1>1. Good(r, rq[r])
  BY Facts
<1>2. Good(r, d)
  BY <1>1, SameGood
<1>3. rq[r].ctx.held # "gone"
  BY <1>1 DEF Good, StackOK, ContextOK
<1>4. d.ctx.held # "gone"
  BY <1>3 DEF Steady
<1> QED BY <1>2, <1>3, <1>4, QuietMoves

LEMMA PrepReturnMoves ==
  ASSUME PathInv, NEW r \in Requests, PrepReturn(r) PROVE Moves(r)
<1> DEFINE q == Pop(rq[r])
           n == Top(rq[r]).nth
<1>1. /\ Good(r, rq[r]) /\ rq[r] \in State /\ totals \in Totals
      /\ rq[r].stack # <<>> /\ Top(rq[r]).kind = "prep"
  BY Facts DEF PrepReturn
<1>2. /\ q \in State /\ Alike(q, rq[r]) /\ q.at = rq[r].at /\ q.ctx = rq[r].ctx
      /\ Len(q.stack) = Len(rq[r].stack) - 1 /\ Len(rq[r].stack) \in Nat \ {0}
  BY <1>1, PopFacts
<1>3. StackOK(q) /\ (q.stack = <<>> => Top(rq[r]) = rq[r].stack[1])
  BY <1>1, PopStack
<1>4. n \in Nat
  BY <1>1, <1>2, StackType DEF Top, Frame
<1>5. CASE q.stack = <<>>
  <2>1. rq[r].at = "prep"
    BY <1>1, <1>3, <1>5 DEF Good, StackOK
  <2>2. CASE Put(r, RunChain(q, n + 1)) /\ UNCHANGED totals
    <3>1. n + 1 \in Nat
      BY <1>4
    <3> HIDE DEF q, n
    <3> QED BY <1>2, <1>5, <2>1, <2>2, <3>1, ChainMoves
  <2>3. CASE EndOk(r, q, "prep")
    <3> HIDE DEF q
    <3> QED BY <1>2, <1>5, <2>1, <2>3, EndOkMoves DEF Alike
  <2>4. CASE End(r, q, 400)
    <3>1. q.out.by # "loop"
      BY <1>1, <1>2, <2>1 DEF Alike, Good, AnswerOK
    <3> HIDE DEF q
    <3> QED BY <1>2, <1>5, <2>1, <2>4, <3>1, EndMoves DEF Alike, Statuses
  <2> QED BY <1>5, <2>2, <2>3, <2>4 DEF PrepReturn
<1>6. CASE q.stack # <<>>
  <2>1. UNCHANGED totals
    BY <1>6 DEF PrepReturn
  <2>2. CASE Put(r, Push(q, "prep", n + 1, <<>>))
    <3> DEFINE d == Push(q, "prep", n + 1, <<>>)
    <3>1. n + 1 \in Nat /\ <<>> \in Qualified \cup {<<>>}
      BY <1>4
    <3> HIDE DEF q, n
    <3>2. Pushed(d, q, [kind |-> "prep", nth |-> n + 1, name |-> <<>>])
      BY <1>2, <3>1, PushFacts
    <3>3. StackOK(d) /\ Top(d) = [kind |-> "prep", nth |-> n + 1, name |-> <<>>]
      BY <1>2, <1>3, <1>6, <3>1, PushStack
    <3>4. Scoped(r, d)
      BY <3>3 DEF Scoped, Runs
    <3>5. Put(r, d)
      BY <2>2
    <3> HIDE DEF d
    <3> QED BY <1>2, <2>1, <3>2, <3>3, <3>4, <3>5, SameMoves DEF Alike, Pushed, Steady
  <2>3. ASSUME NEW ok \in BOOLEAN, Put(r, SubCall(Pop(q), ok))
        PROVE  Moves(r)
    <3> DEFINE p == Pop(q)
               d == SubCall(p, ok)
    <3>1. Good(r, q)
      BY <1>1, <1>2, <1>3, SameGood DEF Steady
    <3> HIDE DEF q
    <3>2. /\ p \in State /\ Alike(p, q) /\ p.at = q.at /\ p.ctx = q.ctx
          /\ Len(p.stack) = Len(q.stack) - 1
      BY <1>2, <1>6, PopFacts
    <3>3. StackOK(p)
      BY <1>6, <3>1, PopStack
    <3> HIDE DEF p
    <3>4. d \in State /\ Alike(d, p) /\ d.at = p.at /\ d.stack = p.stack /\ Steady(d, p)
      BY <3>2, SubCallFacts
    <3>5. Put(r, d)
      BY <2>3 DEF p
    <3> HIDE DEF d
    <3>6. StackOK(d) /\ Alike(d, rq[r]) /\ Steady(d, rq[r])
      BY <1>2, <3>2, <3>3, <3>4 DEF StackOK, Alike, Steady
    <3>7. Scoped(r, d)
      BY <1>2, <3>2, <3>4, StackType, NotLonger
    <3> QED BY <1>2, <2>1, <3>2, <3>4, <3>5, <3>6, <3>7, SameMoves
  <2>4. CASE Put(r, Pop(q))
    <3> DEFINE p == Pop(q)
    <3>1. Good(r, q)
      BY <1>1, <1>2, <1>3, SameGood DEF Steady
    <3> HIDE DEF q
    <3>2. /\ p \in State /\ Alike(p, q) /\ p.at = q.at /\ p.ctx = q.ctx
          /\ Len(p.stack) = Len(q.stack) - 1
      BY <1>2, <1>6, PopFacts
    <3>3. StackOK(p)
      BY <1>6, <3>1, PopStack
    <3>4. Put(r, p)
      BY <2>4
    <3> HIDE DEF p
    <3>5. Alike(p, rq[r]) /\ Steady(p, rq[r])
      BY <1>2, <3>2 DEF Alike, Steady
    <3>6. Scoped(r, p)
      BY <1>2, <3>2, StackType, NotLonger
    <3> QED BY <1>2, <2>1, <3>2, <3>3, <3>4, <3>5, <3>6, SameMoves
  <2> QED BY <1>6, <2>2, <2>3, <2>4 DEF PrepReturn
<1> QED BY <1>5, <1>6

LEMMA HostMoves ==
  ASSUME PathInv, NEW r \in Requests, NEW d \in State, Put(r, d), UNCHANGED totals,
         Alike(d, rq[r]), d.at = rq[r].at, Steady(d, rq[r]), d.stack = rq[r].stack,
         rq[r].stack # <<>>
  PROVE  Moves(r)
<1>1. Good(r, rq[r]) /\ rq[r] \in State
  BY Facts
<1>2. StackOK(d)
  BY <1>1 DEF StackOK, Good, Alike
<1>3. Scoped(r, d)
  BY <1>1, StackType, NotLonger
<1> QED BY <1>2, <1>3, SameMoves

LEMMA SetMetadataMoves ==
  ASSUME PathInv, NEW r \in Requests, SetMetadata(r) PROVE Moves(r)
<1> DEFINE q == HostCalled(rq[r])
<1>1. /\ q \in State /\ Alike(q, rq[r]) /\ q.at = rq[r].at /\ q.ctx = rq[r].ctx
      /\ q.stack = rq[r].stack
  BY Facts, HostFacts
<1>2. UNCHANGED totals /\ rq[r].stack # <<>>
  BY DEF SetMetadata, CallsHost
<1>3. ASSUME NEW d \in State, Alike(d, q), d.at = q.at, d.stack = q.stack, Steady(d, q), Put(r, d)
      PROVE  Moves(r)
  <2> HIDE DEF q
  <2>1. Alike(d, rq[r]) /\ Steady(d, rq[r])
    BY <1>1, <1>3 DEF Alike, Steady
  <2> QED BY <1>1, <1>2, <1>3, <2>1, HostMoves
<1>4. \/ \E l \in AllowLists : Put(r, [q EXCEPT !.ctx.allow = l])
      \/ \E b \in BOOLEAN : Put(r, [q EXCEPT !.ctx.research = b])
      \/ \E n \in Written : Put(r, [q EXCEPT !.ctx.sub = n, !.ctx.written = TRUE])
  BY DEF SetMetadata
<1> HIDE DEF q
<1>5. ASSUME NEW l \in AllowLists, Put(r, [q EXCEPT !.ctx.allow = l]) PROVE Moves(r)
  <2>1. l \in SUBSET Tokens
    BY MixesAssumption
  <2> QED BY <1>1, <1>3, <1>5, <2>1, AllowFacts
<1>6. ASSUME NEW b \in BOOLEAN, Put(r, [q EXCEPT !.ctx.research = b]) PROVE Moves(r)
  BY <1>1, <1>3, <1>6, ModeFacts
<1>7. ASSUME NEW n \in Written, Put(r, [q EXCEPT !.ctx.sub = n, !.ctx.written = TRUE])
      PROVE  Moves(r)
  BY <1>1, <1>3, <1>7, WrittenFacts
<1> QED BY <1>4, <1>5, <1>6, <1>7

LEMMA CallEngineMoves ==
  ASSUME PathInv, NEW r \in Requests, CallEngine(r) PROVE Moves(r)
<1> DEFINE q == HostCalled(rq[r])
<1>1. q \in State /\ Alike(q, rq[r]) /\ q.at = rq[r].at /\ q.ctx = rq[r].ctx
      /\ q.stack = rq[r].stack
  BY Facts, HostFacts
<1>2. UNCHANGED totals /\ q.stack # <<>> /\ StackOK(rq[r])
  BY <1>1, Facts DEF CallEngine, CallsHost, Good
<1>3. CASE Put(r, q)
  <2> HIDE DEF q
  <2> QED BY <1>1, <1>2, <1>3, HostMoves DEF Steady
<1>4. ASSUME NEW ok \in BOOLEAN, Put(r, SubCall(q, ok)) PROVE Moves(r)
  <2> DEFINE d == SubCall(q, ok)
  <2> HIDE DEF q
  <2>1. d \in State /\ Alike(d, q) /\ d.at = q.at /\ d.stack = q.stack /\ Steady(d, q)
    BY <1>1, SubCallFacts
  <2>2. Put(r, d)
    BY <1>4
  <2> HIDE DEF d
  <2>3. Alike(d, rq[r]) /\ Steady(d, rq[r])
    BY <1>1, <2>1 DEF Alike, Steady
  <2> QED BY <1>1, <1>2, <2>1, <2>2, <2>3, HostMoves
<1>5. CASE Put(r, Push(Push(q, "engine", 0, <<>>), "prep", 1, <<>>))
  <2> DEFINE e == Push(q, "engine", 0, <<>>)
             d == Push(e, "prep", 1, <<>>)
  <2> HIDE DEF q
  <2>1. StackOK(q) /\ <<>> \in Qualified \cup {<<>>}
    BY <1>1, <1>2 DEF StackOK, Alike
  <2>2. e \in State /\ Alike(e, q) /\ e.at = q.at /\ e.ctx = q.ctx
    <3>1. Pushed(e, q, [kind |-> "engine", nth |-> 0, name |-> <<>>])
      BY <1>1, <2>1, PushFacts
    <3> QED BY <3>1 DEF Pushed
  <2>3. StackOK(e) /\ e.stack # <<>>
    BY <1>1, <1>2, <2>1, PushStack
  <2>4. Put(r, d)
    BY <1>5
  <2> HIDE DEF e
  <2>5. d \in State /\ Alike(d, e) /\ d.at = e.at /\ d.ctx = e.ctx
    <3>1. Pushed(d, e, [kind |-> "prep", nth |-> 1, name |-> <<>>])
      BY <2>1, <2>2, PushFacts
    <3> QED BY <3>1 DEF Pushed
  <2>6. StackOK(d) /\ Top(d) = [kind |-> "prep", nth |-> 1, name |-> <<>>]
    BY <2>1, <2>2, <2>3, PushStack
  <2> HIDE DEF d
  <2>7. Scoped(r, d)
    BY <2>6 DEF Scoped, Runs
  <2>8. Alike(d, rq[r]) /\ Steady(d, rq[r])
    BY <1>1, <2>2, <2>5 DEF Alike, Steady
  <2> QED BY <1>1, <1>2, <2>2, <2>4, <2>5, <2>6, <2>7, <2>8, SameMoves
<1> QED BY <1>3, <1>4, <1>5 DEF CallEngine

-----------------------------------------------------------------------------
(* Tools *)

\* Whatever name a tool was called by, what runs is what the list names.
LEMMA AllowedInScope ==
  ASSUME RegistryTypeOK, NEW name \in Names, NEW allow \in SUBSET Tokens,
         IsToolAllowed(name, allow), Index(name) # NotFound
  PROVE  InScope(Lookup(name).name, allow)
<1> DEFINE e == Lookup(name)
<1>1. /\ e \in Entry /\ e.name \in Qualified
      /\ e.name = name \/ ShortOf(e.name) = name
  BY LookupFacts DEF Entry
<1> HIDE DEF e
<1>2. CASE e.name = name
  BY <1>2 DEF IsToolAllowed, InScope, e
<1>3. CASE ShortOf(e.name) = name
  <2>1. name[1] = Short /\ ShortOf(name) = name
    BY <1>3 DEF ShortOf
  <2>2. <<Short, Any>> \notin Tokens
    BY RegistryAssumption, PathAssumption DEF Tokens, Names
  <2>3. <<name[1], Any>> \notin allow
    BY <2>1, <2>2
  <2> QED BY <1>3, <2>1, <2>3 DEF IsToolAllowed, InScope, e
<1> QED BY <1>1, <1>2, <1>3

\* A tool starts for a stage that waits for one, or on top of other frames.
Starts(d, q, name) ==
    /\ d \in State /\ Alike(d, q) /\ d.at = q.at /\ d.ctx = q.ctx /\ StackOK(d)
    /\ d.stack # <<>> /\ Top(d).kind \in {"tool", "remote"} /\ Top(d).name = Lookup(name).name

LEMMA StartedFacts ==
  ASSUME RegistryTypeOK, NEW q \in State, StackOK(q), NEW name \in Names, Index(name) # NotFound,
         q.stack # <<>> \/ q.at = "debug" \/ (q.at = "tool" /\ q.loop.calls # <<>>)
  PROVE  Starts(Started(q, name), q, name)
<1> DEFINE k == IF Index(name) <= Len(entries) THEN "tool" ELSE "remote"
           n == Lookup(name).name
           d == Push(q, k, 0, n)
<1>1. k \in {"tool", "remote"} /\ n \in Qualified
  BY LookupFacts DEF Entry
<1>2. Started(q, name) = d
  BY DEF Started
<1> HIDE DEF k, n
<1>3. Pushed(d, q, [kind |-> k, nth |-> 0, name |-> n])
  BY <1>1, PushFacts
<1>4. CASE q.stack # <<>>
  <2>1. StackOK(d) /\ d.stack # <<>> /\ Top(d) = [kind |-> k, nth |-> 0, name |-> n]
    BY <1>1, <1>4, PushStack
  <2> HIDE DEF d
  <2> QED BY <1>1, <1>2, <1>3, <2>1 DEF Starts, Pushed, n
<1>5. CASE q.stack = <<>>
  <2> HIDE DEF d
  <2>1. Len(d.stack) = 1 /\ d.stack[1] = [kind |-> k, nth |-> 0, name |-> n]
    BY <1>3, <1>5, EmptySeq DEF Pushed
  <2>2. d.stack # <<>> /\ Top(d) = [kind |-> k, nth |-> 0, name |-> n]
    BY <2>1 DEF Top
  <2>3. StackOK(d)
    BY <1>1, <1>3, <1>5, <2>1 DEF StackOK, Pushed, Alike
  <2> QED BY <1>1, <1>2, <1>3, <2>2, <2>3 DEF Starts, Pushed, n
<1> QED BY <1>4, <1>5

\* A tool that is allowed, or that the debug endpoint starts.
LEMMA StartMoves ==
  ASSUME PathInv, RegistryTypeOK, NEW r \in Requests, NEW q \in State, NEW name \in Names,
         Index(name) # NotFound,
         Put(r, Started(q, name)), UNCHANGED totals,
         Alike(q, rq[r]), q.at = rq[r].at, q.ctx = rq[r].ctx, q.stack = rq[r].stack,
         q.stack # <<>> \/ q.at = "debug" \/ (q.at = "tool" /\ q.loop.calls # <<>>),
         IsToolAllowed(name, q.ctx.allow) \/ (q.at = "debug" /\ q.stack = <<>>)
  PROVE  Moves(r)
<1> DEFINE d == Started(q, name)
<1>1. StackOK(q)
  BY Facts DEF Good, StackOK, Alike
<1>2. Starts(d, q, name)
  BY <1>1, StartedFacts
<1>3. q.ctx.allow \in SUBSET Tokens
  BY DEF State, Context
<1>4. IsToolAllowed(name, q.ctx.allow) => InScope(Lookup(name).name, q.ctx.allow)
  BY <1>3, AllowedInScope
<1>5. Put(r, d)
  OBVIOUS
<1> HIDE DEF d
<1>6. Scoped(r, d)
  BY <1>2, <1>4 DEF Starts, Scoped
<1>7. Alike(d, rq[r]) /\ Steady(d, rq[r])
  BY <1>2 DEF Starts, Alike, Steady
<1>8. rq[r].stack # <<>> \/ rq[r].at \in {"tool", "debug"}
  OBVIOUS
<1> QED BY <1>2, <1>5, <1>6, <1>7, <1>8, SameMoves DEF Starts

LEMMA CallToolMoves ==
  ASSUME PathInv, RegistryTypeOK, NEW r \in Requests, CallTool(r) PROVE Moves(r)
<1> DEFINE q == HostCalled(rq[r])
<1>1. q \in State /\ Alike(q, rq[r]) /\ q.at = rq[r].at /\ q.ctx = rq[r].ctx
      /\ q.stack = rq[r].stack
  BY Facts, HostFacts
<1>2. UNCHANGED totals /\ q.stack # <<>>
  BY <1>1 DEF CallTool, CallsHost
<1>3. PICK name \in Names :
          Put(r, IF IsToolAllowed(name, q.ctx.allow) /\ Index(name) # NotFound
                 THEN Started(q, name) ELSE q)
  BY DEF CallTool
<1> HIDE DEF q
<1>4. CASE IsToolAllowed(name, q.ctx.allow) /\ Index(name) # NotFound
  BY <1>1, <1>2, <1>3, <1>4, StartMoves
<1>5. CASE ~(IsToolAllowed(name, q.ctx.allow) /\ Index(name) # NotFound)
  BY <1>1, <1>2, <1>3, <1>5, HostMoves DEF Steady
<1> QED BY <1>4, <1>5

\* A result is one message more.
LEMMA ResultFacts ==
  ASSUME NEW q \in State, NEW isBig \in BOOLEAN, q.loop.calls # <<>>
  PROVE  LET d == WithResult(q, isBig) IN
         /\ d \in State /\ d.at = q.at /\ d.out = q.out /\ d.ctx = q.ctx
         /\ d.prompt = q.prompt /\ d.stack = q.stack
         /\ d.loop.ok = q.loop.ok /\ d.loop.round = q.loop.round
         /\ d.loop.given = q.loop.given + 1 /\ Results(d) = Results(q) + 1
         /\ Results(q) \in Nat
         /\ d.conv.must = q.conv.must /\ d.conv.notice = q.conv.notice /\ LastOK(d.conv)
         /\ d.conv.lastBig => d.conv.big > 0
<1> DEFINE c == WithMessage(q.conv, isBig)
           l == [q.loop EXCEPT !.calls = Tail(@), !.given = @ + 1]
<1>1. /\ c \in Conversation /\ c.must = q.conv.must /\ (c.lastBig => c.big > 0)
      /\ c.small + c.big = q.conv.small + q.conv.big + 1 /\ q.conv.small + q.conv.big \in Nat
      /\ c.notice = q.conv.notice /\ LastOK(c)
  <2>1. q.conv \in Conversation
    BY DEF State
  <2> DEFINE small == IF isBig THEN q.conv.small ELSE q.conv.small + 1
             big == IF isBig THEN q.conv.big + 1 ELSE q.conv.big
  <2>2. /\ small \in Nat /\ big \in Nat /\ (IF isBig THEN big > 0 ELSE small > 0)
        /\ small + big = q.conv.small + q.conv.big + 1 /\ q.conv.small + q.conv.big \in Nat
    BY <2>1 DEF Conversation
  <2>3. c = [q.conv EXCEPT !.small = small, !.big = big, !.lastBig = isBig]
    BY DEF WithMessage
  <2> HIDE DEF c, small, big
  <2>4. /\ c \in Conversation /\ c.must = q.conv.must /\ c.notice = q.conv.notice
        /\ c.small = small /\ c.big = big /\ c.lastBig = isBig
    BY <2>1, <2>2, <2>3 DEF Conversation
  <2> QED BY <2>2, <2>4 DEF LastOK
<1>2. l \in Loop /\ l.ok = q.loop.ok /\ l.round = q.loop.round /\ l.given = q.loop.given + 1
  <2>1. q.loop.calls \in Seq(Names) /\ q.loop \in Loop
    BY DEF State, Loop
  <2>2. Tail(q.loop.calls) \in Seq(Names)
    BY <2>1, HeadTailProperties
  <2> DEFINE n == q.loop.given + 1
  <2>3. n \in Nat
    BY <2>1 DEF Loop
  <2> HIDE DEF n
  <2>4. l = [q.loop EXCEPT !.calls = Tail(q.loop.calls), !.given = n]
    BY DEF n
  <2>5. l \in Loop /\ l.ok = q.loop.ok /\ l.round = q.loop.round /\ l.given = n
    BY <2>1, <2>2, <2>3, <2>4 DEF Loop
  <2> QED BY <2>5 DEF n
<1>3. WithResult(q, isBig) = [q EXCEPT !.loop = l, !.conv = c]
  BY DEF State, WithResult
<1> HIDE DEF c, l
<1>4. LET d == [q EXCEPT !.loop = l, !.conv = c] IN
      /\ d \in State /\ d.at = q.at /\ d.out = q.out /\ d.ctx = q.ctx
      /\ d.prompt = q.prompt /\ d.stack = q.stack /\ d.loop = l /\ d.conv = c
  BY <1>1, <1>2 DEF State
<1> QED BY <1>1, <1>2, <1>3, <1>4 DEF Results

LEMMA ResultMoves ==
  ASSUME PathInv, NEW r \in Requests, NEW q \in State, NEW isBig \in BOOLEAN,
         Put(r, WithResult(q, isBig)), UNCHANGED totals,
         Alike(q, rq[r]), q.ctx = rq[r].ctx, q.at = "tool", rq[r].at = "tool",
         q.stack = <<>>, q.loop.calls # <<>>
  PROVE  Moves(r)
<1> DEFINE d == WithResult(q, isBig)
<1>1. Good(r, rq[r]) /\ rq[r] \in State
  BY Facts
<1>2. /\ d \in State /\ d.at = q.at /\ d.out = q.out /\ d.ctx = q.ctx
      /\ d.prompt = q.prompt /\ d.stack = q.stack
      /\ d.loop.ok = q.loop.ok /\ d.loop.round = q.loop.round
      /\ d.loop.given = q.loop.given + 1 /\ Results(d) = Results(q) + 1
      /\ Results(q) \in Nat
      /\ d.conv.must = q.conv.must /\ d.conv.notice = q.conv.notice /\ LastOK(d.conv)
      /\ d.conv.lastBig => d.conv.big > 0
  BY ResultFacts
<1>3. Put(r, d)
  OBVIOUS
<1> HIDE DEF d
<1>4. d.loop.round = rq[r].loop.round /\ d.loop.ok = rq[r].loop.ok
      /\ d.conv.must = rq[r].conv.must /\ d.out = rq[r].out
  BY <1>2 DEF Alike
<1>5. StackOK(d)
  BY <1>2 DEF StackOK
<1>6. RoundsOK(r, d)
  BY <1>1, <1>2, <1>4 DEF RoundsOK, Good, Opening, Claiming
<1>7. ResultsOK(d)
  <2>1. ResultsOK(rq[r]) /\ q.conv = rq[r].conv /\ q.loop = rq[r].loop
    BY <1>1 DEF Good, Alike
  <2>2. ~q.conv.notice /\ q.loop.given = Results(q) + 0
    BY <2>1 DEF ResultsOK, Results
  <2>3. q.loop.given = Results(q)
    BY <1>2, <2>2
  <2> QED BY <1>2, <2>2, <2>3 DEF ResultsOK
<1>8. ContextOK(r, d) /\ PromptOK(r, d) /\ AnswerOK(r, d)
  BY <1>1, <1>2, <1>4 DEF ContextOK, PromptOK, AnswerOK, Good
<1>9. Scoped(r, d)
  BY <1>1, <1>2, EmptySeq, StackType, NotLonger
<1>10. Good(r, d)
  BY <1>2, <1>5, <1>6, <1>7, <1>8 DEF Good
<1> QED BY <1>2, <1>3, <1>9, <1>10, QuietMoves

LEMMA ToolMoves ==
  ASSUME PathInv, RegistryTypeOK, NEW r \in Requests, Tool(r) PROVE Moves(r)
<1> DEFINE q == rq[r]
           name == Head(q.loop.calls)
<1>1. /\ q \in State /\ q.at = "tool" /\ q.stack = <<>> /\ q.loop.calls # <<>>
      /\ Alike(q, rq[r]) /\ q.out.by = "none"
  BY Facts DEF Tool, Alike, Good, AnswerOK
<1>2. name \in Names
  <2>1. q.loop.calls \in Seq(Names)
    BY <1>1 DEF State, Loop
  <2> QED BY <1>1, <2>1
<1>3. \/ /\ Put(r, IF IsToolAllowed(name, q.ctx.allow) /\ Index(name) # NotFound
                   THEN Started(q, name) ELSE WithResult(q, FALSE))
         /\ UNCHANGED totals
      \/ End(r, q, 500)
  BY DEF Tool
<1> HIDE DEF name
<1>4. CASE /\ Put(r, Started(q, name)) /\ UNCHANGED totals
           /\ IsToolAllowed(name, q.ctx.allow) /\ Index(name) # NotFound
  BY <1>1, <1>2, <1>4, StartMoves
<1>5. CASE Put(r, WithResult(q, FALSE)) /\ UNCHANGED totals
  BY <1>1, <1>5, ResultMoves
<1>6. CASE End(r, q, 500)
  BY <1>1, <1>6, EndMoves DEF Statuses
<1> QED BY <1>3, <1>4, <1>5, <1>6

LEMMA DebugDispatchMoves ==
  ASSUME PathInv, RegistryTypeOK, NEW r \in Requests, DebugDispatch(r) PROVE Moves(r)
<1> DEFINE q == rq[r]
<1>1. q \in State /\ q.at = "debug" /\ q.stack = <<>> /\ Alike(q, rq[r])
  BY Facts DEF DebugDispatch, Alike
<1>2. PICK name \in Names :
          IF Index(name) # NotFound
          THEN Put(r, Started(q, name)) /\ UNCHANGED totals
          ELSE EndOk(r, q, "direct")
  BY DEF DebugDispatch
<1>3. CASE Index(name) # NotFound
  BY <1>1, <1>2, <1>3, StartMoves
<1>4. CASE Index(name) = NotFound
  BY <1>1, <1>2, <1>4, EndOkMoves
<1> QED BY <1>3, <1>4

LEMMA ToolReturnMoves ==
  ASSUME PathInv, NEW r \in Requests, ToolReturn(r) PROVE Moves(r)
<1> DEFINE q == Pop(rq[r])
<1>1. /\ Good(r, rq[r]) /\ rq[r] \in State
      /\ rq[r].stack # <<>> /\ Top(rq[r]).kind \in {"tool", "remote"}
  BY Facts DEF ToolReturn
<1>2. /\ q \in State /\ Alike(q, rq[r]) /\ q.at = rq[r].at /\ q.ctx = rq[r].ctx
      /\ Len(q.stack) = Len(rq[r].stack) - 1 /\ Len(rq[r].stack) \in Nat \ {0}
  BY <1>1, PopFacts
<1>3. StackOK(q) /\ (q.stack = <<>> => Top(rq[r]) = rq[r].stack[1])
  BY <1>1, PopStack
<1>4. CASE q.stack = <<>> /\ q.at = "debug"
  <2>1. EndOk(r, q, "direct")
    BY <1>4 DEF ToolReturn
  <2> HIDE DEF q
  <2>2. rq[r].at # "done"
    BY <1>2, <1>4
  <2> QED BY <1>2, <1>4, <2>1, <2>2, EndOkMoves DEF Alike
<1>5. CASE q.stack = <<>> /\ q.at # "debug"
  <2>1. rq[r].at = "tool" /\ rq[r].loop.calls # <<>>
    BY <1>1, <1>2, <1>3, <1>5 DEF Good, StackOK
  <2>2. PICK isBig \in BOOLEAN : Put(r, WithResult(q, isBig)) /\ UNCHANGED totals
    BY <1>5 DEF ToolReturn
  <2> HIDE DEF q
  <2> QED BY <1>2, <1>5, <2>1, <2>2, ResultMoves DEF Alike
<1>6. CASE q.stack # <<>>
  <2>1. Put(r, q) /\ UNCHANGED totals
    BY <1>6 DEF ToolReturn
  <2> HIDE DEF q
  <2>2. Scoped(r, q)
    BY <1>2, NotLonger
  <2> QED BY <1>2, <1>3, <2>1, <2>2, SameMoves DEF Steady
<1> QED BY <1>4, <1>5, <1>6

-----------------------------------------------------------------------------
(* Schemas and generators *)

Offers == {"none", "client", "server"}
Musts == {"no", "any", "that"}

\* A conversation with other schemas, as it is rendered.
Dressed(d, q, offer, must) ==
    /\ d \in State /\ d.at = q.at /\ d.out = q.out /\ d.ctx = q.ctx /\ d.loop = q.loop
    /\ d.stack = q.stack
    /\ d.conv = [q.conv EXCEPT !.offer = offer, !.must = must]
    /\ d.prompt = Rendering(d.conv)

LEMMA RenderingType ==
  ASSUME NEW c \in Conversation
  PROVE  Rendering(c) \in Prompt
  BY DEF Conversation, Rendering, Prompt

LEMMA DressedFacts ==
  ASSUME NEW q \in State, NEW offer \in Offers, NEW must \in Musts
  PROVE  Dressed(Render([q EXCEPT !.conv.offer = offer, !.conv.must = must]), q, offer, must)
<1> DEFINE c == [q.conv EXCEPT !.offer = offer, !.must = must]
           e == [q EXCEPT !.conv.offer = offer, !.conv.must = must]
           d == Render(e)
<1>1. c \in Conversation
  BY DEF State, Conversation, Offers, Musts
<1>2. e = [q EXCEPT !.conv = c]
  BY DEF State
<1>3. Rendering(c) \in Prompt
  BY <1>1, RenderingType
<1> HIDE DEF c, e
<1>4. e \in State /\ e.conv = c /\ e.at = q.at /\ e.out = q.out /\ e.ctx = q.ctx
      /\ e.loop = q.loop /\ e.stack = q.stack
  BY <1>1, <1>2 DEF State
<1>5. d = [e EXCEPT !.prompt = Rendering(c)]
  BY <1>4 DEF Render
<1> HIDE DEF d
<1>6. d \in State /\ d.conv = e.conv /\ d.at = e.at /\ d.out = e.out /\ d.ctx = e.ctx
      /\ d.loop = e.loop /\ d.stack = e.stack /\ d.prompt = Rendering(c)
  BY <1>3, <1>4, <1>5 DEF State
<1>7. Dressed(d, q, offer, must)
  BY <1>4, <1>6 DEF Dressed, c
<1> QED BY <1>7 DEF d, e

\* The record with schemas, before it is inferred, claimed or streamed.
Dressing(d, q) == \E offer \in Offers, must \in Musts : Dressed(d, q, offer, must)

LEMMA InjectedFacts ==
  ASSUME NEW r \in Requests, rq[r] \in State
  PROVE  Dressing(Injected(r), rq[r]) /\ Dressing(Reverted(Injected(r)), rq[r])
<1> DEFINE offer == Offered(r)
           must == IF offer = "none" \/ ~IsChat(r) THEN "no"
                   ELSE CASE Choice(r) \in {"required", "object"} -> "any"
                          [] Choice(r) = "forced" -> "that"
                          [] OTHER -> "no"
           q == Injected(r)
           d == Reverted(q)
<1>1. offer \in Offers
  BY DEF Offered, Offers
<1>2. must \in Musts
  BY DEF Musts
<1>3. q = Render([rq[r] EXCEPT !.conv.offer = offer, !.conv.must = must])
  BY DEF Injected
<1> HIDE DEF offer, must, q
<1>4. Dressed(q, rq[r], offer, must)
  BY <1>1, <1>2, <1>3, DressedFacts
<1>5. "none" \in Offers /\ "no" \in Musts
  BY DEF Offers, Musts
<1>6. Dressed(d, q, "none", "no")
  <2>1. q \in State
    BY <1>4 DEF Dressed
  <2>2. d = Render([q EXCEPT !.conv.offer = "none", !.conv.must = "no"])
    BY DEF Reverted
  <2> HIDE DEF d
  <2> QED BY <2>1, <2>2, <1>5, DressedFacts
<1> HIDE DEF d
<1>7. [q.conv EXCEPT !.offer = "none", !.must = "no"]
        = [rq[r].conv EXCEPT !.offer = "none", !.must = "no"]
  BY <1>4 DEF Dressed, State, Conversation
<1>8. Dressed(d, rq[r], "none", "no")
  BY <1>4, <1>6, <1>7 DEF Dressed
<1> QED BY <1>1, <1>2, <1>4, <1>5, <1>8 DEF Dressing, q, d

\* What a request with its schemas has kept.
LEMMA DressedKeeps ==
  ASSUME NEW q, NEW d, q \in State, Dressing(d, q)
  PROVE  /\ d \in State /\ d.at = q.at /\ d.out = q.out /\ d.ctx = q.ctx /\ d.loop = q.loop
         /\ d.stack = q.stack /\ d.prompt = Rendering(d.conv)
         /\ d.conv.small = q.conv.small /\ d.conv.big = q.conv.big
         /\ d.conv.lastBig = q.conv.lastBig /\ d.conv.notice = q.conv.notice
<1>1. PICK offer \in Offers, must \in Musts : Dressed(d, q, offer, must)
  BY DEF Dressing
<1>2. q.conv \in Conversation
  BY DEF State
<1> QED BY <1>1, <1>2 DEF Dressed, Conversation

\* A record whose schemas are in and whose loop has not begun.
Ready(d, q) ==
    /\ d \in State /\ d.out = q.out /\ d.ctx = q.ctx /\ d.loop = q.loop /\ d.stack = <<>>
    /\ d.prompt = Rendering(d.conv)
    /\ d.conv.small = 0 /\ d.conv.big = 0 /\ d.conv.lastBig = q.conv.lastBig
    /\ d.conv.notice = q.conv.notice

\* It is claimed, generated in the open or inferred.
LEMMA ReadyGood ==
  ASSUME PathInv, NEW r \in Requests, NEW q \in State, Ready(q, rq[r]),
         rq[r].at \in {"inject", "claim"},
         NEW d \in State, Alike(d, q), d.at \in {"claim", "stream", "gen", "live", "infer"},
         StackOK(d), ContextOK(r, d)
  PROVE  Good(r, d)
<1>1. Good(r, rq[r])
  BY Facts
<1>2. /\ d.loop = rq[r].loop /\ d.out = rq[r].out /\ rq[r].loop.round = 0
      /\ rq[r].conv.big = 0 /\ d.conv.lastBig = rq[r].conv.lastBig
  BY <1>1 DEF Ready, Alike, Good, RoundsOK, Opening, Claiming
<1>3. RoundsOK(r, d)
  <2>1. MaxRounds >= 0
    BY PathAssumption
  <2>2. Returns(r) => d.loop.given = 0
    BY <1>1, <1>2 DEF Good, RoundsOK
  <2> QED BY <1>2, <2>1, <2>2 DEF RoundsOK, Ready, Alike
<1>4. PromptOK(r, d)
  <2>1. ~rq[r].conv.lastBig
    BY <1>1, <1>2 DEF Good, PromptOK
  <2>2. d.prompt = Rendering(d.conv)
    BY DEF Ready, Alike
  <2> QED BY <1>2, <2>1, <2>2 DEF PromptOK
<1>5. ResultsOK(d)
  <2>1. ResultsOK(rq[r]) /\ rq[r].conv.small = 0 /\ rq[r].conv.big = 0
    BY <1>1 DEF Good, RoundsOK, Opening, Claiming
  <2>2. ~rq[r].conv.notice /\ rq[r].loop.given = 0
    BY <2>1 DEF ResultsOK, Results
  <2>3. d.conv.small = 0 /\ d.conv.big = 0 /\ ~d.conv.notice
    BY <2>2 DEF Ready, Alike
  <2> QED BY <1>2, <2>2, <2>3 DEF ResultsOK, Results, LastOK
<1>6. AnswerOK(r, d)
  BY <1>1, <1>2 DEF AnswerOK, Good
<1> QED BY <1>3, <1>4, <1>5, <1>6 DEF Good

LEMMA ReadyMoves ==
  ASSUME PathInv, NEW r \in Requests, NEW q \in State, Ready(q, rq[r]),
         rq[r].at \in {"inject", "claim"},
         NEW d \in State, Alike(d, q), d.at \in {"claim", "stream", "gen", "live", "infer"},
         StackOK(d), Scoped(r, d), ContextOK(r, d), d.ctx.held # "gone", Put(r, d),
         UNCHANGED totals
  PROVE  Moves(r)
<1>1. Good(r, d)
  BY ReadyGood
<1>2. rq[r].ctx.held # "gone"
  BY Facts DEF Good, ContextOK
<1> QED BY <1>1, <1>2, QuietMoves

LEMMA DispatchingMoves ==
  ASSUME PathInv, NEW r \in Requests, NEW q \in State, Ready(q, rq[r]),
         rq[r].at \in {"inject", "claim"}, Dispatching(r, q)
  PROVE  Moves(r)
<1>1. /\ rq[r].ctx.held \notin {"gone", "lost"} /\ ContextOK(r, rq[r])
      /\ totals \in Totals /\ rq[r] \in State
  BY Facts DEF Good, ContextOK
<1>2. q.ctx = rq[r].ctx /\ q.stack = <<>>
  BY DEF Ready
<1>3. CASE Put(r, [q EXCEPT !.at = "infer"]) /\ UNCHANGED totals
  <2> DEFINE d == [q EXCEPT !.at = "infer"]
  <2>1. d \in State /\ Alike(d, q) /\ d.at = "infer" /\ d.ctx = q.ctx /\ d.stack = q.stack
    BY AtFacts DEF Stage
  <2>2. Put(r, d)
    BY <1>3
  <2> HIDE DEF d
  <2>3. StackOK(d) /\ Scoped(r, d)
    BY <1>2, <2>1 DEF StackOK, Scoped, Runs
  <2>4. ContextOK(r, d)
    BY <1>1, <1>2, <2>1 DEF ContextOK
  <2> QED BY <1>1, <1>2, <1>3, <2>1, <2>2, <2>3, <2>4, ReadyMoves
<1>4. CASE Put(r, [Dropped(q) EXCEPT !.at = "live"]) /\ Record(r, q)
  <2> DEFINE b == Dropped(q)
             d == [b EXCEPT !.at = "live"]
  <2>1. /\ b \in State /\ Alike(b, q) /\ b.stack = q.stack
        /\ b.ctx.held = IF q.ctx.held = "none" THEN "none" ELSE "gone"
        /\ b.ctx.sub = q.ctx.sub /\ b.ctx.research = q.ctx.research
        /\ Honest(q.ctx) => Honest(b.ctx)
    BY DroppedFacts
  <2> HIDE DEF b
  <2>2. d \in State /\ Alike(d, b) /\ d.at = "live" /\ d.ctx = b.ctx /\ d.stack = b.stack
    BY <2>1, AtFacts DEF Stage
  <2>3. Put(r, d)
    BY <1>4 DEF b
  <2> HIDE DEF d
  <2>4. StackOK(d) /\ Scoped(r, d) /\ Alike(d, q)
    BY <1>2, <2>1, <2>2 DEF StackOK, Scoped, Runs, Alike
  <2>5. Good(r, d)
    <3>1. ContextOK(r, d)
      BY <1>1, <1>2, <2>1, <2>2 DEF ContextOK
    <3> QED BY <2>2, <2>4, <3>1, ReadyGood
  <2>6. Settled(r, d)
    <3>1. /\ d.ctx.held = IF q.ctx.held = "none" THEN "none" ELSE "gone"
          /\ d.ctx.sub = q.ctx.sub /\ d.ctx.research = q.ctx.research
      BY <2>1, <2>2
    <3> QED BY <1>1, <1>2, <1>4, <3>1, RecordSettles
  <2> QED BY <2>3, <2>4, <2>5, <2>6 DEF Moves
<1> QED BY <1>3, <1>4 DEF Dispatching

LEMMA InjectMoves ==
  ASSUME PathInv, NEW r \in Requests, Inject(r) PROVE Moves(r)
<1> DEFINE q == Injected(r)
           over == UsesGenerators(r) /\ ContextSize > 0
                     /\ Size(r, q.prompt) + Reserve > ContextSize
           p == IF over /\ q.conv.offer # "none" THEN Reverted(q) ELSE q
<1>1. /\ Good(r, rq[r]) /\ rq[r] \in State /\ rq[r].at = "inject" /\ rq[r].stack = <<>>
      /\ rq[r].ctx.held # "gone" /\ rq[r].conv.small = 0 /\ rq[r].conv.big = 0
      /\ ContextOK(r, rq[r]) /\ rq[r].out.by = "none"
  BY Facts DEF Inject, Good, StackOK, ContextOK, RoundsOK, AnswerOK, Opening
<1>2. Dressing(p, rq[r])
  BY <1>1, InjectedFacts
<1>3. \/ End(r, rq[r], 500)
      \/ Put(r, [p EXCEPT !.at = "claim"]) /\ UNCHANGED totals
      \/ Dispatching(r, p)
  BY DEF Inject
<1> HIDE DEF p
<1>4. Ready(p, rq[r]) /\ p \in State
  BY <1>1, <1>2, DressedKeeps DEF Ready
<1>5. CASE Put(r, [p EXCEPT !.at = "claim"]) /\ UNCHANGED totals
  <2> DEFINE d == [p EXCEPT !.at = "claim"]
  <2>1. d \in State /\ Alike(d, p) /\ d.at = "claim" /\ d.ctx = p.ctx /\ d.stack = p.stack
    BY <1>4, AtFacts DEF Stage
  <2>2. Put(r, d) /\ UNCHANGED totals
    BY <1>5
  <2> HIDE DEF d
  <2>3. StackOK(d) /\ Scoped(r, d) /\ d.ctx.held # "gone"
    BY <1>1, <1>4, <2>1 DEF StackOK, Scoped, Runs, Ready
  <2>4. ContextOK(r, d)
    BY <1>1, <1>4, <2>1 DEF ContextOK, Ready
  <2> QED BY <1>1, <1>4, <2>1, <2>2, <2>3, <2>4, ReadyMoves
<1>6. CASE Dispatching(r, p)
  BY <1>1, <1>4, <1>6, DispatchingMoves
<1>7. CASE End(r, rq[r], 500)
  BY <1>1, <1>7, EndMoves DEF Statuses
<1> QED BY <1>3, <1>5, <1>6, <1>7

\* The generator's frame is alone.
LEMMA GenFrame ==
  ASSUME NEW q \in State, q.stack = <<>>, q.at = "gen"
  PROVE  LET d == Push(q, "gen", 0, <<>>) IN
         Pushed(d, q, [kind |-> "gen", nth |-> 0, name |-> <<>>]) /\ StackOK(d) /\ ~Runs(d)
<1> DEFINE d == Push(q, "gen", 0, <<>>)
<1>1. <<>> \in Qualified \cup {<<>>}
  OBVIOUS
<1>2. Pushed(d, q, [kind |-> "gen", nth |-> 0, name |-> <<>>])
  BY <1>1, PushFacts
<1> HIDE DEF d
<1>3. Len(d.stack) = 1 /\ d.stack[1] = [kind |-> "gen", nth |-> 0, name |-> <<>>] /\ d.at = "gen"
  BY <1>2, EmptySeq DEF Pushed
<1>4. StackOK(d) /\ ~Runs(d)
  BY <1>3 DEF StackOK, Runs, Top
<1> QED BY <1>2, <1>4 DEF d

LEMMA ClaimMoves ==
  ASSUME PathInv, NEW r \in Requests, Claim(r) PROVE Moves(r)
<1>1. /\ Good(r, rq[r]) /\ rq[r] \in State /\ rq[r].at = "claim" /\ rq[r].stack = <<>>
      /\ rq[r].ctx.held # "gone" /\ ContextOK(r, rq[r])
  BY Facts DEF Claim, Good, StackOK, ContextOK
<1>2. Ready(rq[r], rq[r])
  BY <1>1 DEF Ready, Good, PromptOK, RoundsOK, Claiming
<1>3. CASE Dispatching(r, rq[r])
  BY <1>1, <1>2, <1>3, DispatchingMoves
<1>4. CASE /\ Put(r, [rq[r] EXCEPT !.at = "stream", !.ctx.held = "stream"])
           /\ Streams(r) /\ UNCHANGED totals
  <2> DEFINE c == [rq[r].ctx EXCEPT !.held = "stream"]
             d == [rq[r] EXCEPT !.at = "stream", !.ctx.held = "stream"]
  <2>1. c \in Context /\ c.held = "stream" /\ (Honest(rq[r].ctx) => Honest(c))
    BY <1>1 DEF State, Context, Honest
  <2>2. d = [rq[r] EXCEPT !.at = "stream", !.ctx = c]
    BY <1>1 DEF State
  <2> HIDE DEF c
  <2>3. d \in State /\ Alike(d, rq[r]) /\ d.at = "stream" /\ d.ctx = c /\ d.stack = rq[r].stack
    BY <1>1, <2>1, <2>2 DEF State, Stage, Alike
  <2>4. Put(r, d)
    BY <1>4
  <2> HIDE DEF d
  <2>5. StackOK(d) /\ Scoped(r, d)
    BY <1>1, <2>3 DEF StackOK, Scoped, Runs
  <2>6. ContextOK(r, d)
    BY <1>1, <1>4, <2>1, <2>3 DEF ContextOK
  <2> QED BY <1>1, <1>2, <1>4, <2>1, <2>3, <2>4, <2>5, <2>6, ReadyMoves
<1>5. CASE Put(r, Push([rq[r] EXCEPT !.at = "gen"], "gen", 0, <<>>)) /\ UNCHANGED totals
  <2> DEFINE q == [rq[r] EXCEPT !.at = "gen"]
             d == Push(q, "gen", 0, <<>>)
  <2>1. q \in State /\ Alike(q, rq[r]) /\ q.at = "gen" /\ q.ctx = rq[r].ctx
        /\ q.stack = rq[r].stack
    BY <1>1, AtFacts DEF Stage
  <2>2. Put(r, d)
    BY <1>5
  <2> HIDE DEF q
  <2>3. Pushed(d, q, [kind |-> "gen", nth |-> 0, name |-> <<>>]) /\ StackOK(d) /\ ~Runs(d)
    BY <1>1, <2>1, GenFrame
  <2> HIDE DEF d
  <2>4. /\ d \in State /\ Alike(d, rq[r]) /\ d.at = "gen" /\ d.ctx = rq[r].ctx
        /\ Scoped(r, d)
    BY <2>1, <2>3 DEF Pushed, Alike, Scoped
  <2>5. ContextOK(r, d)
    BY <1>1, <2>4 DEF ContextOK
  <2> QED BY <1>1, <1>2, <1>5, <2>2, <2>3, <2>4, <2>5, ReadyMoves
<1> QED BY <1>3, <1>4, <1>5 DEF Claim, Claimed

LEMMA GenStreamMoves ==
  ASSUME PathInv, NEW r \in Requests, GenStream(r) PROVE Moves(r)
<1>1. /\ Good(r, rq[r]) /\ rq[r] \in State /\ rq[r].at = "stream" /\ rq[r].stack = <<>>
      /\ rq[r].ctx.held # "gone"
  BY Facts DEF GenStream, Good, StackOK, ContextOK
<1>2. CASE EndOk(r, rq[r], "gen")
  BY <1>1, <1>2, EndOkMoves
<1>3. CASE Put(r, Push([rq[r] EXCEPT !.at = "gen"], "gen", 0, <<>>)) /\ UNCHANGED totals
  <2> DEFINE q == [rq[r] EXCEPT !.at = "gen"]
             d == Push(q, "gen", 0, <<>>)
  <2>1. q \in State /\ Alike(q, rq[r]) /\ q.at = "gen" /\ q.ctx = rq[r].ctx
        /\ q.stack = rq[r].stack
    BY <1>1, AtFacts DEF Stage
  <2>2. Put(r, d)
    BY <1>3
  <2> HIDE DEF q
  <2>3. Pushed(d, q, [kind |-> "gen", nth |-> 0, name |-> <<>>]) /\ StackOK(d) /\ ~Runs(d)
    BY <1>1, <2>1, GenFrame
  <2> HIDE DEF d
  <2>4. /\ d \in State /\ Alike(d, rq[r]) /\ d.at = "gen" /\ d.ctx = rq[r].ctx
        /\ Scoped(r, d)
    BY <2>1, <2>3 DEF Pushed, Alike, Scoped
  <2>5. RoundsOK(r, d) /\ ContextOK(r, d) /\ PromptOK(r, d) /\ AnswerOK(r, d)
    BY <1>1, <2>4 DEF Good, RoundsOK, ContextOK, PromptOK, AnswerOK, Alike, Claiming, Opening
  <2>6. ResultsOK(d)
    BY <1>1, <2>4 DEF Good, ResultsOK, Results, Alike
  <2> QED BY <1>1, <1>3, <2>2, <2>3, <2>4, <2>5, <2>6, QuietMoves DEF Good
<1> QED BY <1>2, <1>3 DEF GenStream

LEMMA GenReturnMoves ==
  ASSUME PathInv, NEW r \in Requests, GenReturn(r) PROVE Moves(r)
<1> DEFINE p == Pop(rq[r])
           q == [p EXCEPT !.out.finish = "stop"]
<1>1. /\ Good(r, rq[r]) /\ rq[r] \in State
      /\ rq[r].stack # <<>> /\ Top(rq[r]).kind = "gen"
  BY Facts DEF GenReturn
<1>2. /\ p \in State /\ Alike(p, rq[r]) /\ p.ctx = rq[r].ctx
      /\ Len(p.stack) = Len(rq[r].stack) - 1 /\ Len(rq[r].stack) \in Nat \ {0}
  BY <1>1, PopFacts
<1>3. Len(rq[r].stack) = 1
  <2> DEFINE n == Len(rq[r].stack)
  <2>1. n \notin 2 .. n
    BY <1>1 DEF Good, StackOK, Top
  <2>2. n \in Nat \ {0}
    BY <1>2
  <2> HIDE DEF n
  <2>3. n = 1
    BY <2>1, <2>2
  <2> QED BY <2>3 DEF n
<1>4. p.stack = <<>>
  BY <1>2, <1>3, StackType
<1>5. rq[r].out.by = "none" /\ rq[r].at # "done"
  BY <1>1, <1>3 DEF Good, StackOK, AnswerOK, Top
<1> HIDE DEF p
<1>6. /\ q \in State /\ q.out.by = p.out.by
      /\ q.ctx = p.ctx /\ q.conv = p.conv /\ q.loop = p.loop /\ q.stack = p.stack
  BY <1>2, FinishFacts
<1>7. EndOk(r, q, "gen") \/ End(r, q, 503)
  BY DEF GenReturn, p
<1> HIDE DEF q
<1>8. CASE EndOk(r, q, "gen")
  BY <1>2, <1>4, <1>5, <1>6, <1>8, EndOkMoves DEF Alike
<1>9. CASE End(r, q, 503)
  BY <1>2, <1>4, <1>5, <1>6, <1>9, EndMoves DEF Alike, Statuses
<1> QED BY <1>7, <1>8, <1>9

LEMMA LiveMoves ==
  ASSUME PathInv, NEW r \in Requests, Live(r) PROVE Moves(r)
<1>1. rq[r] \in State /\ rq[r].stack = <<>> /\ rq[r].at = "live"
  BY Facts DEF Live, Good, StackOK
<1>2. EndOk(r, rq[r], "live")
  BY DEF Live
<1> QED BY <1>1, <1>2, EndOkMoves

\* A stream that is given up takes its context, uncounted, with it.
LEMMA HangupMoves ==
  ASSUME PathInv, NEW r \in Requests, Hangup(r) PROVE Moves(r)
<1> DEFINE h == IF rq[r].ctx.held = "stream" THEN "lost" ELSE rq[r].ctx.held
           c == [rq[r].ctx EXCEPT !.held = h]
           d == [rq[r] EXCEPT !.at = "done", !.ctx.held = IF @ = "stream" THEN "lost" ELSE @]
<1>1. /\ Good(r, rq[r]) /\ rq[r] \in State /\ rq[r].at \in {"stream", "live"}
      /\ rq[r].stack = <<>> /\ ContextOK(r, rq[r]) /\ rq[r].out.by = "none"
  BY Facts DEF Hangup, Good, StackOK, AnswerOK
<1>2. /\ c \in Context /\ c.held = h /\ c.sub = rq[r].ctx.sub
      /\ c.research = rq[r].ctx.research /\ (Honest(rq[r].ctx) => Honest(c))
  BY <1>1 DEF State, Context, Honest
<1>3. d = [rq[r] EXCEPT !.at = "done", !.ctx = c]
  BY <1>1 DEF State
<1>4. Put(r, d) /\ UNCHANGED totals
  BY DEF Hangup
<1> HIDE DEF c, d
<1>5. d \in State /\ Alike(d, rq[r]) /\ d.at = "done" /\ d.ctx = c /\ d.stack = rq[r].stack
  BY <1>1, <1>2, <1>3 DEF State, Stage, Alike
<1>6. h \in {"none", "gone", "lost"} /\ (h = "gone" <=> rq[r].ctx.held = "gone")
  BY <1>1 DEF ContextOK
<1>7. h = "lost" => Streams(r)
  BY <1>1 DEF ContextOK
<1> HIDE DEF h
<1>8. StackOK(d) /\ Scoped(r, d)
  BY <1>1, <1>5 DEF StackOK, Scoped, Runs
<1>9. ContextOK(r, d)
  BY <1>1, <1>2, <1>5, <1>6, <1>7 DEF ContextOK, Alike
<1>10. RoundsOK(r, d) /\ ResultsOK(d) /\ PromptOK(r, d) /\ AnswerOK(r, d)
  BY <1>1, <1>5 DEF Good, RoundsOK, ResultsOK, Results, PromptOK, AnswerOK, Alike, Opening,
     Claiming
<1>11. Good(r, d)
  BY <1>5, <1>8, <1>9, <1>10 DEF Good
<1> QED BY <1>2, <1>4, <1>5, <1>6, <1>8, <1>11, QuietMoves

-----------------------------------------------------------------------------
(* The tool loop *)

LEMMA GeneratedFacts ==
  ASSUME NEW q \in State, NEW calls \in Called
  PROVE  LET d == Generated(q, calls) IN
         /\ d \in State /\ d.at = q.at /\ d.out = q.out /\ d.ctx = q.ctx /\ d.conv = q.conv
         /\ d.prompt = q.prompt /\ d.stack = q.stack
         /\ d.loop.ok /\ d.loop.calls = calls /\ d.loop.round = q.loop.round
         /\ d.loop.given = q.loop.given
         /\ d.loop.shown = q.prompt.small + q.prompt.big
<1> DEFINE l == [q.loop EXCEPT !.ok = TRUE, !.calls = calls, !.shown = q.prompt.small + q.prompt.big]
<1>1. q.loop \in Loop /\ calls \in Seq(Names) /\ q.prompt.small + q.prompt.big \in Nat
  BY PathAssumption DEF State, Prompt
<1>2. /\ l \in Loop /\ l.ok /\ l.calls = calls /\ l.round = q.loop.round
      /\ l.given = q.loop.given /\ l.shown = q.prompt.small + q.prompt.big
  BY <1>1 DEF Loop
<1>3. Generated(q, calls) = [q EXCEPT !.loop = l]
  BY DEF State, Generated
<1> HIDE DEF l
<1> QED BY <1>2, <1>3 DEF State

\* The text is an answer, or its calls are run.
LEMMA ConsideredFacts ==
  ASSUME NEW r \in Requests, NEW q \in State
  PROVE  LET d == Considered(r, q) IN
         /\ d \in State /\ d.ctx = q.ctx /\ d.conv = q.conv /\ d.prompt = q.prompt
         /\ d.loop = q.loop /\ d.stack = q.stack /\ d.out.by = q.out.by
         /\ \/ /\ d.at = "answer"
               /\ IF Returns(r) /\ q.loop.calls # <<>>
                  THEN d.out.finish = "tool_calls" ELSE d.out.finish = q.out.finish
            \/ d.at = "tool" /\ d.out = q.out /\ ~Returns(r) /\ q.loop.calls # <<>>
<1> DEFINE a == [q EXCEPT !.at = "answer"]
           o == [q.out EXCEPT !.finish = "tool_calls"]
           b == [q EXCEPT !.at = "answer", !.out.finish = "tool_calls"]
           t == [q EXCEPT !.at = "tool"]
           d == Considered(r, q)
<1>1. /\ a \in State /\ a.ctx = q.ctx /\ a.conv = q.conv /\ a.prompt = q.prompt
      /\ a.loop = q.loop /\ a.stack = q.stack /\ a.out = q.out /\ a.at = "answer"
  BY DEF State, Stage
<1>2. /\ t \in State /\ t.ctx = q.ctx /\ t.conv = q.conv /\ t.prompt = q.prompt
      /\ t.loop = q.loop /\ t.stack = q.stack /\ t.out = q.out /\ t.at = "tool"
  BY DEF State, Stage
<1>3. o \in Outcome /\ o.finish = "tool_calls" /\ o.by = q.out.by
  BY DEF State, Outcome
<1>4. b = [q EXCEPT !.at = "answer", !.out = o]
  BY DEF State
<1> HIDE DEF o
<1>5. /\ b \in State /\ b.ctx = q.ctx /\ b.conv = q.conv /\ b.prompt = q.prompt
      /\ b.loop = q.loop /\ b.stack = q.stack /\ b.out = o /\ b.at = "answer"
  BY <1>3, <1>4 DEF State, Stage
<1>6. CASE q.loop.calls = <<>> \/ (~IsChat(r) /\ ~HasTools)
  <2>1. d = a
    BY <1>6 DEF Considered
  <2> HIDE DEF a, b, t, d
  <2> QED BY <1>1, <1>6, <2>1 DEF Returns, d
<1>7. CASE q.loop.calls # <<>> /\ IsChat(r) /\ Delegates(r)
  <2>1. d = b
    BY <1>7 DEF Considered
  <2> HIDE DEF a, b, t, d
  <2> QED BY <1>3, <1>5, <1>7, <2>1 DEF Returns, d
<1>8. CASE q.loop.calls # <<>> /\ IsChat(r) /\ ~Delegates(r) /\ ~HasTools
  <2>1. d = a
    BY <1>8 DEF Considered
  <2> HIDE DEF a, b, t, d
  <2> QED BY <1>1, <1>8, <2>1 DEF Returns, d
<1>9. CASE q.loop.calls # <<>> /\ HasTools /\ ~(IsChat(r) /\ Delegates(r))
  <2>1. d = t
    BY <1>9 DEF Considered
  <2> HIDE DEF a, b, t, d
  <2> QED BY <1>2, <1>9, <2>1 DEF Returns, d
<1> QED BY <1>6, <1>7, <1>8, <1>9

LEMMA LoopMoves ==
  ASSUME PathInv, NEW r \in Requests, NEW d \in State, Put(r, d), UNCHANGED totals,
         rq[r].at \in {"infer", "tool", "final"}, rq[r].stack = <<>>, d.stack = <<>>,
         d.ctx = rq[r].ctx, d.at \in {"infer", "tool", "final", "answer"},
         RoundsOK(r, d), ResultsOK(d), PromptOK(r, d), AnswerOK(r, d)
  PROVE  Moves(r)
<1>1. StackOK(d)
  BY DEF StackOK
<1>2. rq[r].ctx.held # "gone" /\ ContextOK(r, rq[r])
  BY Facts DEF Good, ContextOK
<1>3. ContextOK(r, d)
  BY <1>2 DEF ContextOK
<1>4. Scoped(r, d)
  BY DEF Scoped, Runs
<1> QED BY <1>1, <1>2, <1>3, <1>4, QuietMoves DEF Good

LEMMA InferMoves ==
  ASSUME PathInv, NEW r \in Requests, Infer(r) PROVE Moves(r)
<1>1. /\ Good(r, rq[r]) /\ rq[r] \in State /\ rq[r].at = "infer" /\ rq[r].stack = <<>>
  BY Facts DEF Infer, Good, StackOK
<1>2. /\ rq[r].loop.round <= MaxRounds /\ rq[r].prompt = Rendering(rq[r].conv)
      /\ rq[r].out.by = "none" /\ rq[r].out.finish = "none"
  BY <1>1 DEF Good, RoundsOK, PromptOK, AnswerOK
<1>3. CASE End(r, [rq[r] EXCEPT !.loop.ok = FALSE], 503)
  <2> DEFINE l == [rq[r].loop EXCEPT !.ok = FALSE]
             q == [rq[r] EXCEPT !.loop.ok = FALSE]
  <2>1. l \in Loop /\ l.round = rq[r].loop.round /\ l.given = rq[r].loop.given
    BY <1>1 DEF State, Loop
  <2>2. q = [rq[r] EXCEPT !.loop = l]
    BY <1>1 DEF State
  <2> HIDE DEF l
  <2>3. /\ q \in State /\ q.loop = l /\ q.ctx = rq[r].ctx /\ q.stack = rq[r].stack
        /\ q.conv = rq[r].conv /\ q.out = rq[r].out
    BY <1>1, <2>1, <2>2 DEF State
  <2>4. End(r, q, 503)
    BY <1>3
  <2> HIDE DEF q
  <2> QED BY <1>1, <1>2, <2>1, <2>3, <2>4, EndMoves DEF Statuses
<1>4. ASSUME NEW calls \in Called, Put(r, Considered(r, Generated(rq[r], calls))),
             UNCHANGED totals
      PROVE  Moves(r)
  <2> DEFINE q == Generated(rq[r], calls)
             d == Considered(r, q)
  <2>1. /\ q \in State /\ q.at = rq[r].at /\ q.out = rq[r].out /\ q.ctx = rq[r].ctx
        /\ q.conv = rq[r].conv /\ q.prompt = rq[r].prompt /\ q.stack = rq[r].stack
        /\ q.loop.ok /\ q.loop.calls = calls /\ q.loop.round = rq[r].loop.round
        /\ q.loop.given = rq[r].loop.given
        /\ q.loop.shown = rq[r].prompt.small + rq[r].prompt.big
    BY <1>1, GeneratedFacts
  <2> HIDE DEF q
  <2>2. /\ d \in State /\ d.ctx = q.ctx /\ d.conv = q.conv /\ d.prompt = q.prompt
        /\ d.loop = q.loop /\ d.stack = q.stack /\ d.out.by = q.out.by
        /\ \/ /\ d.at = "answer"
              /\ IF Returns(r) /\ q.loop.calls # <<>>
                 THEN d.out.finish = "tool_calls" ELSE d.out.finish = q.out.finish
           \/ d.at = "tool" /\ d.out = q.out /\ ~Returns(r) /\ q.loop.calls # <<>>
    BY <2>1, ConsideredFacts
  <2>3. Put(r, d)
    BY <1>4 DEF q
  <2> HIDE DEF d
  <2>4. d.loop.shown = Results(d)
    BY <1>2, <2>1, <2>2 DEF Results, Rendering
  <2>5. AnswerOK(r, d)
    <3>1. d.at = "answer" => Backed(r, d)
      BY <1>2, <2>1, <2>2 DEF Backed
    <3>2. d.out.by = "none" /\ (d.at = "tool" => d.out.finish = "none")
      BY <1>2, <2>1, <2>2
    <3> QED BY <2>2, <2>4, <3>1, <3>2 DEF AnswerOK, Reached
  <2>6. RoundsOK(r, d) /\ PromptOK(r, d)
    BY <1>1, <1>2, <2>1, <2>2 DEF RoundsOK, PromptOK, Good, Opening, Claiming
  <2>7. ResultsOK(d)
    BY <1>1, <2>1, <2>2 DEF ResultsOK, Results, Good
  <2> QED BY <1>1, <1>4, <2>1, <2>2, <2>3, <2>5, <2>6, <2>7, LoopMoves
<1>5. CASE End(r, rq[r], 500)
  BY <1>1, <1>2, <1>5, EndMoves DEF Statuses
<1> QED BY <1>3, <1>4, <1>5 DEF Infer, ParseToolCalls

\* A round that ends begins another, or is the last.
LEMMA NextRoundFacts ==
  ASSUME NEW q \in State, q.loop.round <= MaxRounds
  PROVE  LET d == NextRound(q) IN
         /\ d \in State /\ d.out = q.out /\ d.ctx = q.ctx /\ d.conv = q.conv
         /\ d.prompt = q.prompt /\ d.stack = q.stack
         /\ d.loop.ok = q.loop.ok /\ d.loop.round = q.loop.round + 1
         /\ d.loop.given = q.loop.given /\ d.loop.calls = q.loop.calls
         /\ \/ d.at = "infer" /\ q.loop.round + 1 <= MaxRounds
            \/ d.at = "answer" /\ q.loop.round + 1 = MaxRounds + 1
<1> DEFINE l == [q.loop EXCEPT !.round = @ + 1]
           at == IF q.loop.round + 1 <= MaxRounds THEN "infer" ELSE "answer"
<1>1. q.loop \in Loop /\ q.loop.round \in Nat /\ MaxRounds \in Nat
  BY PathAssumption DEF State, Loop
<1>2. /\ l \in Loop /\ l.ok = q.loop.ok /\ l.round = q.loop.round + 1
      /\ l.given = q.loop.given /\ l.calls = q.loop.calls
  BY <1>1 DEF Loop
<1>3. NextRound(q) = [q EXCEPT !.loop = l, !.at = at]
  BY DEF State, NextRound
<1>4. \/ at = "infer" /\ q.loop.round + 1 <= MaxRounds
      \/ at = "answer" /\ q.loop.round + 1 = MaxRounds + 1
  BY <1>1
<1> HIDE DEF l, at
<1>5. at \in Stage
  BY <1>4 DEF Stage
<1> QED BY <1>2, <1>3, <1>4, <1>5 DEF State

LEMMA RenderFacts ==
  ASSUME NEW q \in State
  PROVE  LET d == Render(q) IN
         /\ d \in State /\ d.at = q.at /\ d.out = q.out /\ d.ctx = q.ctx /\ d.conv = q.conv
         /\ d.loop = q.loop /\ d.stack = q.stack /\ d.prompt = Rendering(q.conv)
<1>1. Rendering(q.conv) \in Prompt
  BY RenderingType DEF State
<1> QED BY <1>1 DEF State, Render

\* What a round leaves for the next.
Rested(r, s) ==
    /\ s \in State /\ s.out = rq[r].out /\ s.ctx = rq[r].ctx /\ s.loop = rq[r].loop
    /\ s.stack = <<>> /\ s.prompt = Rendering(s.conv)
    /\ IsChat(r) => s.conv.must # "any"
    /\ s.conv.lastBig => s.conv.big > 0
    /\ ~s.conv.notice /\ s.loop.given = Results(s) /\ Results(s) > 0 /\ LastOK(s.conv)

LEMMA NextRoundMoves ==
  ASSUME PathInv, NEW r \in Requests, NEW s, Rested(r, s), rq[r].at = "tool", rq[r].stack = <<>>,
         Put(r, NextRound(s)), UNCHANGED totals
  PROVE  Moves(r)
<1> DEFINE d == NextRound(s)
<1>1. Good(r, rq[r]) /\ rq[r] \in State
  BY Facts
<1>2. /\ rq[r].loop.round <= MaxRounds /\ rq[r].loop.ok /\ ~Returns(r)
      /\ rq[r].out.by = "none" /\ rq[r].out.finish = "none"
      /\ rq[r].loop.round \in Nat
  BY <1>1 DEF Good, RoundsOK, AnswerOK, State, Loop
<1>3. /\ d \in State /\ d.out = s.out /\ d.ctx = s.ctx /\ d.conv = s.conv
      /\ d.prompt = s.prompt /\ d.stack = s.stack
      /\ d.loop.ok = s.loop.ok /\ d.loop.round = s.loop.round + 1
      /\ d.loop.given = s.loop.given
      /\ \/ d.at = "infer" /\ s.loop.round + 1 <= MaxRounds
         \/ d.at = "answer" /\ s.loop.round + 1 = MaxRounds + 1
  BY <1>2, NextRoundFacts DEF Rested
<1>4. Put(r, d)
  OBVIOUS
<1> HIDE DEF d
<1>5. RoundsOK(r, d)
  BY <1>2, <1>3 DEF RoundsOK, Rested, Opening, Claiming
<1>6. PromptOK(r, d)
  BY <1>3 DEF PromptOK, Rested
<1>7. AnswerOK(r, d)
  BY <1>2, <1>3 DEF AnswerOK, Rested, Backed, Reached
<1>8. ResultsOK(d)
  <2>1. d.conv = s.conv /\ d.conv \in Conversation
    BY <1>3 DEF State
  <2>2. /\ Results(d) \in Nat /\ d.loop.given = Results(d) /\ ~d.conv.notice
        /\ LastOK(d.conv) /\ d.at # "tool"
    BY <1>3, <2>1 DEF Results, Rested, Conversation
  <2> QED BY <2>2 DEF ResultsOK
<1> QED BY <1>3, <1>4, <1>5, <1>6, <1>7, <1>8, LoopMoves DEF Rested

\* The last tool message of a conversation that is too long becomes a notice.
LEMMA TrimmedFacts ==
  ASSUME NEW q \in State, LastOK(q.conv), Results(q) > 0
  PROVE  LET d == Trimmed(q) IN
         /\ d \in State /\ d.at = "final" /\ d.out = q.out /\ d.ctx = q.ctx
         /\ d.conv.must = q.conv.must /\ ~d.conv.lastBig /\ d.conv.notice
         /\ Results(d) = Results(q) - 1 /\ Results(q) \in Nat
         /\ d.stack = q.stack /\ d.prompt = Rendering(d.conv) /\ d.loop = q.loop
<1> DEFINE c == Notice(q.conv)
           e == [q EXCEPT !.at = "final", !.conv = Notice(@)]
           no == FALSE
           yes == TRUE
<1>1. /\ c \in Conversation /\ c.must = q.conv.must /\ c.lastBig = no /\ c.notice = yes
      /\ c.small + c.big = (q.conv.small + q.conv.big) - 1 /\ q.conv.small + q.conv.big \in Nat
  <2>1. q.conv \in Conversation
    BY DEF State
  <2> DEFINE small == IF q.conv.lastBig THEN q.conv.small ELSE q.conv.small - 1
             big == IF q.conv.lastBig THEN q.conv.big - 1 ELSE q.conv.big
  <2>2. IF q.conv.lastBig THEN q.conv.big > 0 ELSE q.conv.small > 0
    BY DEF LastOK, Results
  <2>3. /\ small \in Nat /\ big \in Nat /\ small + big = (q.conv.small + q.conv.big) - 1
        /\ q.conv.small + q.conv.big \in Nat
    BY <2>1, <2>2 DEF Conversation
  <2>4. c = [q.conv EXCEPT !.small = small, !.big = big, !.notice = yes, !.lastBig = no]
    BY DEF Notice
  <2>5. yes \in BOOLEAN /\ no \in BOOLEAN
    OBVIOUS
  <2> HIDE DEF c, small, big, yes, no
  <2>6. /\ c \in Conversation /\ c.must = q.conv.must /\ c.lastBig = no /\ c.notice = yes
        /\ c.small = small /\ c.big = big
    BY <2>1, <2>3, <2>4, <2>5 DEF Conversation
  <2> QED BY <2>3, <2>6
<1>2. e = [q EXCEPT !.at = "final", !.conv = c]
  BY DEF State
<1> HIDE DEF c, e
<1>3. /\ e \in State /\ e.at = "final" /\ e.out = q.out /\ e.ctx = q.ctx /\ e.conv = c
      /\ e.loop = q.loop /\ e.stack = q.stack
  BY <1>1, <1>2 DEF State, Stage
<1>4. Trimmed(q) = Render(e)
  BY DEF Trimmed, e
<1>5. LET d == Render(e) IN
      /\ d \in State /\ d.at = e.at /\ d.out = e.out /\ d.ctx = e.ctx /\ d.conv = e.conv
      /\ d.loop = e.loop /\ d.stack = e.stack /\ d.prompt = Rendering(e.conv)
  BY <1>3, RenderFacts
<1> DEFINE d == Trimmed(q)
<1> HIDE DEF d, yes, no
<1>6. /\ d \in State /\ d.at = "final" /\ d.out = q.out /\ d.ctx = q.ctx /\ d.conv = c
      /\ d.loop = q.loop /\ d.stack = q.stack /\ d.prompt = Rendering(c)
  BY <1>3, <1>4, <1>5 DEF d
<1>7. Results(d) = Results(q) - 1 /\ Results(q) \in Nat
  BY <1>1, <1>6 DEF Results
<1>8. d.conv.must = q.conv.must /\ ~d.conv.lastBig /\ d.conv.notice
  BY <1>1, <1>6 DEF yes, no
<1> QED BY <1>6, <1>7, <1>8 DEF d

LEMMA SplitSum ==
  ASSUME NEW a \in Nat, NEW b \in Nat, NEW n \in Nat, n <= b, a > 0 \/ n # b
  PROVE  a + (b - n) > 0
OBVIOUS

LEMMA TrimmedMoves ==
  ASSUME PathInv, NEW r \in Requests, NEW s, Rested(r, s), rq[r].at = "tool", rq[r].stack = <<>>,
         IsChat(r), Put(r, Trimmed(s)), UNCHANGED totals
  PROVE  Moves(r)
<1> DEFINE d == Trimmed(s)
<1>1. Good(r, rq[r]) /\ rq[r] \in State
  BY Facts
<1>2. /\ rq[r].loop.round <= MaxRounds /\ rq[r].loop.ok /\ ~Returns(r)
      /\ rq[r].out.by = "none" /\ rq[r].out.finish = "none"
  BY <1>1 DEF Good, RoundsOK, AnswerOK
<1>3. /\ d \in State /\ d.at = "final" /\ d.out = s.out /\ d.ctx = s.ctx
      /\ d.conv.must = s.conv.must /\ ~d.conv.lastBig /\ d.conv.notice
      /\ Results(d) = Results(s) - 1 /\ Results(s) \in Nat
      /\ d.stack = s.stack /\ d.prompt = Rendering(d.conv) /\ d.loop = s.loop
  BY TrimmedFacts DEF Rested
<1>4. Put(r, d)
  OBVIOUS
<1> HIDE DEF d
<1>5. RoundsOK(r, d) /\ PromptOK(r, d) /\ AnswerOK(r, d)
  BY <1>2, <1>3 DEF RoundsOK, PromptOK, AnswerOK, Rested, Opening, Claiming
<1>6. ResultsOK(d)
  BY <1>3 DEF ResultsOK, Rested
<1> QED BY <1>3, <1>4, <1>5, <1>6, LoopMoves DEF Rested

LEMMA EndRoundMoves ==
  ASSUME PathInv, NEW r \in Requests, EndRound(r) PROVE Moves(r)
<1>1. /\ Good(r, rq[r]) /\ rq[r] \in State /\ rq[r].at = "tool" /\ rq[r].stack = <<>>
      /\ UNCHANGED totals
      /\ rq[r].conv.lastBig => rq[r].conv.big > 0
      /\ ~rq[r].conv.notice /\ rq[r].loop.given = Results(rq[r]) /\ Results(rq[r]) > 0
      /\ LastOK(rq[r].conv)
  <2>1. /\ Good(r, rq[r]) /\ rq[r] \in State /\ rq[r].at = "tool" /\ rq[r].stack = <<>>
        /\ rq[r].loop.calls = <<>> /\ UNCHANGED totals
    BY Facts DEF EndRound
  <2>2. rq[r].conv \in Conversation
    BY <2>1 DEF State
  <2>3. ResultsOK(rq[r]) /\ ~rq[r].conv.notice /\ LastOK(rq[r].conv)
    BY <2>1 DEF Good, ResultsOK
  <2>4. rq[r].loop.given = Results(rq[r]) /\ Results(rq[r]) > 0
    BY <2>1, <2>2, <2>3 DEF ResultsOK, Results, Conversation
  <2> QED BY <2>1, <2>3, <2>4 DEF Good, PromptOK
<1>2. CASE ~IsChat(r)
  <2> DEFINE s == Render(rq[r])
  <2>1. Rested(r, s)
    <3>1. /\ s \in State /\ s.out = rq[r].out /\ s.ctx = rq[r].ctx
          /\ s.conv = rq[r].conv
          /\ s.loop = rq[r].loop /\ s.stack = rq[r].stack /\ s.prompt = Rendering(rq[r].conv)
      BY <1>1, RenderFacts
    <3> HIDE DEF s
    <3> QED BY <1>1, <1>2, <3>1 DEF Rested, Results
  <2>2. Put(r, NextRound(s))
    BY <1>2 DEF EndRound
  <2> HIDE DEF s
  <2> QED BY <1>1, <2>1, <2>2, NextRoundMoves
<1>3. CASE IsChat(r)
  <2> DEFINE m == IF rq[r].conv.must = "any" THEN "no" ELSE rq[r].conv.must
             k == [rq[r].conv EXCEPT !.must = m]
             q == [rq[r] EXCEPT !.conv.must = IF @ = "any" THEN "no" ELSE @]
  <2>1. /\ k \in Conversation /\ k.must # "any" /\ k.lastBig = rq[r].conv.lastBig
        /\ k.big = rq[r].conv.big /\ k.small = rq[r].conv.small
        /\ k.notice = rq[r].conv.notice
    BY <1>1 DEF State, Conversation
  <2>2. q = [rq[r] EXCEPT !.conv = k]
    BY <1>1 DEF State
  <2>3. PICK left \in 0 .. q.conv.big, last \in BOOLEAN :
          LET s == Render([q EXCEPT !.conv = Split(@, left, last)]) IN
          /\ last => q.conv.lastBig /\ left > 0
          /\ left = q.conv.big => last = q.conv.lastBig
          /\ \E budget \in Budgets :
                 Put(r, IF budget > 0 /\ Size(r, s.prompt) >= budget
                        THEN Trimmed(s) ELSE NextRound(s))
    BY <1>3 DEF EndRound
  <2> DEFINE c == Split(k, left, last)
             e == [q EXCEPT !.conv = Split(@, left, last)]
             s == Render(e)
  <2> HIDE DEF k, q
  <2>4. /\ q \in State /\ q.conv = k /\ q.out = rq[r].out /\ q.ctx = rq[r].ctx
        /\ q.loop = rq[r].loop /\ q.stack = rq[r].stack
    BY <1>1, <2>1, <2>2 DEF State
  <2>5. /\ c \in Conversation /\ c.must # "any" /\ (c.lastBig => c.big > 0)
        /\ c.small + c.big = k.small + k.big /\ c.notice = k.notice /\ LastOK(c)
    <3>1. /\ k.small \in Nat /\ k.big \in Nat /\ left \in Nat /\ left <= k.big
          /\ k.small + (k.big - left) \in Nat
      BY <2>1, <2>4 DEF Conversation
    <3>2. c = [k EXCEPT !.small = k.small + (k.big - left), !.big = left, !.lastBig = last]
      BY DEF Split
    <3>3. /\ c \in Conversation /\ c.must = k.must /\ c.big = left /\ c.lastBig = last
          /\ c.small = k.small + (k.big - left) /\ c.notice = k.notice
      BY <2>1, <3>1, <3>2 DEF Conversation
    <3> HIDE DEF c
    <3>4. /\ last => k.lastBig /\ left > 0
          /\ left = k.big => last = k.lastBig
      BY <2>3, <2>4
    <3>5. LastOK(k)
      BY <1>1, <2>1 DEF LastOK
    <3>6. k.small + k.big > 0
      BY <1>1, <2>1 DEF Results
    <3>7. IF last THEN left > 0 ELSE k.small + (k.big - left) > 0
      <4>1. CASE last
        BY <3>4, <4>1
      <4>2. CASE ~last /\ k.lastBig
        <5>1. left # k.big
          BY <3>4, <4>2
        <5>2. k.small + (k.big - left) > 0
          BY <3>1, <5>1, SplitSum
        <5> QED BY ONLY <4>2, <5>2
      <4>3. CASE ~last /\ ~k.lastBig
        <5>1. k.small > 0
          BY <3>5, <3>6, <4>3 DEF LastOK
        <5>2. k.small + (k.big - left) > 0
          BY <3>1, <5>1, SplitSum
        <5> QED BY ONLY <4>3, <5>2
      <4> QED BY <4>1, <4>2, <4>3
    <3> QED BY <2>1, <3>1, <3>3, <3>4, <3>7 DEF LastOK
  <2>6. e = [q EXCEPT !.conv = c]
    BY <2>4
  <2> HIDE DEF c, e
  <2>7. /\ e \in State /\ e.conv = c /\ e.out = q.out /\ e.ctx = q.ctx
        /\ e.loop = q.loop /\ e.stack = q.stack
    BY <2>4, <2>5, <2>6 DEF State
  <2>8. Rested(r, s)
    <3>1. /\ s \in State /\ s.out = e.out /\ s.ctx = e.ctx
          /\ s.conv = e.conv
          /\ s.loop = e.loop /\ s.stack = e.stack /\ s.prompt = Rendering(e.conv)
      BY <2>7, RenderFacts
    <3> HIDE DEF s
    <3>2. Results(s) = Results(rq[r])
      BY <2>1, <2>5, <2>7, <3>1 DEF Results
    <3> QED BY <1>1, <2>1, <2>4, <2>5, <2>7, <3>1, <3>2 DEF Rested
  <2>9. Put(r, Trimmed(s)) \/ Put(r, NextRound(s))
    BY <2>3 DEF e
  <2> HIDE DEF s
  <2> QED BY <1>1, <1>3, <2>8, <2>9, TrimmedMoves, NextRoundMoves
<1> QED BY <1>2, <1>3

LEMMA FinalMoves ==
  ASSUME PathInv, NEW r \in Requests, Final(r) PROVE Moves(r)
<1>1. /\ Good(r, rq[r]) /\ rq[r] \in State /\ rq[r].at = "final" /\ rq[r].stack = <<>>
      /\ UNCHANGED totals
  BY Facts DEF Final, Good, StackOK
<1>2. /\ rq[r].loop.round <= MaxRounds /\ rq[r].prompt = Rendering(rq[r].conv)
      /\ rq[r].conv.notice /\ ~Returns(r) /\ rq[r].loop.round \in Nat
      /\ rq[r].out.by = "none" /\ rq[r].out.finish = "none"
  BY <1>1 DEF Good, RoundsOK, PromptOK, AnswerOK, State, Loop
<1>3. ASSUME NEW d \in State, Put(r, d), d.at = "answer", d.out = rq[r].out,
             d.ctx = rq[r].ctx, d.conv = rq[r].conv, d.prompt = rq[r].prompt,
             d.stack = rq[r].stack,
             d.loop.given = rq[r].loop.given, d.loop.round = rq[r].loop.round + 1,
             d.loop.ok => d.loop.shown = rq[r].prompt.small + rq[r].prompt.big
      PROVE  Moves(r)
  <2>1. RoundsOK(r, d)
    BY <1>2, <1>3 DEF RoundsOK, Opening, Claiming
  <2>2. PromptOK(r, d)
    BY <1>1, <1>2, <1>3 DEF PromptOK, Good
  <2>3. d.loop.ok => d.loop.shown = Results(d)
    BY <1>2, <1>3 DEF Results, Rendering
  <2>4. AnswerOK(r, d)
    BY <1>2, <1>3, <2>3 DEF AnswerOK, Backed, Reached
  <2>5. ResultsOK(d)
    BY <1>1, <1>3 DEF ResultsOK, Results, Good
  <2> QED BY <1>1, <1>3, <2>1, <2>2, <2>4, <2>5, LoopMoves
<1>4. rq[r].loop \in Loop /\ rq[r].loop.round + 1 \in 0 .. MaxRounds + 1
  <2>1. rq[r].loop \in Loop
    BY <1>1 DEF State
  <2>2. rq[r].loop.round \in Nat /\ rq[r].loop.round <= MaxRounds /\ MaxRounds \in Nat
    BY <1>2, PathAssumption
  <2>3. rq[r].loop.round + 1 \in 0 .. MaxRounds + 1
    BY <2>2
  <2> QED BY <2>1, <2>3
<1>5. CASE Put(r, [rq[r] EXCEPT !.loop.ok = FALSE, !.loop.round = @ + 1, !.at = "answer"])
  <2> DEFINE l == [rq[r].loop EXCEPT !.ok = FALSE, !.round = @ + 1]
             d == [rq[r] EXCEPT !.loop.ok = FALSE, !.loop.round = @ + 1, !.at = "answer"]
  <2>1. /\ l \in Loop /\ l.given = rq[r].loop.given /\ l.round = rq[r].loop.round + 1
        /\ ~l.ok
    BY <1>2, <1>4 DEF Loop
  <2>2. d = [rq[r] EXCEPT !.loop = l, !.at = "answer"]
    BY <1>1 DEF State
  <2> HIDE DEF l
  <2>3. /\ d \in State /\ d.loop = l /\ d.at = "answer" /\ d.out = rq[r].out
        /\ d.ctx = rq[r].ctx /\ d.conv = rq[r].conv /\ d.prompt = rq[r].prompt
        /\ d.stack = rq[r].stack
    BY <1>1, <2>1, <2>2 DEF State, Stage
  <2>4. Put(r, d)
    BY <1>5
  <2> HIDE DEF d
  <2> QED BY <1>3, <2>1, <2>3, <2>4
<1>6. ASSUME NEW calls \in Called,
             Put(r, [Generated(rq[r], calls) EXCEPT !.loop.round = @ + 1, !.at = "answer"])
      PROVE  Moves(r)
  <2> DEFINE g == Generated(rq[r], calls)
             l == [g.loop EXCEPT !.round = @ + 1]
             d == [g EXCEPT !.loop.round = @ + 1, !.at = "answer"]
  <2>1. /\ g \in State /\ g.out = rq[r].out /\ g.ctx = rq[r].ctx
        /\ g.conv = rq[r].conv /\ g.prompt = rq[r].prompt /\ g.stack = rq[r].stack
        /\ g.loop.round = rq[r].loop.round /\ g.loop.given = rq[r].loop.given
        /\ g.loop.shown = rq[r].prompt.small + rq[r].prompt.big
    BY <1>1, GeneratedFacts
  <2>2. Put(r, d)
    BY <1>6
  <2> HIDE DEF g
  <2>3. g.loop \in Loop
    BY <2>1 DEF State
  <2>4. l \in Loop /\ l.given = rq[r].loop.given /\ l.round = rq[r].loop.round + 1
        /\ l.shown = rq[r].prompt.small + rq[r].prompt.big
    BY <1>2, <1>4, <2>1, <2>3 DEF Loop
  <2>5. d = [g EXCEPT !.loop = l, !.at = "answer"]
    BY <2>1 DEF State
  <2> HIDE DEF l
  <2>6. /\ d.loop = l /\ d.at = "answer" /\ d.out = g.out
        /\ d.ctx = g.ctx /\ d.conv = g.conv /\ d.prompt = g.prompt
        /\ d.stack = g.stack
    BY <2>1, <2>5 DEF State
  <2>7. d \in State
    <3>1. "answer" \in Stage
      BY DEF Stage
    <3> QED BY <2>1, <2>4, <2>5, <3>1 DEF State
  <2> HIDE DEF d
  <2> QED BY ONLY <2>7, <1>3, <2>1, <2>2, <2>4, <2>6
<1> QED BY <1>5, <1>6 DEF Final

LEMMA AnswerMoves ==
  ASSUME PathInv, NEW r \in Requests, Answer(r) PROVE Moves(r)
<1> DEFINE f == IF rq[r].out.finish = "none" THEN "stop" ELSE rq[r].out.finish
           q == [rq[r] EXCEPT !.out.finish = IF @ = "none" THEN "stop" ELSE @]
           e == [q EXCEPT !.out.by = "loop"]
<1>1. /\ Good(r, rq[r]) /\ rq[r] \in State /\ rq[r].at = "answer" /\ rq[r].stack = <<>>
  BY Facts DEF Answer, Good, StackOK
<1>2. Backed(r, rq[r]) /\ Reached(rq[r])
  BY <1>1 DEF Good, AnswerOK
<1>3. f \in {"none", "stop", "tool_calls"} /\ (f = "tool_calls" <=> rq[r].out.finish = "tool_calls")
  BY <1>1 DEF State, Outcome
<1>4. q = [rq[r] EXCEPT !.out.finish = f]
  BY <1>1 DEF State
<1> HIDE DEF f, q
<1>5. /\ q \in State /\ q.out.finish = f
      /\ q.ctx = rq[r].ctx /\ q.conv = rq[r].conv /\ q.loop = rq[r].loop
      /\ q.stack = rq[r].stack
  BY <1>1, <1>3, <1>4, FinishFacts
<1>6. /\ e \in State /\ e.out.by = "loop" /\ e.out.finish = q.out.finish
      /\ e.ctx = q.ctx /\ e.conv = q.conv /\ e.loop = q.loop /\ e.stack = q.stack
  BY <1>5, ByFacts
<1>7. End(r, e, 200)
  BY DEF Answer, EndOk, q
<1> HIDE DEF e
<1>8. Backed(r, e) /\ Reached(e)
  BY <1>2, <1>3, <1>5, <1>6 DEF Backed, Reached, Results
<1> QED BY <1>1, <1>5, <1>6, <1>7, <1>8, EndMoves DEF Statuses

LEMMA ServeMoves ==
  ASSUME PathInv, RegistryTypeOK, NEW r \in Requests, Serve(r) PROVE Moves(r)
  BY ArriveMoves, CheckAuthMoves, ParseMoves, PrepareMoves, PrepReturnMoves,
     SetMetadataMoves, CallEngineMoves, CallToolMoves, InjectMoves, ClaimMoves,
     GenStreamMoves, GenReturnMoves, LiveMoves, HangupMoves, InferMoves, ToolMoves, DebugDispatchMoves, ToolReturnMoves, EndRoundMoves,
     FinalMoves, AnswerMoves
  DEF Serve

-----------------------------------------------------------------------------
(* The invariant *)

LEMMA InitInv == Init => Inv
<1> SUFFICES ASSUME Init PROVE Inv
  OBVIOUS
<1>1. LimiterIInv
  BY LimiterInitInv DEF Init
<1>2. RegistryInv
  <2>1. entries \in Seq(Entry) /\ remote \in Seq(Entry) /\ remote = <<>>
    BY PathAssumption DEF Init
  <2>2. entries \o remote = entries
    BY <2>1
  <2>3. NamesOf(entries) \in Seq(Qualified)
    BY <2>1, NamesType
  <2> QED BY <2>1, <2>2, <2>3 DEF Init, RegistryInv, RegistryTypeOK, SchemasExact
<1>3. Fresh \in State
  <2>1. <<>> \in Seq(Names) /\ <<>> \in Seq(Frame) /\ 0 \in 0 .. MaxRounds + 1
    BY PathAssumption
  <2>2. Blank \in Conversation
    BY DEF Blank, Conversation
  <2>3. Rendering(Blank) \in Prompt
    BY <2>2, RenderingType
  <2>4. Fresh.out \in Outcome /\ Fresh.loop \in Loop /\ Fresh.ctx \in Context
    BY <2>1 DEF Fresh, Outcome, Loop, Context
  <2> QED BY <2>1, <2>2, <2>3, <2>4 DEF Fresh, State, Stage
<1>4. ASSUME NEW r \in Requests PROVE Good(r, Fresh)
  <2>1. StackOK(Fresh)
    BY EmptySeq DEF StackOK, Fresh
  <2>2. /\ RoundsOK(r, Fresh) /\ ContextOK(r, Fresh) /\ PromptOK(r, Fresh)
        /\ AnswerOK(r, Fresh) /\ ResultsOK(Fresh)
    BY DEF RoundsOK, ContextOK, PromptOK, AnswerOK, ResultsOK, Results, LastOK, Honest,
       Fresh, Blank
  <2> QED BY <1>3, <2>1, <2>2 DEF Good
<1>5. \A r \in Requests : rq[r] = Fresh
  BY DEF Init
<1>6. Tally
  <2>1. Counted = {} /\ Researched = {}
    BY <1>5 DEF Counted, Researched, Fresh
  <2>2. SumOf(rq, {}) = 0
    <3> PICK q : q = rq
      OBVIOUS
    <3>1. SumOf(q, {}) = 0
      BY SumFacts
    <3> QED BY <3>1
  <2> QED BY <2>1, <2>2, FS_EmptySet DEF Init, Tally
<1>7. PathInv
  BY <1>3, <1>4, <1>5, <1>6, MixesAssumption DEF Init, PathInv, Totals
<1> QED BY <1>1, <1>2, <1>7 DEF Inv

\* A request that settles its outcome is counted, and not before.
LEMMA MovesTally ==
  ASSUME PathInv, NEW r \in Requests, NEW q \in State, Put(r, q), Settled(r, q),
         UNCHANGED shape
  PROVE  Tally' /\ totals' \in Totals
<1>1. /\ rq[r] \in State /\ rq \in [Requests -> State] /\ totals \in Totals /\ Tally
      /\ shape[r] \in Shape
  BY Facts DEF PathInv
<1>2. rq'[r] = q /\ \A x \in Requests \ {r} : rq'[x] = rq[x]
  BY <1>1 DEF Put
<1>3. /\ rq[r].ctx.held \in {"none", "held", "stream", "gone", "lost"}
      /\ rq[r].ctx \in Context /\ q.ctx \in Context
  BY <1>1 DEF State, Context
<1> PICK a : a = rq
  OBVIOUS
<1> PICK b : b = rq'
  OBVIOUS
<1> PICK C : C = Researched
  OBVIOUS
<1> PICK D : D = Researched'
  OBVIOUS
<1>4. /\ C \subseteq Requests /\ D \subseteq Requests
      /\ totals.subcalls = SumOf(a, C)
      /\ Tally' <=> /\ totals'.chat = Cardinality(Counted')
                    /\ totals'.research = Cardinality(D)
                    /\ totals'.subcalls = SumOf(b, D)
  BY <1>1 DEF Tally, Counted, Researched
<1>5. CASE /\ totals' = totals
           /\ \/ ~IsChat(r)
              \/ /\ q.ctx.held = "gone" <=> rq[r].ctx.held = "gone"
                 /\ rq[r].ctx.held = "gone" =>
                        q.ctx.sub = rq[r].ctx.sub /\ q.ctx.research = rq[r].ctx.research
  <2>1. Counted' = Counted
    BY <1>2, <1>5 DEF Counted, IsChat
  <2>2. ASSUME NEW x \in Counted
        PROVE  a[x].ctx.sub = b[x].ctx.sub /\ a[x].ctx.research = b[x].ctx.research
    BY <1>2, <1>5 DEF Counted
  <2>3. D = C
    BY <2>1, <2>2 DEF Researched
  <2>4. SumOf(a, C) = SumOf(b, C)
    <3>1. \A x \in C : a[x].ctx.sub = b[x].ctx.sub
      BY <2>2 DEF Researched
    <3> QED BY <1>4, <3>1, SumSame
  <2> QED BY <1>1, <1>4, <1>5, <2>1, <2>3, <2>4 DEF Tally
<1>6. CASE /\ q.ctx.held = "gone" /\ IsChat(r) /\ rq[r].ctx.held \in {"held", "stream"}
           /\ totals' \in Totals
           /\ totals'.chat = totals.chat + 1
           /\ totals'.research = totals.research + IF q.ctx.research THEN 1 ELSE 0
           /\ totals'.subcalls = totals.subcalls + IF q.ctx.research THEN q.ctx.sub ELSE 0
  <2>1. /\ Counted' = Counted \cup {r} /\ r \notin Counted /\ r \notin C
    BY <1>2, <1>6 DEF Counted, Researched, IsChat
  <2>2. D = IF q.ctx.research THEN C \cup {r} ELSE C
    <3>1. \A x \in Requests \ {r} : a[x] = b[x]
      BY <1>2
    <3>2. D = {x \in Counted \cup {r} : b[x].ctx.research}
      BY <2>1 DEF Researched
    <3>3. C = {x \in Counted : a[x].ctx.research}
      BY DEF Researched
    <3>4. b[r] = q
      BY <1>2
    <3>5. Counted \subseteq Requests
      BY DEF Counted
    <3> QED BY <2>1, <3>1, <3>2, <3>3, <3>4, <3>5
  <2>3. IsFiniteSet(Counted) /\ IsFiniteSet(C)
    BY PathAssumption, FS_Subset DEF Counted, Researched
  <2>4. /\ Cardinality(Counted \cup {r}) = Cardinality(Counted) + 1
        /\ Cardinality(C \cup {r}) = Cardinality(C) + 1
    BY <2>1, <2>3, FS_AddElement
  <2>5. totals.research \in Nat /\ totals.subcalls \in Int /\ q.ctx.sub \in Int
    BY <1>1, <1>3 DEF Totals, Context
  <2>6. totals'.research = Cardinality(D) /\ totals'.chat = Cardinality(Counted')
    BY <1>1, <1>6, <2>1, <2>2, <2>4, <2>5 DEF Tally
  <2>7. SumOf(a, C) = SumOf(b, C)
    <3>1. \A x \in C : a[x].ctx.sub = b[x].ctx.sub
      BY <1>2, <1>4, <2>1
    <3> QED BY <1>4, <3>1, SumSame
  <2>8. totals'.subcalls = SumOf(b, D)
    <3>1. CASE q.ctx.research
      <4>1. \A x \in D : b[x].ctx.sub \in Int
        BY <1>1, <1>2, <1>4, <2>5 DEF State, Context
      <4>2. r \in D /\ D \ {r} = C /\ b[r] = q
        BY <1>2, <2>1, <2>2, <3>1
      <4>3. \A x \in D : SumOf(b, D) = b[x].ctx.sub + SumOf(b, D \ {x})
        BY <1>4, <4>1, SumFacts
      <4>4. SumOf(b, D) = q.ctx.sub + totals.subcalls
        BY <1>4, <2>7, <4>2, <4>3
      <4> QED BY <1>6, <2>5, <3>1, <4>4
    <3>2. CASE ~q.ctx.research
      BY <1>4, <1>6, <2>2, <2>5, <2>7, <3>2
    <3> QED BY <3>1, <3>2
  <2> QED BY <1>4, <1>6, <2>6, <2>8
<1> QED BY <1>3, <1>5, <1>6 DEF Settled

LEMMA MovesInv ==
  ASSUME PathInv, NEW r \in Requests, Moves(r), UNCHANGED <<shape, loaded>>
  PROVE  PathInv'
<1>1. PICK q : Good(r, q) /\ Put(r, q) /\ Settled(r, q)
  BY DEF Moves
<1>2. q \in State /\ rq \in [Requests -> State] /\ rq' = [rq EXCEPT ![r] = q]
  BY <1>1 DEF Good, Put, PathInv
<1>3. Tally' /\ totals' \in Totals
  BY <1>1, <1>2, MovesTally
<1>4. ASSUME NEW x \in Requests PROVE Good(x, rq[x])'
  <2>1. PICK z : z = rq'[x] /\ Good(x, z)
    BY <1>1, <1>2 DEF PathInv
  <2> QED BY <2>1 DEF Good, StackOK, RoundsOK, ResultsOK, ContextOK, PromptOK, AnswerOK, Backed,
       Reached, Results, Returns, IsChat, Delegates, HasClientTools, Streams
<1>5. rq' \in [Requests -> State]
  BY <1>2
<1> QED BY <1>3, <1>4, <1>5 DEF PathInv

LEMMA StillInv ==
  ASSUME PathInv, UNCHANGED <<shape, rq, totals, loaded>>
  PROVE  PathInv'
<1>1. ASSUME NEW x \in Requests PROVE Good(x, rq[x])'
  <2>1. PICK z : z = rq'[x] /\ Good(x, z)
    BY DEF PathInv
  <2> QED BY <2>1 DEF Good, StackOK, RoundsOK, ResultsOK, ContextOK, PromptOK, AnswerOK, Backed,
       Reached, Results, Returns, IsChat, Delegates, HasClientTools, Streams
<1>2. Tally'
  BY DEF PathInv, Tally, Counted, Researched, IsChat
<1> QED BY <1>1, <1>2 DEF PathInv

LEMMA RegistryStill ==
  ASSUME RegistryInv, UNCHANGED registryVars PROVE RegistryInv'
  BY DEF RegistryInv, RegistryTypeOK, SchemasExact, registryVars

LEMMA LimiterStill ==
  ASSUME LimiterIInv, UNCHANGED limiterVars PROVE LimiterIInv'
  BY LimiterStep

\* What a request's step touches beside its own record.
LEMMA ServeFrame ==
  ASSUME NEW r \in Requests, Serve(r)
  PROVE  /\ UNCHANGED <<registryVars, shape, loaded>>
         /\ UNCHANGED limiterVars \/ TryAcquire(shape[r].client)
<1>1. CASE Arrive(r)
  BY <1>1 DEF Arrive
<1>2. CASE CheckAuth(r) \/ Parse(r) \/ Prepare(r) \/ PrepReturn(r) \/ SetMetadata(r)
           \/ CallEngine(r) \/ CallTool(r)
  BY <1>2 DEF CheckAuth, Parse, Prepare, PrepReturn, SetMetadata, CallEngine, CallTool
<1>3. CASE Inject(r) \/ Claim(r) \/ GenStream(r) \/ GenReturn(r) \/ Live(r) \/ Hangup(r)
           \/ Infer(r)
  BY <1>3 DEF Inject, Claim, GenStream, GenReturn, Live, Hangup, Infer
<1>4. CASE Tool(r) \/ DebugDispatch(r) \/ ToolReturn(r) \/ EndRound(r) \/ Final(r) \/ Answer(r)
  BY <1>4 DEF Tool, DebugDispatch, ToolReturn, EndRound, Final, Answer
<1> QED BY <1>1, <1>2, <1>3, <1>4 DEF Serve

LEMMA ServeInv ==
  ASSUME Inv, NEW r \in Requests, Serve(r) PROVE Inv'
<1>1. Moves(r)
  BY ServeMoves DEF Inv, RegistryInv
<1>2. /\ UNCHANGED <<registryVars, shape, loaded>>
      /\ UNCHANGED limiterVars \/ TryAcquire(shape[r].client)
  BY ServeFrame
<1>3. PathInv'
  BY <1>1, <1>2, MovesInv DEF Inv
<1>4. RegistryInv'
  BY <1>2, RegistryStill DEF Inv
<1>5. shape[r].client \in Clients
  BY Facts DEF Inv, Shape
<1>6. LimiterIInv'
  BY <1>2, <1>5, LimiterStill, TryAcquireInv DEF Inv
<1> QED BY <1>3, <1>4, <1>6 DEF Inv

LEMMA NextInv == Inv /\ [Next]_vars => Inv'
<1> SUFFICES ASSUME Inv, [Next]_vars PROVE Inv'
  OBVIOUS
<1>1. ASSUME NEW r \in Requests, Serve(r) PROVE Inv'
  BY <1>1, ServeInv
<1>2. CASE Announce
  <2>1. PICK e \in Announced : RegisterRemote(e)
    BY <1>2 DEF Announce
  <2>2. RegistryInv'
    BY <2>1, RegisterRemoteInv, PathAssumption DEF Inv
  <2>3. LimiterIInv' /\ PathInv'
    BY <1>2, LimiterStill, StillInv DEF Announce, Inv, requestVars
  <2> QED BY <2>2, <2>3 DEF Inv
<1>3. CASE Withdraw
  <2>1. PICK p \in Plugins : UnregisterRemotePlugin(p)
    BY <1>3 DEF Withdraw
  <2>2. RegistryInv'
    BY <2>1, UnregisterRemoteInv DEF Inv
  <2>3. LimiterIInv' /\ PathInv'
    BY <1>3, LimiterStill, StillInv DEF Withdraw, Inv, requestVars
  <2> QED BY <2>2, <2>3 DEF Inv
<1>4. CASE Pass
  <2>1. LimiterIInv'
    BY <1>4, TickInv DEF Pass, Inv
  <2>2. RegistryInv' /\ PathInv'
    BY <1>4, RegistryStill, StillInv DEF Pass, Inv, requestVars
  <2> QED BY <2>1, <2>2 DEF Inv
<1>5. CASE UNCHANGED vars
  BY <1>5, LimiterStill, RegistryStill, StillInv DEF Inv, vars
<1> QED BY <1>1, <1>2, <1>3, <1>4, <1>5 DEF Next

LEMMA InvImplies ==
  ASSUME Inv
  PROVE  /\ TypeOK /\ WindowBound /\ SchemasExact
         /\ PromptFresh /\ ResultsReachModel /\ AnswersAreBacked /\ OutcomesExact
         /\ SubcallsCounted
<1>1. TypeOK
  BY DEF Inv, LimiterIInv, RegistryInv, PathInv, TypeOK, Totals
<1>2. WindowBound /\ SchemasExact
  BY LimiterInvBound DEF Inv, RegistryInv
<1>3. \A r \in Requests : Good(r, rq[r])
  BY DEF Inv, PathInv
<1>4. PromptFresh
  BY <1>3 DEF PromptFresh, Good, PromptOK
<1>5. ResultsReachModel
  <2> SUFFICES ASSUME NEW r \in Requests, rq[r].out.by = "loop"
               PROVE  \/ rq[r].loop.shown = IF rq[r].conv.notice THEN rq[r].loop.given - 1
                                            ELSE rq[r].loop.given
                      \/ ~rq[r].conv.notice /\ rq[r].loop.round = MaxRounds + 1
                      \/ rq[r].conv.notice /\ ~rq[r].loop.ok
    BY DEF ResultsReachModel
  <2>1. Reached(rq[r]) /\ ResultsOK(rq[r]) /\ rq[r].conv \in Conversation
    BY <1>3 DEF Good, AnswerOK, State
  <2> QED BY <2>1 DEF Reached, ResultsOK, Results, Conversation
<1>6. AnswersAreBacked
  BY <1>3 DEF AnswersAreBacked, Good, AnswerOK, Backed, RoundsOK, Returns
<1>7. OutcomesExact
  BY <1>3 DEF OutcomesExact, Good, ContextOK, Inv, PathInv, Tally
<1>8. SubcallsCounted
  BY <1>3 DEF SubcallsCounted, SumOf, Inv, PathInv, Tally, Good, ContextOK, Honest,
     Researched, Counted
<1> QED BY <1>1, <1>2, <1>4, <1>5, <1>6, <1>7, <1>8

LEMMA Invariance == Spec => []Inv
<1>1. Init => Inv
  BY InitInv
<1>2. Inv /\ [Next]_vars => Inv'
  BY NextInv
<1> QED BY <1>1, <1>2, PTL DEF Spec

-----------------------------------------------------------------------------
(* Theorems *)

\* The records of all requests keep their types; the rounds of the tool loop
\* never pass the configured limit by more than one.
THEOREM TypeCorrect == Spec => []TypeOK
<1>1. Inv => TypeOK
  BY InvImplies
<1> QED BY <1>1, Invariance, PTL

\* No client is let in faster than its bucket pays for, whatever else the
\* server does.
THEOREM ClientsBounded == Spec => []WindowBound
<1>1. Inv => WindowBound
  BY InvImplies
<1> QED BY <1>1, Invariance, PTL

\* The schemas are those of the tools that are registered, while sidecars
\* announce tools and lose them and requests are served.
THEOREM SchemasMatch == Spec => []SchemasExact
<1>1. Inv => SchemasExact
  BY InvImplies
<1> QED BY <1>1, Invariance, PTL

\* A prompt is never older than its conversation, and does not go on demanding
\* one of the tools; the demand for a given tool is not taken out.
THEOREM PromptsFresh == Spec => []PromptFresh
<1>1. Inv => PromptFresh
  BY InvImplies
<1> QED BY <1>1, Invariance, PTL

\* A text that answers was generated from every result the tools gave, or from
\* all but the one a notice replaced, but for the exceptions that
\* ResultsReachModel names.
THEOREM ResultsReach == Spec => []ResultsReachModel
<1>1. Inv => ResultsReachModel
  BY InvImplies
<1> QED BY <1>1, Invariance, PTL

\* An answer stands on a text of the engine, and a client that runs its own
\* tools gets the calls of the first one.
THEOREM AnswersBacked == Spec => []AnswersAreBacked
<1>1. Inv => AnswersAreBacked
  BY InvImplies
<1> QED BY <1>1, Invariance, PTL

\* Every chat is counted once, however it ends, but for a claimed stream that
\* is given up before it runs: that one is not counted.
THEOREM OutcomesCounted == Spec => []OutcomesExact
<1>1. Inv => OutcomesExact
  BY InvImplies
<1> QED BY <1>1, Invariance, PTL

\* The reported subcalls are the counters of the counted research requests at
\* their end; a counter that neither client nor plugin wrote is the number of
\* engine calls made for the request.
THEOREM SubcallsExact == Spec => []SubcallsCounted
<1>1. Inv => SubcallsCounted
  BY InvImplies
<1> QED BY <1>1, Invariance, PTL

\* A tool runs for a request only when its allow-list names it: for any set of
\* plugins, tools, lists and requests, and any texts of the model.
THEOREM DispatchScoped == Spec => DispatchInScope
<1> DEFINE A(r) == /\ Runs(rq'[r]) /\ Len(rq'[r].stack) > Len(rq[r].stack)
                   /\ rq[r].at # "debug" \/ rq[r].stack # <<>>
                   => InScope(Top(rq'[r]).name, rq[r].ctx.allow)
<1>1. Inv /\ [Next]_vars => [\A r \in Requests : A(r)]_vars
  <2> SUFFICES ASSUME Inv, Next, NEW x \in Requests PROVE A(x)
    OBVIOUS
  <2>1. rq \in [Requests -> State]
    BY DEF Inv, PathInv
  <2>2. Len(rq[x].stack) \in Nat
    BY <2>1, StackType
  <2>3. CASE rq' = rq
    BY <2>2, <2>3
  <2>4. ASSUME NEW r \in Requests, Serve(r) PROVE A(x)
    <3>1. PICK q : Put(r, q) /\ Scoped(r, q)
      BY <2>4, ServeMoves DEF Moves, Inv, RegistryInv
    <3>2. rq'[r] = q /\ (x # r => rq'[x] = rq[x])
      BY <2>1, <3>1 DEF Put
    <3>3. CASE x = r
      BY <3>1, <3>2, <3>3 DEF Scoped
    <3>4. CASE x # r
      BY <2>2, <3>2, <3>4
    <3> QED BY <3>3, <3>4
  <2>5. Announce \/ Withdraw \/ Pass => rq' = rq
    BY DEF Announce, Withdraw, Pass, requestVars
  <2> QED BY <2>3, <2>4, <2>5 DEF Next
<1>2. DispatchInScope <=> [][\A r \in Requests : A(r)]_vars
  BY DEF DispatchInScope
<1> HIDE DEF A
<1> QED BY <1>1, <1>2, Invariance, PTL DEF Spec
=============================================================================
