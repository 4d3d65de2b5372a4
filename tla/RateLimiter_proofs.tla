------------------------ MODULE RateLimiter_proofs ------------------------
(***************************************************************************)
(* Proofs about RateLimiter.  What a client was let in for since any of    *)
(* its requests has been paid out of a full bucket and the refill since;   *)
(* what its bucket still holds comes out of the same money.                *)
(***************************************************************************)
EXTENDS RateLimiter, TLAPS

\* The requests from the i-th on are paid.
Owed(g, i) == (Len(g) - i + 1) * Cost

Paid(b, g, now) ==
    /\ b.known  => /\ b.last <= now
                   /\ \A i \in 1 .. Len(g) :
                          g[i] <= b.last /\ Owed(g, i) + b.tokens <= Burst + (b.last - g[i])
    /\ ~b.known => \A i \in 1 .. Len(g) : g[i] <= now /\ Owed(g, i) <= now - g[i]

Windows(g) ==
    \A i \in 1 .. Len(g) : \A j \in i .. Len(g) : (j - i + 1) * Cost <= Burst + (g[j] - g[i])

LimiterIInv ==
    /\ LimiterTypeOK
    /\ Enabled => \A k \in Clients : Paid(buckets[k], granted[k], clock) /\ Windows(granted[k])

Bucket == [tokens : Nat, last : Nat, known : BOOLEAN]

-----------------------------------------------------------------------------
LEMMA OneMore == ASSUME NEW a \in Int, NEW c \in Int PROVE (a + 1) * c = a * c + c
  OBVIOUS

LEMMA StillPaid ==
  ASSUME NEW o \in Int, NEW tokens \in Nat, NEW last \in Nat, NEW at \in Nat, NEW now \in Nat,
         NEW h \in Nat, NEW cost \in Nat, NEW burst \in Nat,
         o + tokens <= burst + (last - at), h <= tokens + (now - last)
  PROVE  o + cost + (h - cost) <= burst + (now - at) /\ o + h <= burst + (now - at)
  OBVIOUS

LEMMA PaidByAge ==
  ASSUME NEW o \in Int, NEW tokens \in Nat, NEW last \in Nat, NEW at \in Nat, NEW now \in Nat,
         NEW age \in Nat, NEW burst \in Nat, at <= last,
         o + tokens <= burst + (last - at), age >= burst, last + age < now
  PROVE  at <= now /\ o <= now - at
  OBVIOUS

\* What is owed for a request more.
LEMMA OwedAppend ==
  ASSUME NEW g \in Seq(Nat), NEW t \in Nat, NEW i \in 1 .. Len(g)
  PROVE  Owed(Append(g, t), i) = Owed(g, i) + Cost /\ Owed(g, i) \in Int
<1>1. Len(Append(g, t)) = Len(g) + 1 /\ Len(g) \in Nat /\ Cost \in Int
  BY LimiterAssumption
<1>2. Len(Append(g, t)) - i + 1 = (Len(g) - i + 1) + 1
  BY <1>1
<1>3. Len(g) - i + 1 \in Int
  BY <1>1
<1> QED BY <1>1, <1>2, <1>3, OneMore DEF Owed

LEMMA OwedLast ==
  ASSUME NEW g \in Seq(Nat), NEW t \in Nat
  PROVE  Owed(Append(g, t), Len(g) + 1) = Cost
  BY LimiterAssumption DEF Owed

LEMMA OwedInt ==
  ASSUME NEW g \in Seq(Nat), NEW i \in 1 .. Len(g)
  PROVE  Owed(g, i) \in Int
  BY LimiterAssumption DEF Owed

\* Time pays.
LEMMA PaidLater ==
  ASSUME NEW b \in Bucket, NEW g \in Seq(Nat), NEW now \in Nat, Paid(b, g, now)
  PROVE  Paid(b, g, now + 1)
<1>1. \A i \in 1 .. Len(g) : g[i] \in Nat /\ Owed(g, i) \in Int
  BY OwedInt
<1> QED BY <1>1 DEF Paid, Bucket

\* A request that is let in is paid from the bucket.
LEMMA PaidGrant ==
  ASSUME NEW b \in Bucket, NEW g \in Seq(Nat), NEW now \in Nat, Paid(b, g, now),
         NEW h \in Nat, h <= Burst, h >= Cost,
         b.known => h <= b.tokens + (now - b.last)
  PROVE  Paid([tokens |-> h - Cost, last |-> now, known |-> TRUE], Append(g, now), now)
<1> DEFINE f == Append(g, now)
<1>1. SUFFICES ASSUME NEW i \in 1 .. Len(f)
               PROVE  f[i] <= now /\ Owed(f, i) + (h - Cost) <= Burst + (now - f[i])
  BY DEF Paid
<1>2. Len(f) = Len(g) + 1 /\ Len(g) \in Nat /\ Cost \in Nat /\ Burst \in Nat
  BY LimiterAssumption
<1>3. CASE i = Len(g) + 1
  <2>1. f[i] = now
    BY <1>3
  <2>2. Owed(f, i) = Cost
    BY <1>3, OwedLast
  <2> QED BY <2>1, <2>2, <1>2
<1>4. CASE i # Len(g) + 1
  <2>1. i \in 1 .. Len(g)
    BY <1>2, <1>4
  <2>2. f[i] = g[i] /\ g[i] \in Nat
    BY <2>1
  <2>3. Owed(f, i) = Owed(g, i) + Cost /\ Owed(g, i) \in Int
    BY <2>1, OwedAppend
  <2>4. CASE b.known
    <3>1. g[i] <= b.last /\ Owed(g, i) + b.tokens <= Burst + (b.last - g[i]) /\ b.last <= now
      BY <2>1, <2>4 DEF Paid
    <3>2. b.last \in Nat /\ b.tokens \in Nat
      BY DEF Bucket
    <3>3. h <= b.tokens + (now - b.last)
      BY <2>4
    <3>4. Owed(g, i) + Cost + (h - Cost) <= Burst + (now - g[i])
      BY <3>1, <3>2, <3>3, <2>2, <2>3, <1>2, StillPaid
    <3>5. g[i] <= now
      BY <3>1, <3>2, <2>2
    <3> HIDE DEF f
    <3>6. f[i] <= now
      BY ONLY <3>5, <2>2
    <3>7. Owed(f, i) + (h - Cost) <= Burst + (now - f[i])
      BY ONLY <3>4, <2>2, <2>3
    <3> QED BY ONLY <3>6, <3>7
  <2>5. CASE ~b.known
    <3>1. g[i] <= now /\ Owed(g, i) <= now - g[i]
      BY <2>1, <2>5 DEF Paid
    <3> HIDE DEF f
    <3> QED BY <3>1, <2>2, <2>3, <1>2
  <2> QED BY <2>4, <2>5 DEF Bucket
<1> QED BY <1>3, <1>4

\* One that is not only leaves the bucket fuller.
LEMMA PaidRefuse ==
  ASSUME NEW b \in Bucket, NEW g \in Seq(Nat), NEW now \in Nat, Paid(b, g, now),
         b.known, NEW h \in Nat, h <= b.tokens + (now - b.last)
  PROVE  Paid([tokens |-> h, last |-> now, known |-> TRUE], g, now)
<1>1. \A i \in 1 .. Len(g) : g[i] \in Nat /\ Owed(g, i) \in Int
  BY OwedInt
<1>2. b.last \in Nat /\ b.tokens \in Nat /\ Burst \in Nat
  BY LimiterAssumption DEF Bucket
<1>3. ASSUME NEW i \in 1 .. Len(g)
      PROVE  g[i] <= now /\ Owed(g, i) + h <= Burst + (now - g[i])
  <2>1. /\ b.last <= now /\ g[i] <= b.last
        /\ Owed(g, i) + b.tokens <= Burst + (b.last - g[i])
    BY DEF Paid
  <2>2. g[i] \in Nat /\ Owed(g, i) \in Int
    BY <1>1
  <2>3. g[i] <= now
    BY <2>1, <2>2, <1>2
  <2> QED BY <2>1, <2>2, <2>3, <1>2, StillPaid
<1> QED BY <1>3 DEF Paid

\* A bucket is only forgotten when it would be full.
LEMMA PaidForget ==
  ASSUME NEW b \in Bucket, NEW g \in Seq(Nat), NEW now \in Nat, Paid(b, g, now),
         b.known, NEW age \in Nat, age >= Burst, b.last + age < now
  PROVE  Paid(NoBucket, g, now)
<1>1. \A i \in 1 .. Len(g) : g[i] \in Nat /\ Owed(g, i) \in Int
  BY OwedInt
<1>2. b.last \in Nat /\ b.tokens \in Nat /\ Burst \in Nat
  BY LimiterAssumption DEF Bucket
<1>3. ASSUME NEW i \in 1 .. Len(g)
      PROVE  g[i] <= now /\ Owed(g, i) <= now - g[i]
  <2>1. g[i] <= b.last /\ Owed(g, i) + b.tokens <= Burst + (b.last - g[i])
    BY DEF Paid
  <2>2. g[i] \in Nat /\ Owed(g, i) \in Int
    BY <1>1
  <2> QED BY <2>1, <2>2, <1>2, PaidByAge
<1> QED BY <1>3 DEF Paid, NoBucket

\* The windows that end at the new request are paid, the others are as before.
LEMMA WindowsGrant ==
  ASSUME NEW g \in Seq(Nat), NEW now \in Nat, Windows(g),
         NEW h \in Nat,
         Paid([tokens |-> h, last |-> now, known |-> TRUE], Append(g, now), now)
  PROVE  Windows(Append(g, now))
<1> DEFINE f == Append(g, now)
<1>1. SUFFICES ASSUME NEW i \in 1 .. Len(f), NEW j \in i .. Len(f)
               PROVE  (j - i + 1) * Cost <= Burst + (f[j] - f[i])
  BY DEF Windows
<1>2. Len(f) = Len(g) + 1 /\ Len(g) \in Nat /\ Cost \in Nat /\ Burst \in Nat
  BY LimiterAssumption
<1>3. CASE j = Len(g) + 1
  <2>1. f[j] = now /\ f[i] \in Nat
    BY <1>3
  <2>2. Owed(f, i) + h <= Burst + (now - f[i])
    BY DEF Paid
  <2>3. Owed(f, i) = (j - i + 1) * Cost /\ Owed(f, i) \in Int
    BY <1>2, <1>3 DEF Owed
  <2> HIDE DEF f
  <2> QED BY <2>1, <2>2, <2>3, <1>2
<1>4. CASE j # Len(g) + 1
  <2>1. j \in 1 .. Len(g) /\ i \in 1 .. Len(g) /\ j \in i .. Len(g)
    BY <1>2, <1>4
  <2>2. f[i] = g[i] /\ f[j] = g[j]
    BY <2>1
  <2> QED BY <2>1, <2>2 DEF Windows
<1> QED BY <1>3, <1>4

-----------------------------------------------------------------------------
LEMMA LimiterInitInv == LimiterInit => LimiterIInv
<1> SUFFICES ASSUME LimiterInit PROVE LimiterIInv
  OBVIOUS
<1>1. LimiterTypeOK
  BY DEF LimiterInit, LimiterTypeOK, NoBucket
<1>2. \A k \in Clients : Paid(buckets[k], granted[k], clock) /\ Windows(granted[k])
  <2> TAKE k \in Clients
  <2>1. buckets[k] = NoBucket /\ granted[k] = <<>>
    BY DEF LimiterInit
  <2>2. Len(<<>>) = 0
    OBVIOUS
  <2>3. ~NoBucket.known
    BY DEF NoBucket
  <2> QED BY <2>1, <2>2, <2>3 DEF Paid, Windows
<1> QED BY <1>1, <1>2 DEF LimiterIInv

LEMMA TickInv == LimiterIInv /\ Tick => LimiterIInv'
<1> SUFFICES ASSUME LimiterIInv, Tick PROVE LimiterIInv'
  OBVIOUS
<1>1. LimiterTypeOK'
  BY DEF LimiterIInv, LimiterTypeOK, Tick
<1>2. ASSUME Enabled, NEW k \in Clients
      PROVE  Paid(buckets[k], granted[k], clock + 1) /\ Windows(granted[k])
  <2>1. buckets[k] \in Bucket /\ granted[k] \in Seq(Nat) /\ clock \in Nat
    BY DEF LimiterIInv, LimiterTypeOK, Bucket
  <2>2. Paid(buckets[k], granted[k], clock) /\ Windows(granted[k])
    BY <1>2 DEF LimiterIInv
  <2> QED BY <2>1, <2>2, PaidLater
<1> QED BY <1>1, <1>2 DEF LimiterIInv, Tick

LEMMA HoldingFacts ==
  ASSUME LimiterIInv, NEW k \in Clients
  PROVE  /\ Enabled => Holding(k) \in Nat /\ Holding(k) <= Burst
         /\ Enabled /\ buckets[k].known =>
               Holding(k) <= buckets[k].tokens + (clock - buckets[k].last)
         /\ ~buckets[k].known => Holding(k) = Burst
<1>1. buckets[k] \in Bucket /\ clock \in Nat /\ granted[k] \in Seq(Nat)
  BY DEF LimiterIInv, LimiterTypeOK, Bucket
<1>2. Enabled /\ buckets[k].known => buckets[k].last <= clock
  BY DEF LimiterIInv, Paid
<1> QED BY <1>1, <1>2, LimiterAssumption DEF Holding, Refill, Least, Bucket

LEMMA TryAcquireInv ==
  ASSUME LimiterIInv, NEW k \in Clients, TryAcquire(k) PROVE LimiterIInv'
<1> DEFINE b == buckets[k]
           g == granted[k]
           h == Holding(k)
           new == [tokens |-> IF Grants(k) THEN h - Cost ELSE h, last |-> clock, known |-> TRUE]
           list == IF Grants(k) THEN Append(g, clock) ELSE g
<1>1. /\ b \in Bucket /\ clock \in Nat /\ g \in Seq(Nat) /\ Cost \in Nat /\ Burst \in Nat
      /\ Burst >= Cost /\ Enabled \in BOOLEAN
      /\ buckets \in [Clients -> Bucket] /\ granted \in [Clients -> Seq(Nat)]
  BY LimiterAssumption DEF LimiterIInv, LimiterTypeOK, Bucket
<1>2. /\ Enabled => h \in Nat /\ h <= Burst
      /\ Enabled /\ b.known => h <= b.tokens + (clock - b.last)
      /\ ~b.known => h = Burst
  BY HoldingFacts
<1>3. granted' = [granted EXCEPT ![k] = list] /\ clock' = clock
  BY <1>1 DEF TryAcquire
<1>4. list \in Seq(Nat)
  BY <1>1
<1>5. granted' \in [Clients -> Seq(Nat)]
  BY <1>1, <1>3, <1>4
<1>6. CASE ~Enabled
  <2>1. buckets' = buckets
    BY <1>6 DEF TryAcquire
  <2> QED BY <1>1, <1>3, <1>5, <1>6, <2>1 DEF LimiterIInv, LimiterTypeOK, Bucket
<1>7. CASE Enabled
  <2>1. buckets' = [buckets EXCEPT ![k] = new]
    BY <1>7 DEF TryAcquire
  <2>2. Grants(k) <=> h >= Cost
    BY <1>7 DEF Grants
  <2>3. new \in Bucket
    BY <1>1, <1>2, <1>7, <2>2 DEF Bucket
  <2>4. Paid(b, g, clock) /\ Windows(g)
    BY <1>7 DEF LimiterIInv
  <2>5. Paid(new, list, clock) /\ Windows(list)
    <3>1. CASE Grants(k)
      <4>1. new = [tokens |-> h - Cost, last |-> clock, known |-> TRUE] /\ list = Append(g, clock)
        BY <3>1
      <4>2. Paid(new, list, clock)
        <5> HIDE DEF b, g, h, new, list
        <5> QED BY <4>1, <1>1, <1>2, <1>7, <2>2, <2>4, <3>1, PaidGrant
      <4>3. h - Cost \in Nat
        BY <1>1, <1>2, <1>7, <2>2, <3>1
      <4> HIDE DEF b, g, h, new, list
      <4> QED BY <4>1, <4>2, <4>3, <1>1, <2>4, WindowsGrant
    <3>2. CASE ~Grants(k)
      <4>1. new = [tokens |-> h, last |-> clock, known |-> TRUE] /\ list = g
        BY <3>2
      <4>2. b.known
        BY <1>1, <1>2, <2>2, <3>2 DEF Bucket
      <4> HIDE DEF b, g, h, new, list
      <4> QED BY <4>1, <4>2, <1>1, <1>2, <1>7, <2>4, PaidRefuse
    <3> QED BY <3>1, <3>2
  <2>6. buckets' \in [Clients -> Bucket]
    BY <1>1, <2>1, <2>3
  <2>7. ASSUME NEW c \in Clients
        PROVE  Paid(buckets'[c], granted'[c], clock') /\ Windows(granted'[c])
    <3>1. CASE c = k
      <4>1. buckets'[c] = new /\ granted'[c] = list
        BY <1>1, <1>3, <2>1, <3>1
      <4> QED BY <4>1, <2>5, <1>3
    <3>2. CASE c # k
      <4>1. buckets'[c] = buckets[c] /\ granted'[c] = granted[c]
        BY <1>1, <1>3, <2>1, <3>2
      <4> QED BY <4>1, <1>3, <1>7 DEF LimiterIInv
    <3> QED BY <3>1, <3>2
  <2>8. LimiterTypeOK'
    BY <1>1, <1>3, <1>5, <2>6 DEF LimiterTypeOK, Bucket
  <2> QED BY <2>7, <2>8 DEF LimiterIInv
<1> QED BY <1>1, <1>6, <1>7

LEMMA ResetInv ==
  ASSUME LimiterIInv, NEW k \in Clients, Reset(k) PROVE LimiterIInv'
<1>1. buckets \in [Clients -> Bucket] /\ granted \in [Clients -> Seq(Nat)] /\ clock \in Nat
  BY DEF LimiterIInv, LimiterTypeOK, Bucket
<1>2. /\ buckets' = [buckets EXCEPT ![k] = NoBucket]
      /\ granted' = [granted EXCEPT ![k] = <<>>] /\ clock' = clock
  BY DEF Reset
<1>3. LimiterTypeOK'
  BY <1>1, <1>2 DEF LimiterTypeOK, Bucket, NoBucket
<1>4. ASSUME Enabled, NEW c \in Clients
      PROVE  Paid(buckets'[c], granted'[c], clock') /\ Windows(granted'[c])
  <2>1. CASE c = k
    <3>1. buckets'[c] = NoBucket /\ granted'[c] = <<>>
      BY <1>1, <1>2, <2>1
    <3> QED BY <3>1 DEF Paid, Windows, NoBucket
  <2>2. CASE c # k
    <3>1. buckets'[c] = buckets[c] /\ granted'[c] = granted[c]
      BY <1>1, <1>2, <2>2
    <3> QED BY <3>1, <1>2, <1>4 DEF LimiterIInv
  <2> QED BY <2>1, <2>2
<1> QED BY <1>3, <1>4 DEF LimiterIInv

LEMMA EvictStaleInv ==
  ASSUME LimiterIInv, NEW age \in Nat, age >= Burst, EvictStale(age) PROVE LimiterIInv'
<1>1. buckets \in [Clients -> Bucket] /\ granted \in [Clients -> Seq(Nat)] /\ clock \in Nat
  BY DEF LimiterIInv, LimiterTypeOK, Bucket
<1>2. clock' = clock /\ granted' = granted
  BY DEF EvictStale
<1>3. ASSUME NEW c \in Clients
      PROVE  \/ buckets'[c] = buckets[c]
             \/ buckets'[c] = NoBucket /\ buckets[c].known /\ buckets[c].last + age < clock
  BY DEF EvictStale
<1>4. LimiterTypeOK'
  <2>1. buckets' \in [Clients -> Bucket]
    BY <1>1 DEF EvictStale, NoBucket, Bucket
  <2> QED BY <2>1, <1>1, <1>2 DEF LimiterTypeOK, Bucket
<1>5. ASSUME Enabled, NEW c \in Clients
      PROVE  Paid(buckets'[c], granted'[c], clock') /\ Windows(granted'[c])
  <2>1. Paid(buckets[c], granted[c], clock) /\ Windows(granted[c])
    BY <1>5 DEF LimiterIInv
  <2>2. buckets[c] \in Bucket /\ granted[c] \in Seq(Nat)
    BY <1>1
  <2> QED BY <1>1, <1>2, <1>3, <2>1, <2>2, PaidForget
<1> QED BY <1>4, <1>5 DEF LimiterIInv

LEMMA LimiterStep == LimiterIInv /\ [LimiterNext]_limiterVars => LimiterIInv'
<1> SUFFICES ASSUME LimiterIInv, [LimiterNext]_limiterVars PROVE LimiterIInv'
  OBVIOUS
<1>1. CASE Tick
  BY <1>1, TickInv
<1>2. ASSUME NEW k \in Clients, TryAcquire(k) PROVE LimiterIInv'
  BY <1>2, TryAcquireInv
<1>3. ASSUME NEW k \in Clients, Reset(k) PROVE LimiterIInv'
  BY <1>3, ResetInv
<1>4. ASSUME NEW age \in Nat, age >= Burst, EvictStale(age) PROVE LimiterIInv'
  BY <1>4, EvictStaleInv
<1>5. CASE UNCHANGED limiterVars
  BY <1>5 DEF LimiterIInv, LimiterTypeOK, limiterVars
<1> QED BY <1>1, <1>2, <1>3, <1>4, <1>5 DEF LimiterNext

LEMMA LimiterInvBound == LimiterIInv => WindowBound
  BY DEF LimiterIInv, WindowBound, Windows

\* A client is never let in faster than its bucket allows, over any stretch of
\* time: RateLimiter's promise, whatever its rate, its burst and its clients.
THEOREM LimiterBounded == LimiterSpec => [](LimiterTypeOK /\ WindowBound)
<1>1. LimiterInit => LimiterIInv
  BY LimiterInitInv
<1>2. LimiterIInv /\ [LimiterNext]_limiterVars => LimiterIInv'
  BY LimiterStep
<1>3. LimiterIInv => LimiterTypeOK /\ WindowBound
  BY LimiterInvBound DEF LimiterIInv
<1> QED BY <1>1, <1>2, <1>3, PTL DEF LimiterSpec
=============================================================================
