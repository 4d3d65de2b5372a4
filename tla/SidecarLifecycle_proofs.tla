----------------------- MODULE SidecarLifecycle_proofs -----------------------
(***************************************************************************)
(* Proofs about SidecarLifecycle: its types and its four safety            *)
(* properties, for any directories, libraries, sessions and faults.        *)
(*                                                                         *)
(* The invariant says who is named by whom (Named, SameRuntime), what the  *)
(* receive threads, the starting threads and the waiting threads hold      *)
(* (Receivers, Starts, Spawns, Processes), what backs an offered tool      *)
(* (Backed) and, while no session was dropped, that addresses are right or *)
(* lost (Placed), who owns a remote tool (Owned) and where one without an  *)
(* owner comes from (Stale), what the restart counts are (Counts), and     *)
(* that a directory is claimed once (Claims).                              *)
(***************************************************************************)
EXTENDS SidecarLifecycle, ToolRegistry_proofs, FiniteSetTheorems

Starting == {"spawn", "listen", "accept", "wire"}
Restarting == {"backoff", "stop", "close", "sweep"}
Freed == {"stop", "close", "sweep"}

Sessions == ToSet(vec)

\* Whoever is named has been made, and the others are as they were.
Named ==
    /\ Len(vec) <= made
    /\ \A n \in Sessions : n <= made
    /\ \A n \in Ids : peer[n] <= made /\ conn[n] <= made
    /\ \A rt \in Runtimes : bound[rt] <= made
    /\ \A t \in Threads : thread[t].ses <= made
    /\ \A n \in Ids : n > made =>
          /\ ptr[n].idx = 0 /\ recv[n] = "off" /\ child[n] # "up" /\ n \notin waiting
          /\ conn[n] = Lost /\ peer[n] = Lost /\ thread[n].stage = "off"

\* A path leads to sessions of its runtime only.
SameRuntime ==
    /\ \A rt \in Runtimes : bound[rt] # Lost => sess[bound[rt]].runtime = rt
    /\ \A c \in Ids : conn[c] # Lost => sess[conn[c]].runtime = sess[c].runtime
    /\ \A n \in Ids : peer[n] # Lost => sess[peer[n]].runtime = sess[n].runtime

\* A receive thread has a session and a connection, and in the middle of an
\* announcement a client, and a plugin to record.
Receivers ==
    \A n \in Ids : recv[n] # "off" =>
        /\ n \in Sessions /\ peer[n] # Lost
        /\ recv[n] = "half" => sess[n].client /\ sess[peer[n]].dir # NoDir

\* The session a thread starts is its own, not received from yet, and without
\* a connection before one is accepted.
Starts ==
    /\ \A t \in Threads : thread[t].stage \in Starting =>
          /\ thread[t].ses # Lost /\ recv[thread[t].ses] = "off"
          /\ thread[t].stage = "wire" <=> peer[thread[t].ses] # Lost
    /\ \A t, u \in Threads :
          thread[t].stage \in Starting /\ thread[u].stage \in Starting /\ t # u
              => thread[t].ses # thread[u].ses

\* A session whose process was not spawned yet.
Unspawned(n) == child[n] # "up" /\ n \notin waiting /\ thread[n].stage = "off"

\* It is the one that a thread about to spawn has made, for its directory.
Spawns ==
    \A t \in Threads : thread[t].stage = "spawn" =>
        Unspawned(thread[t].ses) /\ sess[thread[t].ses].dir = thread[t].dir

\* A process belongs to a session that can stop it, and some thread waits for
\* it; a process that is waited for is not being restarted.
Processes ==
    /\ \A n \in Ids : child[n] = "up" =>
          n \in Sessions /\ sess[n].launcher = "pid" /\ n \in waiting
    /\ \A n \in waiting : thread[n].stage = "off"
    /\ thread[Main].stage \notin Restarting

\* What is on offer has a record, and a native tool an open library.
RecordedLib(l) == \E p \in ToSet(loaded) : p.plugin = l /\ p.runtime = Native
Recorded(q) == \E p \in ToSet(loaded) : p.plugin = q
HalfAnnounced(q) == \E n \in Ids : recv[n] = "half" /\ sess[peer[n]].dir = q

Backed ==
    /\ \A e \in ToSet(entries) : e.name[1] \in handles
    /\ \A l \in handles : RecordedLib(l)
    /\ \A e \in ToSet(remote) : Recorded(e.name[1]) \/ HalfAnnounced(e.name[1])

\* While nothing was dropped, addresses are right or lost.
Placed ==
    /\ \A i \in DOMAIN vec : vec[i] = i
    /\ \A n \in Ids : n <= made => ptr[n].idx = n
    /\ \A n \in Ids : ptr[n].buf <= buf

\* A remote tool has the client of a session, or is about to be taken away,
\* and is recorded for that session's runtime.
RecordedFor(e) ==
    \E p \in ToSet(loaded) :
        p.plugin = e.name[1] /\ ~p.provider /\ p.runtime = sess[e.via].runtime
HalfFor(e) == recv[e.via] = "half" /\ sess[peer[e.via]].dir = e.name[1]

Owned ==
    \A e \in ToSet(remote) : e.via # Lost =>
        /\ e.via <= made
        /\ sess[e.via].client \/ thread[e.via].stage \in Freed
        /\ RecordedFor(e) \/ HalfFor(e)

\* A tool without a client was announced through a stale address.
Stale == \A e \in ToSet(remote) : e.via = Lost => MovedFrom(e.name[1])

Counts ==
    /\ \A n \in Ids : sess[n].count <= 1
    /\ \A n \in waiting : sess[n].count = 0
    /\ \A t \in Threads : thread[t].stage = "spawn" => sess[thread[t].ses].count = 0

\* A session whose process runs, or is going to be started again.
Live(n) ==
    \/ child[n] = "up"
    \/ n \in waiting /\ child[n] = "crashed"
    \/ thread[n].stage \in Restarting

Making(t, d) == thread[t].stage \in {"make", "spawn"} /\ thread[t].dir = d
Awaits(d) == \E i \in DOMAIN todo.dirs : todo.dirs[i] = d

\* One session, one thread or one entry of the list claims a directory.
Claims ==
    /\ \A m, n \in Ids :
          Live(m) /\ Live(n) /\ sess[m].dir = sess[n].dir /\ sess[n].dir # NoDir => m = n
    /\ \A t \in Threads, n \in Ids : Live(n) /\ sess[n].dir # NoDir => ~Making(t, sess[n].dir)
    /\ \A t, u \in Threads : \A d \in SidecarDirs : Making(t, d) /\ Making(u, d) => t = u
    /\ \A d \in SidecarDirs : Awaits(d) =>
          /\ \A n \in Ids : Live(n) => sess[n].dir # d
          /\ \A t \in Threads : ~Making(t, d)
    /\ \A i, j \in DOMAIN todo.dirs : todo.dirs[i] = todo.dirs[j] => i = j

Core == Named /\ SameRuntime /\ Receivers /\ Starts /\ Spawns /\ Processes /\ Backed
Orderly == Placed /\ Owned /\ Stale /\ Counts /\ Claims

IInv ==
    /\ TypeOK
    /\ Running => Core
    /\ Running /\ NoneDropped => Orderly
    /\ ShutdownLeavesNone

\* What holds while no start has failed.
Order == NoneDropped => Orderly

Ready == TypeOK /\ Running /\ Core /\ Order
-----------------------------------------------------------------------------
(* Lists and sessions *)

LEMMA ToSetFacts ==
  ASSUME NEW T, NEW s \in Seq(T)
  PROVE  /\ ToSet(s) = Elements(s) /\ ToSet(s) \subseteq T
         /\ \A i \in 1 .. Len(s) : s[i] \in ToSet(s)
         /\ DOMAIN s = 1 .. Len(s) /\ Len(s) \in Nat
  BY ElementOfSeq DEF ToSet, Elements

LEMMA ToSetAppend ==
  ASSUME NEW T, NEW s \in Seq(T), NEW e \in T
  PROVE  Append(s, e) \in Seq(T) /\ ToSet(Append(s, e)) = ToSet(s) \cup {e}
  BY ElementsAppend DEF ToSet, Elements

LEMMA ToSetConcatOne ==
  ASSUME NEW T, NEW s \in Seq(T), NEW e \in T
  PROVE  s \o <<e>> \in Seq(T) /\ ToSet(s \o <<e>>) = ToSet(s) \cup {e}
<1>1. s \o <<e>> = Append(s, e)
  BY AppendIsConcat
<1>2. Append(s, e) \in Seq(T) /\ ToSet(Append(s, e)) = ToSet(s) \cup {e}
  BY ToSetAppend
<1> QED BY <1>1, <1>2, Zenon

LEMMA KeptSet ==
  ASSUME NEW T, NEW seq \in Seq(T), NEW S
  PROVE  Kept(seq, S) \in Seq(T) /\ ToSet(Kept(seq, S)) = {x \in ToSet(seq) : x \in S}
  BY KeptFacts DEF ToSet, Elements

\* The last element goes, and no other.
LEMMA FrontFacts ==
  ASSUME NEW T, NEW s \in Seq(T), s # <<>>
  PROVE  /\ Front(s) \in Seq(T) /\ Len(Front(s)) = Len(s) - 1
         /\ Last(s) \in ToSet(s) /\ Last(s) \in T
         /\ ToSet(Front(s)) \subseteq ToSet(s)
         /\ \A x \in ToSet(s) : x = Last(s) \/ x \in ToSet(Front(s))
<1> DEFINE f == Front(s)
<1>1. Len(s) \in Nat /\ Len(s) # 0 /\ DOMAIN s = 1 .. Len(s)
  BY EmptySeq
<1>2. f \in Seq(T) /\ Len(f) = Len(s) - 1 /\ \A i \in 1 .. Len(s) - 1 : f[i] = s[i]
  BY <1>1, SubSeqProperties DEF Front
<1>3. DOMAIN f = 1 .. Len(s) - 1
  BY <1>1, <1>2
<1> HIDE DEF f
<1>4. Last(s) = s[Len(s)] /\ Len(s) \in 1 .. Len(s)
  BY <1>1 DEF Last
<1>5. Last(s) \in T
  BY <1>4, ElementOfSeq
<1>6. Last(s) \in ToSet(s)
  BY <1>1, <1>4 DEF ToSet
<1>7. ToSet(f) \subseteq ToSet(s)
  <2>1. \A i \in DOMAIN f : i \in DOMAIN s /\ f[i] = s[i]
    BY <1>1, <1>2, <1>3
  <2> QED BY <2>1 DEF ToSet
<1>8. ASSUME NEW x \in ToSet(s) PROVE x = Last(s) \/ x \in ToSet(f)
  <2>1. PICK i \in DOMAIN s : x = s[i]
    BY DEF ToSet
  <2>2. i = Len(s) \/ i \in 1 .. Len(s) - 1
    <3>1. \A k \in Nat : \A j \in 1 .. k : j = k \/ j \in 1 .. k - 1
      OBVIOUS
    <3> QED BY <1>1, <3>1
  <2>3. CASE i = Len(s)
    BY <2>1, <2>3, <1>4
  <2>4. CASE i \in 1 .. Len(s) - 1
    <3>1. i \in DOMAIN f /\ f[i] = x
      BY <2>1, <2>4, <1>2, <1>3
    <3> QED BY <3>1 DEF ToSet
  <2> QED BY <2>2, <2>3, <2>4
<1> QED BY <1>2, <1>5, <1>6, <1>7, <1>8 DEF f

LEMMA DerefType ==
  ASSUME vec \in Seq(Ids), NEW n
  PROVE  /\ Deref(n) = Lost \/ (Deref(n) \in Sessions /\ Deref(n) \in Ids)
         /\ Deref(n) # Lost => vec # <<>>
<1>1. DOMAIN vec = 1 .. Len(vec)
  OBVIOUS
<1>2. ASSUME ptr[n].idx \in DOMAIN vec PROVE vec[ptr[n].idx] \in Sessions /\ vec[ptr[n].idx] \in Ids
  BY <1>1, <1>2, ToSetFacts DEF Sessions
<1>3. vec = <<>> => DOMAIN vec = {}
  OBVIOUS
<1>4. CASE ptr[n].buf = buf /\ ptr[n].idx \in DOMAIN vec
  <2>1. Deref(n) = vec[ptr[n].idx]
    BY <1>4 DEF Deref
  <2> QED BY <2>1, <1>2, <1>3, <1>4
<1>5. CASE ~(ptr[n].buf = buf /\ ptr[n].idx \in DOMAIN vec)
  <2>1. Deref(n) = Lost
    BY <1>5 DEF Deref
  <2> QED BY <2>1
<1> QED BY <1>4, <1>5

\* While nothing was dropped, an address is right or lost.
LEMMA DerefPlaced ==
  ASSUME TypeOK, Named, NoneDropped, Placed, NEW n \in Ids
  PROVE  Deref(n) = n \/ Deref(n) = Lost
<1>1. vec \in Seq(Ids) /\ ptr \in [Ids -> [buf : Nat, idx : Nat]] /\ made \in Nat
  BY DEF TypeOK, Ids
<1>2. DOMAIN vec = 1 .. made
  BY <1>1 DEF NoneDropped
<1>3. CASE n <= made
  BY <1>2, <1>3 DEF Placed, Deref
<1>4. CASE ~(n <= made)
  <2>1. n > made
    BY <1>1, <1>4 DEF Ids
  <2>2. ptr[n].idx \notin DOMAIN vec
    BY <2>1, <1>2, <1>1 DEF Named
  <2> QED BY <2>2 DEF Deref
<1> QED BY <1>3, <1>4

LEMMA SessionFields ==
  ASSUME NEW s \in Session
  PROVE  /\ s.dir \in DirNames /\ s.runtime \in Runtimes /\ s.client \in BOOLEAN
         /\ s.launcher \in {"none", "idle", "pid"} /\ s.count \in Nat /\ s.health \in BOOLEAN
         /\ s.link \in {"none", "made", "listening", "connected"} /\ s.down \in BOOLEAN
  BY DEF Session

LEMMA EmptyType ==
  ASSUME NEW d \in DirNames, NEW rt \in Runtimes
  PROVE  /\ Empty(d, rt) \in Session
         /\ Empty(d, rt).dir = d /\ Empty(d, rt).runtime = rt /\ Empty(d, rt).client = FALSE
         /\ Empty(d, rt).launcher = "none" /\ Empty(d, rt).count = 0
  BY DEF Empty, Session

LEMMA FreshType ==
  ASSUME NEW d \in DirNames, NEW rt \in Runtimes
  PROVE  /\ Fresh(d, rt) \in Session
         /\ Fresh(d, rt).dir = d /\ Fresh(d, rt).runtime = rt /\ Fresh(d, rt).client = TRUE
         /\ Fresh(d, rt).launcher = "idle" /\ Fresh(d, rt).count = 0
  BY DEF Fresh, Empty, Session

\* SidecarLauncher::stop leaves none of its processes running.
LEMMA StoppedFacts ==
  ASSUME NEW S, S \subseteq Ids, child \in [Ids -> {"up", "crashed", "clean"}], Stopped(S)
  PROVE  /\ child' \in [Ids -> {"up", "crashed", "clean"}]
         /\ \A n \in Ids : n \notin S => child'[n] = child[n]
         /\ \A n \in S : child'[n] # "up" /\ (child'[n] = "crashed" => child[n] # "clean")
<1>1. PICK f \in [S -> {"crashed", "clean"}] :
          (\A n \in S : child[n] = "clean" => f[n] = "clean") /\ child' = [n \in Ids |-> IF n \in S THEN f[n] ELSE child[n]]
  BY DEF Stopped
<1> QED BY <1>1
-----------------------------------------------------------------------------
(* Threads *)

Thread == [stage : Stages, ses : {Lost} \cup Ids, dir : DirNames, runtime : Runtimes]

LEMMA IdleType ==
  Idle \in Thread /\ Idle.stage = "off" /\ Idle.ses = Lost /\ Idle.dir = NoDir
  BY DEF Idle, Thread, Stages, DirNames, Runtimes

LEMMA FinishFacts ==
  ASSUME thread \in [Threads -> Thread], NEW t \in Threads, Finish(t)
  PROVE  /\ thread' \in [Threads -> Thread]
         /\ thread'[t].stage = "off" /\ thread'[t].ses = Lost
         /\ \A u \in Threads : u # t => thread'[u] = thread[u]
  BY IdleType DEF Finish

LEMMA GotoFacts ==
  ASSUME thread \in [Threads -> Thread], NEW t \in Threads, NEW s \in Stages, Goto(t, s)
  PROVE  /\ thread' \in [Threads -> Thread]
         /\ thread'[t].stage = s /\ thread'[t].ses = thread[t].ses
         /\ \A u \in Threads : u # t => thread'[u] = thread[u]
  BY DEF Goto, Thread

\* What the types give of threads and sessions.
LEMMA Typed ==
  ASSUME TypeOK
  PROVE  /\ thread \in [Threads -> Thread] /\ vec \in Seq(Ids) /\ made \in Nat /\ made <= MaxSessions
         /\ MaxSessions \in Nat /\ Ids \subseteq Nat /\ Lost \notin Ids
         /\ \A t \in Threads : thread[t].dir \in DirNames /\ thread[t].runtime \in Runtimes
                               /\ (thread[t].ses = Lost \/ thread[t].ses \in Ids)
         /\ Ids \subseteq Threads /\ Main \in Threads /\ Main \notin Ids
<1>1. MaxSessions \in Nat
  BY LifecycleAssumption
<1>2. Ids \subseteq Nat /\ Lost \notin Ids /\ Ids \subseteq Threads /\ Main \in Threads /\ Main \notin Ids
  BY <1>1 DEF Ids, Lost, Threads, Main
<1>3. made \in Nat /\ made <= MaxSessions
  BY <1>1 DEF TypeOK, Ids
<1>4. thread \in [Threads -> Thread] /\ vec \in Seq(Ids)
  BY DEF TypeOK, Thread
<1>5. ASSUME NEW t \in Threads
      PROVE  /\ thread[t].dir \in DirNames /\ thread[t].runtime \in Runtimes
             /\ thread[t].ses = Lost \/ thread[t].ses \in Ids
  BY <1>4 DEF Thread
<1> QED BY <1>1, <1>2, <1>3, <1>4, <1>5

LEMMA Typed2 ==
  ASSUME TypeOK
  PROVE  /\ sess \in [Ids -> Session] /\ child \in [Ids -> {"up", "crashed", "clean"}]
         /\ conn \in [Ids -> {Lost} \cup Ids] /\ peer \in [Ids -> {Lost} \cup Ids]
         /\ recv \in [Ids -> {"off", "idle", "half", "done"}]
         /\ bound \in [Runtimes -> {Lost} \cup Ids]
         /\ ptr \in [Ids -> [buf : Nat, idx : Nat]] /\ waiting \subseteq Ids
  BY DEF TypeOK

LEMMA MadeInIds ==
  ASSUME TypeOK, made < MaxSessions
  PROVE  made + 1 \in Ids
  BY Typed DEF Ids
-----------------------------------------------------------------------------
(* start_sidecar *)

LEMMA GrowType ==
  ASSUME buf \in Nat, cap \in Nat, Grow PROVE buf' \in Nat /\ cap' \in Nat
  BY DEF Grow

LEMMA MakeStep ==
  ASSUME Ready, NEW t \in Threads, Make(t)
  PROVE  TypeOK' /\ Core' /\ Order'
<1> DEFINE m == made + 1
           th == thread[t]
<1>1. m \in Ids /\ made' = m /\ made \in Nat /\ Len(vec) \in Nat /\ vec \in Seq(Ids)
  BY MadeInIds, Typed DEF Make, Ready
<1>2. th.dir \in DirNames /\ th.runtime \in Runtimes /\ th.stage = "make"
  BY Typed DEF Ready, Make, At
<1>3. vec' = Append(vec, m) /\ vec' \in Seq(Ids) /\ ToSet(vec') = Sessions \cup {m} /\ Len(vec') = Len(vec) + 1
  BY <1>1, ToSetAppend DEF Make, Sessions
<1>4. /\ sess' \in [Ids -> Session]
      /\ sess'[m].dir = th.dir /\ sess'[m].runtime = th.runtime /\ sess'[m].client
      /\ sess'[m].count = 0
      /\ \A n \in Ids : n # m => sess'[n] = sess[n]
  <2>1. sess' = [sess EXCEPT ![m] = Fresh(th.dir, th.runtime)] /\ sess \in [Ids -> Session]
    BY <1>1 DEF Make, Ready, TypeOK
  <2>2. th.dir \in DirNames /\ th.runtime \in Runtimes
    BY <1>2
  <2> HIDE DEF th, m
  <2> DEFINE f == Fresh(th.dir, th.runtime)
  <2>3. f \in Session /\ f.dir = th.dir /\ f.runtime = th.runtime
    BY <2>2, FreshType
  <2>4. f.client = TRUE
    BY <2>2, FreshType
  <2>6. f.count = 0
    BY <2>2, FreshType
  <2>7. sess' = [sess EXCEPT ![m] = f]
    BY <2>1
  <2> HIDE DEF f
  <2>8. /\ sess' \in [Ids -> Session] /\ sess'[m] = f /\ \A n \in Ids : n # m => sess'[n] = sess[n]
    BY <2>1, <2>3, <2>7, <1>1
  <2> QED BY <2>3, <2>4, <2>6, <2>8, Zenon
<1>5. UNCHANGED <<child, waiting>>
  BY DEF Make
<1>6. /\ ptr' \in [Ids -> [buf : Nat, idx : Nat]] /\ \A n \in Ids : n # m => ptr'[n] = ptr[n]
      /\ buf' \in Nat /\ cap' \in Nat
  <2>1. buf' \in Nat /\ cap' \in Nat
    BY GrowType DEF Ready, TypeOK, Make
  <2> QED BY <2>1, <1>1, <1>3 DEF Ready, TypeOK, Make
<1>7. /\ thread' \in [Threads -> Thread] /\ thread'[t].stage = "spawn" /\ thread'[t].ses = m
      /\ thread'[t].dir = th.dir
      /\ \A u \in Threads : u # t => thread'[u] = thread[u]
  <2>1. thread' = [thread EXCEPT ![t] = [th EXCEPT !.stage = "spawn", !.ses = m]]
    BY <1>1 DEF Make
  <2>2. th \in Thread /\ [th EXCEPT !.stage = "spawn", !.ses = m] \in Thread
    <3>1. th \in Thread
      BY Typed DEF Ready
    <3>2. "spawn" \in Stages
      BY DEF Stages
    <3> HIDE DEF th, m
    <3> QED BY <1>1, <3>1, <3>2 DEF Thread
  <2>3. [th EXCEPT !.stage = "spawn", !.ses = m].stage = "spawn" /\ [th EXCEPT !.stage = "spawn", !.ses = m].ses = m
    BY <2>2 DEF Thread
  <2>4. [th EXCEPT !.stage = "spawn", !.ses = m].dir = th.dir
    BY <2>2 DEF Thread
  <2> QED BY <2>1, <2>2, <2>3, <2>4, Typed DEF Ready
<1>8. /\ bound' \in [Runtimes -> {Lost} \cup Ids]
      /\ \A rt \in Runtimes : bound'[rt] = Lost \/ bound'[rt] = bound[rt]
  BY <1>2 DEF Make, Unlinked, Ready, TypeOK
<1>9. UNCHANGED <<registryVars, proc, pluginVars, peerVars, recv, shut, faults>>
  BY DEF Make
<1>10. t # m
  <2>1. made < m
    BY <1>1
  <2> QED BY <2>1, <1>1, <1>2 DEF Ready, Core, Named
<1>11. \A x \in {Lost} \cup Ids : x <= made => x # m /\ x <= m
  BY <1>1 DEF Ids, Lost
<1> HIDE DEF m, th
<1>12. TypeOK'
  BY <1>1, <1>3, <1>4, <1>5, <1>6, <1>7, <1>8, <1>9
     DEF Ready, TypeOK, Thread, RegistryTypeOK, registryVars, pluginVars, peerVars
<1>a. sess \in [Ids -> Session] /\ conn \in [Ids -> {Lost} \cup Ids] /\ peer \in [Ids -> {Lost} \cup Ids]
      /\ conn' = conn /\ peer' = peer /\ recv' = recv
  BY <1>9, Typed2 DEF Ready, peerVars
<1>b. Named /\ SameRuntime /\ Receivers /\ Starts /\ Spawns /\ Processes /\ Backed
  BY DEF Ready, Core
<1>c. \A n \in Ids : n > m => n > made /\ n # m
  BY <1>1 DEF Ids, m
<1>d. \A n \in Ids : peer[n] # m /\ conn[n] # m
  BY <1>a, <1>b, <1>11 DEF Named
<1>e. m > made /\ recv[m] = "off" /\ conn[m] = Lost /\ peer[m] = Lost
      /\ child[m] # "up" /\ m \notin waiting /\ thread[m].stage = "off"
  <2>1. m > made
    BY <1>1 DEF m
  <2> QED BY <1>1, <1>b, <2>1 DEF Named
<1>13. Named'
  <2>1. Len(vec)' <= made' /\ \A n \in Sessions' : n <= made'
    <3>1. \A n \in Sessions : n <= made /\ n \in Ids
      BY <1>b, <1>1, ToSetFacts DEF Named, Sessions
    <3>2. m <= m
      BY <1>1 DEF Ids
    <3>3. Len(vec)' <= made'
      BY <1>1, <1>3, <1>b DEF Named, m
    <3> QED BY <1>1, <1>3, <3>1, <3>2, <3>3, <1>11 DEF Sessions
  <2>2. \A n \in Ids : peer'[n] <= made' /\ conn'[n] <= made'
    BY <1>1, <1>a, <1>b, <1>11 DEF Named
  <2>3. \A rt \in Runtimes : bound'[rt] <= made'
    <3>1. Lost <= m
      BY <1>1 DEF Lost, Ids
    <3>2. bound \in [Runtimes -> {Lost} \cup Ids]
      BY Typed2 DEF Ready
    <3> QED BY <1>1, <1>8, <1>b, <1>11, <3>1, <3>2 DEF Named
  <2>4. \A u \in Threads : thread'[u].ses <= made'
    <3>1. m <= m
      BY <1>1 DEF Ids
    <3>2. \A u \in Threads : thread[u].ses \in {Lost} \cup Ids
      BY Typed DEF Ready
    <3> QED BY <1>1, <1>7, <1>b, <1>11, <3>1, <3>2 DEF Named
  <2>5. \A n \in Ids : n > m => n # t
    <3>1. \A n \in Ids : n > made => thread[n].stage # th.stage
      BY <1>b, <1>2 DEF Named
    <3> QED BY <1>c, <3>1 DEF th
  <2>6. ASSUME NEW n \in Ids, n > m
        PROVE  /\ ptr'[n].idx = 0 /\ recv'[n] = "off" /\ child'[n] # "up" /\ n \notin waiting'
               /\ conn'[n] = Lost /\ peer'[n] = Lost /\ thread'[n].stage = "off"
    <3>1. n > made /\ n # m /\ n # t /\ n \in Threads
      BY <1>c, <2>5, <2>6, Typed DEF Ready
    <3>2. /\ ptr[n].idx = 0 /\ recv[n] = "off" /\ child[n] # "up" /\ n \notin waiting
          /\ conn[n] = Lost /\ peer[n] = Lost /\ thread[n].stage = "off"
      BY <3>1, <1>b DEF Named
    <3>3. ptr'[n].idx = 0 /\ recv'[n] = "off" /\ conn'[n] = Lost /\ peer'[n] = Lost
      BY <3>1, <3>2, <1>5, <1>6, <1>7, <1>a
    <3>4. child'[n] # "up" /\ n \notin waiting' /\ thread'[n].stage = "off"
      BY <3>1, <3>2, <1>5, <1>6, <1>7, <1>a
    <3> QED BY <3>3, <3>4
  <2> QED BY <1>1, <2>1, <2>2, <2>3, <2>4, <2>6 DEF Named
<1>14. SameRuntime'
  <2>1. \A rt \in Runtimes : bound[rt] # m /\ bound[rt] \in {Lost} \cup Ids
    BY <1>b, <1>11, Typed2 DEF Ready, Named
  <2>2. \A rt \in Runtimes : bound'[rt] # Lost => sess'[bound'[rt]].runtime = rt
    BY <2>1, <1>4, <1>8, <1>b DEF SameRuntime
  <2>3. \A c \in Ids : conn[c] # Lost => sess'[conn[c]].runtime = sess'[c].runtime
    BY <1>4, <1>a, <1>b, <1>d, <1>e DEF SameRuntime
  <2>4. \A n \in Ids : peer[n] # Lost => sess'[peer[n]].runtime = sess'[n].runtime
    BY <1>4, <1>a, <1>b, <1>d, <1>e DEF SameRuntime
  <2> QED BY <2>2, <2>3, <2>4, <1>a DEF SameRuntime
<1>15. Receivers'
  BY <1>3, <1>4, <1>a, <1>b, <1>d, <1>e DEF Receivers, Sessions
<1>f. \A u \in Threads : u # t /\ thread'[u].stage \in Starting =>
          /\ thread'[u] = thread[u] /\ thread[u].ses \in Ids /\ thread[u].ses # m
  <2>1. ASSUME NEW u \in Threads, u # t, thread'[u].stage \in Starting
        PROVE  thread'[u] = thread[u] /\ thread[u].ses \in Ids /\ thread[u].ses # m
    <3>1. thread'[u] = thread[u] /\ thread[u].ses # Lost
      BY <2>1, <1>7, <1>b DEF Starts
    <3>2. thread[u].ses <= made /\ thread[u].ses \in Ids
      BY <2>1, <3>1, <1>b, Typed DEF Named, Ready
    <3> QED BY <3>1, <3>2, <1>11
  <2> QED BY <2>1
<1>16. Starts'
  <2>1. ASSUME NEW u \in Threads, thread'[u].stage \in Starting
        PROVE  /\ thread'[u].ses # Lost /\ recv'[thread'[u].ses] = "off"
               /\ thread'[u].stage = "wire" <=> peer'[thread'[u].ses] # Lost
    <3>1. CASE u = t
      BY <3>1, <1>1, <1>7, <1>a, <1>e, Typed DEF Ready
    <3>2. CASE u # t
      BY <3>2, <2>1, <1>a, <1>b, <1>f DEF Starts
    <3> QED BY <3>1, <3>2
  <2>2. \A u, v \in Threads :
          thread'[u].stage \in Starting /\ thread'[v].stage \in Starting /\ u # v
              => thread'[u].ses # thread'[v].ses
    BY <1>7, <1>b, <1>f DEF Starts
  <2> QED BY <2>1, <2>2 DEF Starts
<1>g. \A u \in Threads : thread'[u].stage = "spawn" /\ u # t =>
          /\ thread'[u] = thread[u] /\ thread[u].stage = "spawn"
          /\ thread[u].ses \in Ids /\ sess'[thread[u].ses] = sess[thread[u].ses]
  BY <1>4, <1>7, <1>f DEF Starting
<1>s. Spawns'
  <2>1. SUFFICES ASSUME NEW u \in Threads, thread'[u].stage = "spawn"
                 PROVE  Unspawned(thread[u].ses)' /\ sess'[thread'[u].ses].dir = thread'[u].dir
    BY DEF Spawns
  <2>2. \A n \in Ids : Unspawned(n) => Unspawned(n)'
    <3>1. \A n \in Ids : thread[n].stage = "off" => thread'[n].stage = "off"
      BY <1>2, <1>7, Typed DEF Ready, th
    <3> QED BY <3>1, <1>5 DEF Unspawned
  <2>3. CASE u = t
    <3>1. child'[m] # "up" /\ m \notin waiting' /\ thread'[m].stage = "off"
      BY <1>1, <1>5, <1>7, <1>10, <1>e, Typed DEF Ready
    <3>2. \A k : k = thread'[u].ses => child'[k] # "up" /\ k \notin waiting' /\ thread'[k].stage = "off"
      BY <2>3, <3>1, <1>7
    <3>3. Unspawned(thread[u].ses)'
      BY <3>2 DEF Unspawned
    <3>4. sess'[thread'[u].ses].dir = thread'[u].dir
      BY <2>3, <1>4, <1>7
    <3> QED BY <3>3, <3>4
  <2>4. CASE u # t
    <3> DEFINE k == thread[u].ses
    <3>1. thread'[u] = thread[u] /\ thread[u].stage = "spawn" /\ k \in Ids /\ sess'[k] = sess[k]
      BY <2>1, <2>4, <1>g
    <3>2. Unspawned(k) /\ sess[k].dir = thread[u].dir
      BY <3>1, <1>b DEF Spawns
    <3>3. Unspawned(k)'
      BY <3>1, <3>2, <2>2
    <3> QED BY <3>1, <3>2, <3>3 DEF Unspawned
  <2> QED BY <2>3, <2>4
<1>17. Processes'
  <2>1. \A n \in Ids : child'[n] = "up" => n \in Sessions' /\ sess'[n].launcher = "pid" /\ n \in waiting'
    BY <1>3, <1>4, <1>5, <1>b, <1>e DEF Processes, Sessions
  <2>2. \A n \in waiting' : n \in Threads /\ n # t /\ thread[n].stage = "off"
    BY <1>2, <1>5, <1>b, Typed, Typed2 DEF Processes, Ready, th
  <2>3. thread'[Main].stage \notin Restarting
    BY <1>7, <1>b, Typed DEF Processes, Restarting, Ready
  <2> QED BY <2>1, <2>2, <2>3, <1>7 DEF Processes
<1>18. Backed'
  <2>1. \A q : HalfAnnounced(q) => HalfAnnounced(q)'
    BY <1>4, <1>a, <1>d, <1>b DEF HalfAnnounced, Receivers
  <2> QED BY <1>9, <1>b, <2>1 DEF Backed, RecordedLib, Recorded, registryVars, pluginVars
<1>19. ASSUME NoneDropped, Orderly PROVE Orderly'
  <2>1. Placed /\ Owned /\ Stale /\ Counts /\ Claims /\ Len(vec) = made
    BY <1>19 DEF Orderly, NoneDropped
  <2>2. Placed'
    <3>1. DOMAIN vec = 1 .. made /\ DOMAIN vec' = 1 .. m
      BY <1>1, <1>3, <2>1 DEF m
    <3>2. \A i \in 1 .. made : vec'[i] = vec[i]
      BY <1>1, <1>3, <2>1 DEF m
    <3>3. vec'[m] = m /\ Len(vec') = m
      BY <1>1, <1>3, <2>1 DEF m
    <3>4. \A i \in 1 .. m : i = m \/ i \in 1 .. made
      BY <1>1 DEF m
    <3>5. ptr'[m].idx = m
      BY <1>1, <3>3 DEF Make, Ready, TypeOK
    <3>6. \A n \in Ids : n <= m => n = m \/ n <= made
      BY <1>1 DEF m, Ids
    <3>7. buf \in Nat /\ buf <= buf'
      BY DEF Ready, TypeOK, Make, Grow
    <3>8. ptr'[m].buf = buf'
      BY <1>1 DEF Make, Ready, TypeOK
    <3>9. \A n \in Ids : ptr'[n].buf <= buf'
      <4>1. \A n \in Ids : ptr[n].buf \in Nat /\ ptr[n].buf <= buf
        BY <2>1, Typed2 DEF Placed, Ready
      <4> QED BY <4>1, <3>7, <3>8, <1>6
    <3> QED BY <1>1, <1>6, <2>1, <3>1, <3>2, <3>3, <3>4, <3>5, <3>6, <3>9 DEF Placed
  <2>3. Owned'
    <3>1. ASSUME NEW e \in ToSet(remote), e.via # Lost
          PROVE  /\ e.via <= made'
                 /\ sess'[e.via].client \/ thread'[e.via].stage \in Freed
                 /\ RecordedFor(e)' \/ HalfFor(e)'
      <4>1. /\ e.via <= made
            /\ sess[e.via].client \/ thread[e.via].stage \in Freed
            /\ RecordedFor(e) \/ HalfFor(e)
        BY <3>1, <2>1 DEF Owned
      <4>2. e.via \in Ids
        <5>1. ToSet(remote) \subseteq Entry
          BY ToSetFacts DEF Ready, TypeOK, RegistryTypeOK
        <5> QED BY <3>1, <5>1, LifecycleAssumption DEF Entry
      <4>3. e.via # m /\ e.via <= made'
        BY <4>1, <4>2, <1>1, <1>11
      <4>4. thread[e.via].stage \in Freed => thread'[e.via].stage \in Freed
        BY <1>2, <1>7, <4>2, Typed DEF Freed, Ready, th
      <4>5. RecordedFor(e) => RecordedFor(e)'
        BY <1>4, <1>9, <4>2, <4>3 DEF RecordedFor, pluginVars
      <4>6. HalfFor(e) => HalfFor(e)'
        BY <1>4, <1>a, <1>b, <1>d, <4>2 DEF HalfFor, Receivers
      <4> QED BY <4>1, <4>2, <4>3, <4>4, <4>5, <4>6, <1>4
    <3> QED BY <3>1, <1>9 DEF Owned, registryVars
  <2>s. Stale'
    <3>1. ASSUME NEW p, MovedFrom(p) PROVE MovedFrom(p)'
      <4>1. PICK n \in Ids : peer[n] # Lost /\ sess[peer[n]].dir = p /\ ptr[n].buf < buf
        BY <3>1 DEF MovedFrom
      <4>2. n # m /\ peer[n] # m /\ peer[n] \in Ids
        BY <4>1, <1>a, <1>d, <1>e
      <4>3. ptr'[n].buf < buf'
        <5>1. buf \in Nat /\ buf <= buf' /\ buf' \in Nat /\ ptr[n].buf \in Nat
          BY <1>6, Typed2 DEF Ready, TypeOK, Make, Grow
        <5> QED BY <5>1, <4>1, <4>2, <1>6
      <4>4. peer'[n] # Lost /\ sess'[peer'[n]].dir = p
        BY <4>1, <4>2, <1>4, <1>a
      <4> QED BY <4>3, <4>4 DEF MovedFrom
    <3> QED BY <3>1, <2>1, <1>9 DEF Stale, registryVars
  <2>4. Counts'
    <3>1. \A n \in Ids : sess'[n].count <= 1
      BY <1>4, <2>1 DEF Counts
    <3>2. \A n \in waiting' : sess'[n].count = 0
      BY <1>4, <1>5, <2>1, Typed2 DEF Counts, Ready
    <3>3. \A u \in Threads : thread'[u].stage = "spawn" => sess'[thread'[u].ses].count = 0
      BY <1>4, <1>7, <1>g, <2>1 DEF Counts
    <3> QED BY <3>1, <3>2, <3>3 DEF Counts
  <2>5. Claims'
    <3>1. \A n \in Ids : Live(n)' => Live(n) /\ n # m
      <4>1. \A n \in Ids : thread'[n].stage \in Restarting => thread[n].stage \in Restarting
        BY <1>7, Typed DEF Restarting, Ready
      <4>2. \A n \in Ids : Live(n)' => Live(n)
        BY <4>1, <1>5 DEF Live
      <4>3. ~Live(m)
        BY <1>e DEF Live, Restarting
      <4> QED BY <4>2, <4>3
    <3>2. \A u \in Threads : \A d : Making(u, d)' => Making(u, d)
      BY <1>2, <1>7 DEF Making, th
    <3>3. \A d : Awaits(d)' = Awaits(d)
      BY <1>9 DEF Awaits, pluginVars
    <3>4. \A n \in Ids : n # m => sess'[n].dir = sess[n].dir
      BY <1>4
    <3>5. \A k, n \in Ids :
          Live(k)' /\ Live(n)' /\ sess'[k].dir = sess'[n].dir /\ sess'[n].dir # NoDir => k = n
      BY <2>1, <3>1, <3>4 DEF Claims
    <3>6. \A u \in Threads, n \in Ids : Live(n)' /\ sess'[n].dir # NoDir => ~Making(u, sess[n].dir)'
      <4>1. \A u \in Threads, n \in Ids :
              Live(n)' /\ sess'[n].dir # NoDir => \A d : d = sess'[n].dir => ~Making(u, d)'
        BY <2>1, <3>1, <3>2, <3>4 DEF Claims
      <4> QED BY <4>1 DEF Making
    <3>7. \A u, v \in Threads : \A d \in SidecarDirs : Making(u, d)' /\ Making(v, d)' => u = v
      BY <2>1, <3>2 DEF Claims
    <3>8. \A d \in SidecarDirs : Awaits(d)' =>
            /\ \A n \in Ids : Live(n)' => sess'[n].dir # d
            /\ \A u \in Threads : ~Making(u, d)'
      BY <2>1, <3>1, <3>2, <3>3, <3>4 DEF Claims
    <3>9. \A i, j \in DOMAIN todo'.dirs : todo'.dirs[i] = todo'.dirs[j] => i = j
      BY <1>9, <2>1 DEF Claims, pluginVars
    <3> QED BY <3>5, <3>6, <3>7, <3>8, <3>9 DEF Claims
  <2> QED BY <2>2, <2>3, <2>s, <2>4, <2>5 DEF Orderly
<1>20. Order'
  <2>1. NoneDropped' => NoneDropped
    BY <1>1, <1>3 DEF NoneDropped, m
  <2> QED BY <2>1, <1>19 DEF Ready, Order
<1> QED BY <1>12, <1>13, <1>14, <1>15, <1>16, <1>s, <1>17, <1>18, <1>20 DEF Core
-----------------------------------------------------------------------------
(* What a step may do to each part without breaking it *)

SameKin == \A n \in Ids : sess'[n].dir = sess[n].dir /\ sess'[n].runtime = sess[n].runtime

LEMMA NamedShrinks ==
  ASSUME Ready, UNCHANGED <<made, ptr, peer, conn>>,
         Sessions' \subseteq Sessions, Len(vec)' \in Nat, Len(vec)' <= Len(vec),
         \A n \in Ids : recv'[n] # "off" => recv[n] # "off" \/ n \in Sessions,
         \A n \in Ids : child'[n] = "up" => child[n] = "up",
         waiting' \subseteq waiting,
         \A rt \in Runtimes : bound'[rt] \in {Lost} \cup Sessions \/ bound'[rt] = bound[rt],
         \A t \in Threads : thread'[t].ses \in {Lost, thread[t].ses},
         \A n \in Ids : thread[n].stage = "off" /\ n \notin waiting => thread'[n].stage = "off"
  PROVE  Named'
<1>1. Named /\ made \in Nat
  BY Typed DEF Ready, Core
<1>2. \A n \in Sessions : n <= made /\ n \in Ids /\ ~(n > made)
  BY <1>1, Typed, ToSetFacts DEF Ready, Named, Sessions
<1>3. Lost <= made
  BY <1>1 DEF Lost
<1>4. \A rt \in Runtimes : bound'[rt] <= made
  BY <1>1, <1>2, <1>3 DEF Named
<1>5. \A t \in Threads : thread'[t].ses <= made
  BY <1>1, <1>3 DEF Named
<1>6. Len(vec)' <= made
  BY <1>1, Typed DEF Ready, Named
<1>7. ASSUME NEW n \in Ids, n > made
      PROVE  /\ ptr'[n].idx = 0 /\ recv'[n] = "off" /\ child'[n] # "up" /\ n \notin waiting'
             /\ conn'[n] = Lost /\ peer'[n] = Lost /\ thread'[n].stage = "off"
  BY <1>1, <1>2, <1>7 DEF Named
<1> QED BY <1>1, <1>2, <1>4, <1>5, <1>6, <1>7 DEF Named

LEMMA NamedFrame ==
  ASSUME Ready, UNCHANGED <<vec, made, ptr, peer, conn>>,
         \A n \in Ids : recv'[n] # "off" => recv[n] # "off" \/ n \in Sessions,
         \A n \in Ids : child'[n] = "up" => child[n] = "up",
         waiting' \subseteq waiting,
         \A rt \in Runtimes : bound'[rt] \in {Lost} \cup Sessions \/ bound'[rt] = bound[rt],
         \A t \in Threads : thread'[t].ses \in {Lost, thread[t].ses},
         \A n \in Ids : thread[n].stage = "off" /\ n \notin waiting => thread'[n].stage = "off"
  PROVE  Named'
<1>1. Len(vec)' \in Nat /\ Len(vec)' <= Len(vec) /\ Sessions' \subseteq Sessions
  BY Typed DEF Ready, Sessions
<1> QED BY <1>1, NamedShrinks

LEMMA SameRuntimeFrame ==
  ASSUME Ready, SameKin, UNCHANGED <<conn, peer>>,
         \A rt \in Runtimes : bound'[rt] \in {Lost, bound[rt]}
  PROVE  SameRuntime'
<1>1. SameRuntime /\ conn \in [Ids -> {Lost} \cup Ids] /\ peer \in [Ids -> {Lost} \cup Ids]
      /\ bound \in [Runtimes -> {Lost} \cup Ids]
  BY Typed2 DEF Ready, Core
<1>2. \A rt \in Runtimes : bound'[rt] # Lost => sess'[bound'[rt]].runtime = rt
  BY <1>1 DEF SameRuntime, SameKin
<1>3. \A c \in Ids : conn[c] # Lost => sess'[conn[c]].runtime = sess'[c].runtime
  BY <1>1 DEF SameRuntime, SameKin
<1>4. \A n \in Ids : peer[n] # Lost => sess'[peer[n]].runtime = sess'[n].runtime
  BY <1>1 DEF SameRuntime, SameKin
<1> QED BY <1>2, <1>3, <1>4 DEF SameRuntime

LEMMA ReceiversFrame ==
  ASSUME Ready, SameKin,
         \A n \in Ids : recv'[n] # "off" =>
            /\ recv[n] # "off" /\ peer'[n] = peer[n] /\ n \in Sessions'
            /\ recv'[n] = "half" => recv[n] = "half" /\ sess'[n].client
  PROVE  Receivers'
<1>1. Receivers /\ peer \in [Ids -> {Lost} \cup Ids]
  BY Typed2 DEF Ready, Core
<1>2. ASSUME NEW n \in Ids, recv'[n] # "off"
      PROVE  /\ n \in Sessions' /\ peer'[n] # Lost
             /\ recv'[n] = "half" => sess'[n].client /\ sess'[peer'[n]].dir # NoDir
  BY <1>1, <1>2 DEF Receivers, SameKin
<1> QED BY <1>2 DEF Receivers

LEMMA StartsFrame ==
  ASSUME Ready,
         \A t \in Threads : thread'[t].stage \in Starting =>
            /\ thread[t].stage \in Starting /\ thread'[t].ses = thread[t].ses
            /\ thread'[t].stage = "wire" <=> thread[t].stage = "wire",
         \A n \in Ids : recv[n] = "off" => recv'[n] = "off",
         UNCHANGED peer
  PROVE  Starts'
<1>1. Starts /\ \A t \in Threads : thread[t].ses = Lost \/ thread[t].ses \in Ids
  BY Typed DEF Ready, Core
<1>2. ASSUME NEW t \in Threads, thread'[t].stage \in Starting
      PROVE  /\ thread'[t].ses # Lost /\ recv'[thread'[t].ses] = "off"
             /\ thread'[t].stage = "wire" <=> peer'[thread'[t].ses] # Lost
  BY <1>1, <1>2 DEF Starts
<1>3. \A t, u \in Threads :
          thread'[t].stage \in Starting /\ thread'[u].stage \in Starting /\ t # u
              => thread'[t].ses # thread'[u].ses
  BY <1>1 DEF Starts
<1> QED BY <1>2, <1>3 DEF Starts

\* No thread comes to spawn a process, but for one that has made a session.
SpawnsStay == \A t \in Threads : thread'[t].stage = "spawn" => thread'[t] = thread[t]

LEMMA SpawnsStayFacts ==
  ASSUME NEW t \in Threads, thread'[t].stage # "spawn",
         \A u \in Threads : u # t => thread'[u] = thread[u]
  PROVE  SpawnsStay
  BY DEF SpawnsStay

LEMMA SpawnsStaySame ==
  ASSUME UNCHANGED thread PROVE SpawnsStay
  BY DEF SpawnsStay

LEMMA SpawnsFrame ==
  ASSUME Ready, SameKin, SpawnsStay,
         \A n \in Ids : child'[n] = "up" => child[n] = "up",
         waiting' \subseteq waiting,
         \A n \in Ids : thread[n].stage = "off" /\ n \notin waiting => thread'[n].stage = "off"
  PROVE  Spawns'
<1>1. SUFFICES ASSUME NEW t \in Threads, thread'[t].stage = "spawn"
               PROVE  Unspawned(thread[t].ses)' /\ sess'[thread'[t].ses].dir = thread'[t].dir
  <2>1. ASSUME NEW t \in Threads, thread'[t].stage = "spawn" PROVE thread'[t] = thread[t]
    BY <2>1 DEF SpawnsStay
  <2> QED BY <2>1 DEF Spawns, Unspawned
<1> DEFINE n == thread[t].ses
<1>2. thread'[t] = thread[t] /\ thread[t].stage = "spawn"
  BY <1>1 DEF SpawnsStay
<1>3. n \in Ids
  BY <1>2, Typed DEF Ready, Core, Starts, Starting
<1>4. Unspawned(n) /\ sess[n].dir = thread[t].dir
  BY <1>2 DEF Ready, Core, Spawns
<1>5. Unspawned(n)'
  BY <1>2, <1>3, <1>4 DEF Unspawned
<1>6. sess'[n].dir = thread'[t].dir
  BY <1>2, <1>3, <1>4 DEF SameKin
<1> QED BY <1>2, <1>5, <1>6

LEMMA ProcessesFrame ==
  ASSUME Ready, Sessions \subseteq Sessions',
         \A n \in Ids : child'[n] = "up" =>
            child[n] = "up" /\ sess'[n].launcher = sess[n].launcher /\ n \in waiting',
         waiting' \subseteq waiting,
         \A n \in Ids : thread[n].stage = "off" => thread'[n].stage = "off" \/ n \notin waiting',
         thread'[Main].stage \notin Restarting
  PROVE  Processes'
<1>1. Processes /\ waiting \subseteq Ids
  BY Typed2 DEF Ready, Core
<1> QED BY <1>1 DEF Processes

LEMMA BackedFrame ==
  ASSUME Ready, SameKin, UNCHANGED <<registryVars, handles, loaded>>,
         \A n \in Ids : recv[n] = "half" => recv'[n] = "half" /\ peer'[n] = peer[n]
  PROVE  Backed'
<1>1. Backed /\ Receivers /\ peer \in [Ids -> {Lost} \cup Ids]
  BY Typed2 DEF Ready, Core
<1>2. \A q : HalfAnnounced(q) => HalfAnnounced(q)'
  BY <1>1 DEF HalfAnnounced, Receivers, SameKin
<1> QED BY <1>1, <1>2 DEF Backed, RecordedLib, Recorded, registryVars

LEMMA FaultType ==
  ASSUME TypeOK, Fault PROVE faults' \in 0 .. MaxFaults
  BY LifecycleAssumption DEF TypeOK, Fault

LEMMA SameSess ==
  ASSUME UNCHANGED sess PROVE SameKin
  BY DEF SameKin

LEMMA SessType ==
  ASSUME TypeOK, NEW n \in Ids, NEW s \in Session, sess' = [sess EXCEPT ![n] = s],
         s.dir = sess[n].dir, s.runtime = sess[n].runtime
  PROVE  /\ SameKin /\ sess' \in [Ids -> Session] /\ sess'[n] = s
         /\ \A m \in Ids : m # n => sess'[m] = sess[m]
  BY DEF TypeOK, SameKin

\* Tools keep their owners when nothing is taken away from them.
LEMMA OwnedFrame ==
  ASSUME Ready, Owned, SameKin, UNCHANGED <<made, remote>>,
         \A p \in ToSet(loaded) : p \in ToSet(loaded'),
         \A n \in Ids : recv[n] = "half" => recv'[n] = "half" /\ peer'[n] = peer[n],
         \A n \in Ids : sess[n].client => sess'[n].client \/ thread'[n].stage \in Freed,
         \A n \in Ids : thread[n].stage \in Freed => thread'[n].stage \in Freed
  PROVE  Owned'
<1>1. \A e \in ToSet(remote) : e.via # Lost => e.via \in Ids
  <2>1. ToSet(remote) \subseteq Entry
    BY ToSetFacts DEF Ready, TypeOK, RegistryTypeOK
  <2> QED BY <2>1, LifecycleAssumption DEF Entry
<1>2. Receivers /\ peer \in [Ids -> {Lost} \cup Ids]
  BY Typed2 DEF Ready, Core
<1>3. ASSUME NEW e \in ToSet(remote), e.via # Lost
      PROVE  /\ e.via <= made'
             /\ sess'[e.via].client \/ thread'[e.via].stage \in Freed
             /\ RecordedFor(e)' \/ HalfFor(e)'
  <2>1. /\ e.via \in Ids /\ e.via <= made
        /\ sess[e.via].client \/ thread[e.via].stage \in Freed
        /\ RecordedFor(e) \/ HalfFor(e)
    BY <1>1, <1>3 DEF Owned
  <2>2. RecordedFor(e) => RecordedFor(e)'
    BY <2>1 DEF RecordedFor, SameKin
  <2>3. HalfFor(e) => HalfFor(e)'
    BY <1>2, <2>1 DEF HalfFor, Receivers, SameKin
  <2> QED BY <2>1, <2>2, <2>3
<1> QED BY <1>3 DEF Owned

LEMMA CountsFrame ==
  ASSUME Ready, Counts, waiting' \subseteq waiting, sess' \in [Ids -> Session], SpawnsStay,
         \A n \in Ids : sess'[n].count \in {0, sess[n].count}
  PROVE  Counts'
<1>1. waiting \subseteq Ids
  BY Typed2 DEF Ready
<1>2. ASSUME NEW t \in Threads, thread'[t].stage = "spawn" PROVE sess'[thread'[t].ses].count = 0
  <2>1. thread'[t] = thread[t] /\ thread[t].stage = "spawn"
    BY <1>2 DEF SpawnsStay
  <2>2. thread[t].ses \in Ids /\ sess[thread[t].ses].count = 0
    BY <2>1, Typed DEF Ready, Core, Starts, Starting, Counts
  <2> QED BY <2>1, <2>2
<1> QED BY <1>1, <1>2 DEF Counts

\* A session that moved stays moved, and its connection its own.
LEMMA StaleFrame ==
  ASSUME Ready, Stale, SameKin, UNCHANGED <<ptr, buf>>, ToSet(remote') \subseteq ToSet(remote),
         \A n \in Ids : peer[n] # Lost => peer'[n] = peer[n]
  PROVE  Stale'
<1>1. peer \in [Ids -> {Lost} \cup Ids]
  BY Typed2 DEF Ready
<1>2. ASSUME NEW p, MovedFrom(p) PROVE MovedFrom(p)'
  <2>1. PICK n \in Ids : peer[n] # Lost /\ sess[peer[n]].dir = p /\ ptr[n].buf < buf
    BY <1>2 DEF MovedFrom
  <2>2. peer'[n] # Lost /\ sess'[peer'[n]].dir = p /\ ptr'[n].buf < buf'
    BY <1>1, <2>1 DEF SameKin
  <2> QED BY <2>2 DEF MovedFrom
<1> QED BY <1>2 DEF Stale

\* No step but three makes a new claim on a directory.
LEMMA ClaimsFrame ==
  ASSUME Claims, SameKin, todo'.dirs = todo.dirs,
         \A n \in Ids : Live(n)' => Live(n),
         \A t \in Threads : \A d : Making(t, d)' => Making(t, d)
  PROVE  Claims'
<1>1. \A n \in Ids : sess'[n].dir = sess[n].dir
  BY DEF SameKin
<1>2. \A d : Awaits(d)' => Awaits(d)
  BY DEF Awaits
<1>3. \A m, n \in Ids :
          Live(m)' /\ Live(n)' /\ sess'[m].dir = sess'[n].dir /\ sess'[n].dir # NoDir => m = n
  BY <1>1 DEF Claims
<1>4. \A t \in Threads, n \in Ids : Live(n)' /\ sess'[n].dir # NoDir => ~Making(t, sess[n].dir)'
  BY <1>1 DEF Claims
<1>5. \A t, u \in Threads : \A d \in SidecarDirs : Making(t, d)' /\ Making(u, d)' => t = u
  BY DEF Claims
<1>6. \A d \in SidecarDirs : Awaits(d)' =>
          /\ \A n \in Ids : Live(n)' => sess'[n].dir # d
          /\ \A t \in Threads : ~Making(t, d)'
  BY <1>1, <1>2 DEF Claims
<1>7. \A i, j \in DOMAIN todo'.dirs : todo'.dirs[i] = todo'.dirs[j] => i = j
  BY DEF Claims
<1> QED BY <1>1, <1>3, <1>4, <1>5, <1>6, <1>7 DEF Claims

LEMMA OrderFrame ==
  ASSUME Ready, SameKin, UNCHANGED <<vec, buf, made, ptr, remote>>, todo'.dirs = todo.dirs,
         SpawnsStay, \A n \in Ids : peer[n] # Lost => peer'[n] = peer[n],
         \A p \in ToSet(loaded) : p \in ToSet(loaded'),
         \A n \in Ids : recv[n] = "half" => recv'[n] = "half" /\ peer'[n] = peer[n],
         sess' \in [Ids -> Session], waiting' \subseteq waiting,
         \A n \in Ids : sess'[n].client = sess[n].client /\ sess'[n].count \in {0, sess[n].count},
         \A n \in Ids : thread[n].stage \in Freed => thread'[n].stage \in Freed,
         \A n \in Ids : Live(n)' => Live(n),
         \A t \in Threads : \A d : Making(t, d)' => Making(t, d)
  PROVE  Order'
<1>1. SUFFICES ASSUME NoneDropped PROVE Orderly'
  BY DEF Order, NoneDropped
<1>2. Placed /\ Owned /\ Stale /\ Counts /\ Claims
  BY <1>1 DEF Ready, Order, Orderly
<1>3. Placed'
  BY <1>2 DEF Placed
<1>4. Stale'
  BY <1>2, StaleFrame
<1> QED BY <1>2, <1>3, <1>4, OwnedFrame, CountsFrame, ClaimsFrame DEF Orderly

-----------------------------------------------------------------------------
LEMMA SpawnStep ==
  ASSUME Ready, NEW t \in Threads, Spawn(t)
  PROVE  TypeOK' /\ Core' /\ Order'
<1> DEFINE n == thread[t].ses
           th == thread[t]
           s == [sess[n] EXCEPT !.launcher = "pid"]
<1>1. /\ th.stage = "spawn" /\ n \in Ids /\ n \in Sessions
      /\ Unspawned(n) /\ sess[n].dir = th.dir /\ n <= made
  <2>1. th.stage = "spawn" /\ Deref(n) = n
    BY DEF Spawn, At
  <2>2. n # Lost /\ n <= made /\ Unspawned(n) /\ sess[n].dir = th.dir
    BY <2>1 DEF Ready, Core, Starts, Starting, Named, Spawns
  <2> QED BY <2>1, <2>2, DerefType, Typed DEF Ready
<1>2. sess[n] \in Session
  BY <1>1, Typed2 DEF Ready
<1>3. s \in Session /\ s.dir = sess[n].dir /\ s.runtime = sess[n].runtime
      /\ s.client = sess[n].client /\ s.launcher = "pid" /\ s.count = sess[n].count
  <2> HIDE DEF n
  <2> QED BY <1>2 DEF Session
<1>4. sess' = [sess EXCEPT ![n] = s]
  BY DEF Spawn
<1>5. child' = [child EXCEPT ![n] = "up"] /\ waiting' = waiting \cup {n}
  BY DEF Spawn
<1>6. Goto(t, "listen") /\ "listen" \in Stages
  BY DEF Spawn, Stages
<1>7. /\ UNCHANGED <<vec, buf, cap, made, ptr, peer, conn, recv, bound, proc, todo, handles, loaded, shut, faults>>
      /\ UNCHANGED registryVars
  BY DEF Spawn, pluginVars, peerVars, vectorVars
<1> HIDE DEF s, n, th
<1>8. /\ SameKin /\ sess' \in [Ids -> Session] /\ sess'[n] = s
      /\ \A m \in Ids : m # n => sess'[m] = sess[m]
      /\ \A m \in Ids : sess'[m].client = sess[m].client /\ sess'[m].count = sess[m].count
  <2>1. TypeOK
    BY DEF Ready
  <2> QED BY <2>1, <1>1, <1>3, <1>4, SessType
<1>9. /\ child' \in [Ids -> {"up", "crashed", "clean"}] /\ waiting' \subseteq Ids /\ waiting \subseteq Ids
      /\ child'[n] = "up" /\ \A m \in Ids : m # n => child'[m] = child[m]
  BY <1>1, <1>5, Typed2 DEF Ready
<1>10. /\ thread' \in [Threads -> Thread] /\ thread'[t].stage = "listen" /\ thread'[t].ses = n
       /\ \A u \in Threads : u # t => thread'[u] = thread[u]
  BY <1>6, GotoFacts, Typed DEF Ready, n
<1>11. TypeOK'
  BY <1>7, <1>8, <1>9, <1>10 DEF Ready, TypeOK, Thread, RegistryTypeOK, registryVars
<1>12. Ids \subseteq Threads /\ Main \in Threads
  BY Typed DEF Ready
<1>13. \A m \in Ids : thread[m].stage = "off" => m # t /\ thread'[m].stage = "off"
  BY <1>1, <1>10, <1>12 DEF th
<1>b. /\ Named /\ Receivers /\ Starts /\ Spawns /\ Processes
      /\ \A u \in Threads : thread[u].ses = Lost \/ thread[u].ses \in Ids
  BY Typed DEF Ready, Core
<1>14. Named'
  <2>1. \A u \in Threads : thread'[u].ses <= made
    BY <1>1, <1>10, <1>b DEF Named
  <2>2. \A m \in Ids : m > made => m # n
    <3>1. made \in Nat /\ n \in Nat
      BY <1>1, Typed DEF Ready
    <3> QED BY <3>1, <1>1
  <2>3. ASSUME NEW m \in Ids, m > made
        PROVE  /\ ptr'[m].idx = 0 /\ recv'[m] = "off" /\ child'[m] # "up" /\ m \notin waiting'
               /\ conn'[m] = Lost /\ peer'[m] = Lost /\ thread'[m].stage = "off"
    BY <2>2, <2>3, <1>5, <1>7, <1>9, <1>13, <1>b DEF Named
  <2> QED BY <2>1, <2>3, <1>7, <1>b DEF Named, Sessions
<1>15. SameRuntime'
  BY <1>7, <1>8, SameRuntimeFrame
<1>16. Receivers'
  <2>1. \A m \in Ids : recv'[m] # "off" =>
            /\ recv[m] # "off" /\ peer'[m] = peer[m] /\ m \in Sessions'
            /\ recv'[m] = "half" => recv[m] = "half" /\ sess'[m].client
    BY <1>7, <1>8, <1>b DEF Receivers, Sessions
  <2> QED BY <1>8, <2>1, ReceiversFrame
<1>17. Starts'
  <2>1. \A u \in Threads : thread'[u].stage \in Starting =>
            /\ thread[u].stage \in Starting /\ thread'[u].ses = thread[u].ses
            /\ thread'[u].stage = "wire" <=> thread[u].stage = "wire"
    BY <1>1, <1>10 DEF Starting, th, n
  <2> QED BY <1>7, <2>1, StartsFrame
<1>18. \A u \in Threads : thread'[u].stage = "spawn" =>
          /\ u # t /\ thread'[u] = thread[u] /\ thread[u].stage = "spawn"
          /\ thread[u].ses \in Ids /\ thread[u].ses # n
  BY <1>1, <1>10, <1>b DEF Starts, Starting, th, n
<1>19. Spawns'
  <2>1. \A m \in Ids : m # n /\ Unspawned(m) => Unspawned(m)'
    BY <1>5, <1>9, <1>13 DEF Unspawned
  <2>2. SUFFICES ASSUME NEW u \in Threads, thread'[u].stage = "spawn"
                 PROVE  Unspawned(thread[u].ses)' /\ sess'[thread'[u].ses].dir = thread'[u].dir
    BY DEF Spawns
  <2> DEFINE k == thread[u].ses
  <2>3. thread'[u] = thread[u] /\ thread[u].stage = "spawn" /\ k \in Ids /\ k # n
    BY <2>2, <1>18
  <2>4. Unspawned(k) /\ sess[k].dir = thread[u].dir
    BY <2>3, <1>b DEF Spawns
  <2>5. Unspawned(k)'
    BY <2>1, <2>3, <2>4
  <2> QED BY <2>3, <2>4, <2>5, <1>8 DEF Unspawned
<1>20. Processes'
  <2>1. thread'[Main].stage \notin Restarting
    BY <1>10, <1>12, <1>b DEF Processes, Restarting
  <2>2. \A m \in waiting' : thread'[m].stage = "off"
    BY <1>1, <1>5, <1>9, <1>13, <1>b DEF Processes, Unspawned
  <2>3. ASSUME NEW m \in Ids, child'[m] = "up"
        PROVE  m \in Sessions' /\ sess'[m].launcher = "pid" /\ m \in waiting'
    <3>1. CASE m = n
      BY <3>1, <1>1, <1>3, <1>5, <1>7, <1>8 DEF Sessions
    <3>2. CASE m # n
      BY <3>2, <2>3, <1>5, <1>7, <1>8, <1>9, <1>b DEF Processes, Sessions
    <3> QED BY <3>1, <3>2
  <2> QED BY <2>1, <2>2, <2>3 DEF Processes
<1>21. Backed'
  BY <1>7, <1>8, BackedFrame
<1>22. ASSUME NoneDropped, Orderly PROVE Orderly'
  <2>1. Placed /\ Owned /\ Stale /\ Counts /\ Claims
    BY <1>22 DEF Orderly
  <2>2. Placed'
    BY <1>7, <2>1 DEF Placed
  <2>3. Owned'
    <3>1. \A m \in Ids : thread[m].stage \in Freed => thread'[m].stage \in Freed
      BY <1>1, <1>10, <1>12 DEF Freed, th
    <3> QED BY <1>7, <1>8, <2>1, <3>1, OwnedFrame DEF registryVars
  <2>4. Stale'
    BY <1>7, <1>8, <2>1, StaleFrame DEF registryVars
  <2>5. Counts'
    <3>1. sess[n].count = 0
      BY <1>1, <2>1 DEF Counts, th, n
    <3>2. \A m \in waiting' : sess'[m].count = 0
      BY <3>1, <1>1, <1>5, <1>8, <1>9, <2>1 DEF Counts
    <3>3. \A u \in Threads : thread'[u].stage = "spawn" => sess'[thread'[u].ses].count = 0
      BY <1>8, <1>18, <2>1 DEF Counts
    <3>4. \A m \in Ids : sess'[m].count <= 1
      BY <1>8, <2>1 DEF Counts
    <3> QED BY <3>2, <3>3, <3>4 DEF Counts
  <2>6. /\ \A m \in Ids : m # n /\ Live(m)' => Live(m)
        /\ \A u \in Threads : \A d : Making(u, d)' => Making(u, d) /\ u # t
        /\ \A d : Awaits(d)' = Awaits(d)
        /\ Making(t, th.dir) /\ sess[n].dir = th.dir
    <3>1. \A m \in Ids : m # n /\ Live(m)' => Live(m)
      <4>1. \A m \in Ids : thread'[m].stage \in Restarting => thread[m].stage \in Restarting
        BY <1>10, <1>12 DEF Restarting
      <4> QED BY <4>1, <1>5, <1>9 DEF Live
    <3>2. \A u \in Threads : \A d : Making(u, d)' => Making(u, d) /\ u # t
      BY <1>10 DEF Making
    <3>3. \A d : Awaits(d)' = Awaits(d)
      BY <1>7 DEF Awaits
    <3> QED BY <3>1, <3>2, <3>3, <1>1 DEF Making, th
  <2>7. Claims'
    <3>1. \A m \in Ids : m # n /\ Live(m)' /\ sess[m].dir # NoDir => sess[m].dir # th.dir
      BY <2>1, <2>6 DEF Claims
    <3>2. th.dir # NoDir => th.dir \in SidecarDirs
      BY Typed DEF DirNames, Ready, th
    <3>3. \A m \in Ids : sess'[m].dir = sess[m].dir
      BY <1>8 DEF SameKin
    <3>4. \A k, m \in Ids :
          Live(k)' /\ Live(m)' /\ sess'[k].dir = sess'[m].dir /\ sess'[m].dir # NoDir => k = m
      BY <2>1, <2>6, <3>1, <3>3 DEF Claims
    <3>5. \A u \in Threads, m \in Ids : Live(m)' /\ sess'[m].dir # NoDir => ~Making(u, sess[m].dir)'
      <4>1. \A u \in Threads, m \in Ids :
              Live(m)' /\ sess[m].dir # NoDir => ~(Making(u, sess[m].dir) /\ u # t)
        BY <2>1, <2>6, <3>2 DEF Claims
      <4>2. \A u \in Threads, m \in Ids :
              Live(m)' /\ sess[m].dir # NoDir => \A d : d = sess'[m].dir => ~Making(u, d)'
        BY <4>1, <2>6, <3>3
      <4> QED BY <4>2, <3>3 DEF Making
    <3>6. \A u, v \in Threads : \A d \in SidecarDirs : Making(u, d)' /\ Making(v, d)' => u = v
      BY <2>1, <2>6 DEF Claims
    <3>7. \A d \in SidecarDirs : Awaits(d)' =>
            /\ \A m \in Ids : Live(m)' => sess'[m].dir # d
            /\ \A u \in Threads : ~Making(u, d)'
      BY <2>1, <2>6, <3>3 DEF Claims
    <3>8. \A i, j \in DOMAIN todo'.dirs : todo'.dirs[i] = todo'.dirs[j] => i = j
      BY <1>7, <2>1 DEF Claims
    <3> QED BY <3>4, <3>5, <3>6, <3>7, <3>8 DEF Claims
  <2> QED BY <2>2, <2>3, <2>4, <2>5, <2>7 DEF Orderly
<1>23. Order'
  BY <1>7, <1>22 DEF Ready, Order, NoneDropped
<1> QED BY <1>11, <1>14, <1>15, <1>16, <1>17, <1>19, <1>20, <1>21, <1>23 DEF Core

LEMMA ListenStep ==
  ASSUME Ready, NEW t \in Threads, Listen(t)
  PROVE  TypeOK' /\ Core' /\ Order'
<1> DEFINE n == thread[t].ses
           s == [sess[n] EXCEPT !.link = "listening"]
<1>1. thread[t].stage = "listen" /\ n \in Ids /\ n \in Sessions /\ n # Lost
  <2>1. thread[t].stage = "listen" /\ Deref(n) = n
    BY DEF Listen, At
  <2>2. n # Lost
    BY <2>1 DEF Ready, Core, Starts, Starting
  <2> QED BY <2>1, <2>2, DerefType, Typed DEF Ready
<1>2. sess[n] \in Session /\ sess[n].runtime \in Runtimes
  BY <1>1, Typed2, SessionFields DEF Ready
<1>3. s \in Session /\ s.dir = sess[n].dir /\ s.runtime = sess[n].runtime
      /\ s.client = sess[n].client /\ s.launcher = sess[n].launcher /\ s.count = sess[n].count
  <2> HIDE DEF n
  <2> QED BY <1>2 DEF Session
<1>4. sess' = [sess EXCEPT ![n] = s]
  BY DEF Listen
<1>5. bound' = [bound EXCEPT ![sess[n].runtime] = n]
  BY DEF Listen
<1>6. Goto(t, "accept") /\ "accept" \in Stages
  BY DEF Listen, Stages
<1>7. /\ UNCHANGED <<vec, buf, cap, made, ptr, peer, conn, child, waiting, recv, proc, todo, handles, loaded, shut, faults>>
      /\ UNCHANGED registryVars
  BY DEF Listen, pluginVars, peerVars, vectorVars
<1> HIDE DEF s, n
<1>8. /\ SameKin /\ sess' \in [Ids -> Session]
      /\ \A m \in Ids : /\ sess'[m].client = sess[m].client /\ sess'[m].launcher = sess[m].launcher
                     /\ sess'[m].count = sess[m].count
  <2>1. TypeOK
    BY DEF Ready
  <2> QED BY <2>1, <1>1, <1>3, <1>4, SessType
<1>9. bound' \in [Runtimes -> {Lost} \cup Ids]
      /\ \A rt \in Runtimes : bound'[rt] = bound[rt] \/ (bound'[rt] = n /\ rt = sess[n].runtime)
  BY <1>1, <1>2, <1>5 DEF Ready, TypeOK
<1>10. /\ thread' \in [Threads -> Thread] /\ thread'[t].stage = "accept" /\ thread'[t].ses = thread[t].ses
       /\ \A u \in Threads : u # t => thread'[u] = thread[u]
  BY <1>6, GotoFacts, Typed DEF Ready
<1>11. TypeOK'
  BY <1>7, <1>8, <1>9, <1>10 DEF Ready, TypeOK, Thread, RegistryTypeOK, registryVars
<1>12. Ids \subseteq Threads /\ Main \in Threads
  BY Typed DEF Ready
<1>13. \A m \in Ids : thread[m].stage = "off" => thread'[m].stage = "off"
  BY <1>1, <1>10, <1>12
<1>14. Named'
  <2>1. \A u \in Threads : thread'[u].ses \in {Lost, thread[u].ses}
    BY <1>10
  <2> QED BY <1>1, <1>7, <1>9, <1>13, <2>1, NamedFrame
<1>15. SameRuntime'
  <2>1. SameRuntime /\ conn \in [Ids -> {Lost} \cup Ids] /\ peer \in [Ids -> {Lost} \cup Ids]
        /\ bound \in [Runtimes -> {Lost} \cup Ids]
    BY Typed2 DEF Ready, Core
  <2>2. \A rt \in Runtimes : bound'[rt] # Lost => sess'[bound'[rt]].runtime = rt
    BY <2>1, <1>1, <1>8, <1>9 DEF SameRuntime, SameKin
  <2> QED BY <2>1, <2>2, <1>7, <1>8 DEF SameRuntime, SameKin
<1>16. Receivers'
  <2>1. Receivers /\ Sessions' = Sessions
    BY <1>7 DEF Ready, Core, Sessions
  <2>2. \A m \in Ids : recv'[m] # "off" =>
            /\ recv[m] # "off" /\ peer'[m] = peer[m] /\ m \in Sessions'
            /\ recv'[m] = "half" => recv[m] = "half" /\ sess'[m].client
    BY <2>1, <1>7, <1>8 DEF Receivers
  <2> QED BY <1>8, <2>2, ReceiversFrame
<1>17. Starts'
  <2>1. \A u \in Threads : thread'[u].stage \in Starting =>
            /\ thread[u].stage \in Starting /\ thread'[u].ses = thread[u].ses
            /\ thread'[u].stage = "wire" <=> thread[u].stage = "wire"
    BY <1>1, <1>10 DEF Starting
  <2> QED BY <1>7, <2>1, StartsFrame
<1>18. Processes'
  <2>1. thread'[Main].stage \notin Restarting
    BY <1>10, <1>12 DEF Ready, Core, Processes, Restarting
  <2>2. \A m \in Ids : child[m] = "up" => m \in waiting
    BY DEF Ready, Core, Processes
  <2> QED BY <1>7, <1>8, <1>13, <2>1, <2>2, ProcessesFrame DEF Sessions
<1>19. Backed'
  BY <1>7, <1>8, BackedFrame
<1>s. SpawnsStay /\ Spawns'
  <2>1. SpawnsStay
    BY <1>10, SpawnsStayFacts
  <2> QED BY <2>1, <1>7, <1>8, <1>13, SpawnsFrame
<1>20. Order'
  <2>1. \A m \in Ids : Live(m)' => Live(m)
    BY <1>1, <1>7, <1>10, <1>12 DEF Live, Restarting
  <2>2. \A u \in Threads : \A d : Making(u, d)' => Making(u, d)
    BY <1>10 DEF Making
  <2>3. \A m \in Ids : thread[m].stage \in Freed => thread'[m].stage \in Freed
    BY <1>10, <1>1, <1>12 DEF Freed
  <2>4. remote' = remote /\ \A m \in Ids : sess'[m].count \in {0, sess[m].count}
    BY <1>7, <1>8 DEF registryVars
  <2>5. \A m \in Ids : recv[m] = "half" => recv'[m] = "half" /\ peer'[m] = peer[m]
    BY <1>7
  <2> QED BY <1>7, <1>8, <1>s, <2>1, <2>2, <2>3, <2>4, <2>5, OrderFrame
<1> QED BY <1>11, <1>14, <1>15, <1>16, <1>17, <1>s, <1>18, <1>19, <1>20 DEF Core

LEMMA AcceptStep ==
  ASSUME Ready, NEW t \in Threads, Accept(t)
  PROVE  TypeOK' /\ Core' /\ Order'
<1> DEFINE n == thread[t].ses
           s == [sess[n] EXCEPT !.link = "connected"]
<1>1. thread[t].stage = "accept" /\ n \in Ids /\ n # Lost /\ recv[n] = "off" /\ peer[n] = Lost
  <2>1. thread[t].stage = "accept"
    BY DEF Accept, At
  <2>2. n # Lost /\ recv[n] = "off" /\ peer[n] = Lost
    BY <2>1 DEF Ready, Core, Starts, Starting
  <2> QED BY <2>1, <2>2, Typed DEF Ready
<1>2. sess[n] \in Session
  BY <1>1, Typed2 DEF Ready
<1>3. s \in Session /\ s.dir = sess[n].dir /\ s.runtime = sess[n].runtime
      /\ s.client = sess[n].client /\ s.launcher = sess[n].launcher /\ s.count = sess[n].count
  <2> HIDE DEF n
  <2> QED BY <1>2 DEF Session
<1>4. sess' = [sess EXCEPT ![n] = s]
  BY DEF Accept
<1>5. PICK c \in Ids : conn[c] = n /\ peer' = [peer EXCEPT ![n] = c]
  BY DEF Accept
<1>6. Goto(t, "wire") /\ "wire" \in Stages
  BY DEF Accept, Stages
<1>7. /\ UNCHANGED <<vec, buf, cap, made, ptr, conn, child, waiting, recv, bound, proc, todo, handles, loaded, shut, faults>>
      /\ UNCHANGED registryVars
  BY DEF Accept, pluginVars, vectorVars
<1> HIDE DEF s, n
<1>8. /\ SameKin /\ sess' \in [Ids -> Session]
      /\ \A m \in Ids : /\ sess'[m].client = sess[m].client /\ sess'[m].launcher = sess[m].launcher
                     /\ sess'[m].count = sess[m].count
  <2>1. TypeOK
    BY DEF Ready
  <2> QED BY <2>1, <1>1, <1>3, <1>4, SessType
<1>9. /\ peer' \in [Ids -> {Lost} \cup Ids] /\ peer'[n] = c
      /\ \A m \in Ids : m # n => peer'[m] = peer[m]
  BY <1>1, <1>5 DEF Ready, TypeOK
<1>10. /\ thread' \in [Threads -> Thread] /\ thread'[t].stage = "wire" /\ thread'[t].ses = n
       /\ \A u \in Threads : u # t => thread'[u] = thread[u]
  BY <1>6, GotoFacts, Typed DEF Ready, n
<1>11. TypeOK'
  BY <1>7, <1>8, <1>9, <1>10 DEF Ready, TypeOK, Thread, RegistryTypeOK, registryVars
<1>12. Ids \subseteq Threads /\ Main \in Threads /\ c # Lost
  BY Typed DEF Ready
<1>13. \A m \in Ids : thread[m].stage = "off" => thread'[m].stage = "off"
  BY <1>1, <1>10, <1>12
<1>b. /\ Named /\ SameRuntime /\ Receivers /\ Starts /\ Processes
      /\ conn \in [Ids -> {Lost} \cup Ids] /\ peer \in [Ids -> {Lost} \cup Ids]
      /\ bound \in [Runtimes -> {Lost} \cup Ids] /\ made \in Nat
      /\ \A u \in Threads : thread[u].ses = Lost \/ thread[u].ses \in Ids
  BY Typed, Typed2 DEF Ready, Core
<1>14. Named'
  <2>1. c <= made /\ n <= made
    <3>1. made \in Nat /\ c \in Nat /\ (c > made => conn[c] = Lost)
      BY <1>b, Typed DEF Named, Ready
    <3>2. c <= made
      BY <3>1, <1>1, <1>5
    <3> QED BY <3>2, <1>b, <1>5 DEF Named
  <2>2. \A m \in Ids : peer'[m] <= made /\ conn'[m] <= made
    BY <1>7, <1>9, <1>b, <2>1 DEF Named
  <2>3. \A u \in Threads : thread'[u].ses <= made
    BY <1>10, <1>b, <2>1 DEF Named
  <2>4. \A m \in Ids : m > made => m # n
    BY <2>1, <1>b, Typed DEF Ready
  <2>5. ASSUME NEW m \in Ids, m > made
        PROVE  /\ ptr'[m].idx = 0 /\ recv'[m] = "off" /\ child'[m] # "up" /\ m \notin waiting'
               /\ conn'[m] = Lost /\ peer'[m] = Lost /\ thread'[m].stage = "off"
    BY <2>4, <2>5, <1>7, <1>9, <1>13, <1>b DEF Named
  <2> QED BY <2>2, <2>3, <2>5, <1>7, <1>b DEF Named, Sessions
<1>15. SameRuntime'
  <2>1. \A m \in Ids : peer'[m] # Lost => sess[peer'[m]].runtime = sess[m].runtime
    BY <1>1, <1>5, <1>9, <1>b DEF SameRuntime
  <2>2. \A m \in Ids : peer'[m] # Lost => sess'[peer'[m]].runtime = sess'[m].runtime
    BY <2>1, <1>8, <1>9 DEF SameKin
  <2> QED BY <2>2, <1>7, <1>8, <1>b DEF SameRuntime, SameKin
<1>16. Receivers'
  <2>1. Sessions' = Sessions
    BY <1>7 DEF Sessions
  <2>2. \A m \in Ids : recv'[m] # "off" =>
            /\ recv[m] # "off" /\ peer'[m] = peer[m] /\ m \in Sessions'
            /\ recv'[m] = "half" => recv[m] = "half" /\ sess'[m].client
    BY <2>1, <1>1, <1>7, <1>8, <1>9, <1>b DEF Receivers
  <2> QED BY <1>8, <2>2, ReceiversFrame
<1>17. Starts'
  <2>1. ASSUME NEW u \in Threads, thread'[u].stage \in Starting
        PROVE  /\ thread'[u].ses # Lost /\ recv'[thread'[u].ses] = "off"
               /\ thread'[u].stage = "wire" <=> peer'[thread'[u].ses] # Lost
    <3>1. CASE u = t
      BY <3>1, <1>1, <1>7, <1>9, <1>10, <1>12
    <3>2. CASE u # t
      <4>1. thread'[u] = thread[u] /\ thread[u].ses \in Ids /\ thread[u].ses # n
        BY <3>2, <2>1, <1>1, <1>10, <1>b DEF Starts, Starting, n
      <4> QED BY <4>1, <2>1, <1>7, <1>9, <1>b DEF Starts
    <3> QED BY <3>1, <3>2
  <2>2. \A u, v \in Threads :
          thread'[u].stage \in Starting /\ thread'[v].stage \in Starting /\ u # v
              => thread'[u].ses # thread'[v].ses
    BY <1>1, <1>10, <1>b DEF Starts, Starting, n
  <2> QED BY <2>1, <2>2 DEF Starts
<1>18. Processes'
  <2>1. thread'[Main].stage \notin Restarting
    BY <1>10, <1>12, <1>b DEF Processes, Restarting
  <2>2. \A m \in Ids : child[m] = "up" => m \in waiting
    BY <1>b DEF Processes
  <2> QED BY <1>7, <1>8, <1>13, <2>1, <2>2, ProcessesFrame DEF Sessions
<1>19. Backed'
  <2>1. \A m \in Ids : recv[m] = "half" => recv'[m] = "half" /\ peer'[m] = peer[m]
    BY <1>1, <1>7, <1>9
  <2> QED BY <1>7, <1>8, <2>1, BackedFrame
<1>s. SpawnsStay /\ Spawns'
  <2>1. SpawnsStay
    BY <1>10, SpawnsStayFacts
  <2> QED BY <2>1, <1>7, <1>8, <1>13, SpawnsFrame
<1>20. Order'
  <2>1. \A m \in Ids : Live(m)' => Live(m)
    BY <1>1, <1>7, <1>10, <1>12 DEF Live, Restarting
  <2>2. \A u \in Threads : \A d : Making(u, d)' => Making(u, d)
    BY <1>10 DEF Making
  <2>3. \A m \in Ids : thread[m].stage \in Freed => thread'[m].stage \in Freed
    BY <1>10, <1>1, <1>12 DEF Freed
  <2>4. remote' = remote /\ \A m \in Ids : sess'[m].count \in {0, sess[m].count}
    BY <1>7, <1>8 DEF registryVars
  <2>5. \A m \in Ids : recv[m] = "half" => recv'[m] = "half" /\ peer'[m] = peer[m]
    BY <1>1, <1>7, <1>9
  <2>6. \A m \in Ids : peer[m] # Lost => peer'[m] = peer[m]
    BY <1>1, <1>9
  <2> QED BY <1>7, <1>8, <1>s, <2>1, <2>2, <2>3, <2>4, <2>5, <2>6, OrderFrame
<1> QED BY <1>11, <1>14, <1>15, <1>16, <1>17, <1>s, <1>18, <1>19, <1>20 DEF Core

LEMMA WireStep ==
  ASSUME Ready, NEW t \in Threads, Wire(t)
  PROVE  TypeOK' /\ Core' /\ Order'
<1> DEFINE n == thread[t].ses
           old == IF t = Main THEN Lost ELSE Deref(t)
           w == [sess[n] EXCEPT !.health = TRUE]
           wired == [sess EXCEPT ![n] = w]
<1>1. /\ thread[t].stage = "wire" /\ n \in Ids /\ n \in Sessions /\ recv[n] = "off"
      /\ peer[n] # Lost /\ sess[n].client
  <2>1. thread[t].stage = "wire" /\ Deref(n) = n /\ sess[n].client
    BY DEF Wire, At
  <2>2. n # Lost /\ recv[n] = "off" /\ peer[n] # Lost
    BY <2>1 DEF Ready, Core, Starts, Starting
  <2> QED BY <2>1, <2>2, DerefType, Typed DEF Ready
<1>2. old = Lost \/ old \in Ids
  BY DerefType, Typed DEF Ready
<1>3. sess[n] \in Session /\ sess \in [Ids -> Session]
  BY <1>1, Typed2 DEF Ready
<1>4. w \in Session /\ w.dir = sess[n].dir /\ w.runtime = sess[n].runtime
      /\ w.client = sess[n].client /\ w.launcher = sess[n].launcher /\ w.count = sess[n].count
  <2> HIDE DEF n
  <2> QED BY <1>3 DEF Session
<1>5. sess' = IF old = Lost THEN wired ELSE [wired EXCEPT ![old].count = 0]
  BY DEF Wire
<1>6. recv' = [recv EXCEPT ![n] = "idle"] /\ Finish(t)
  BY DEF Wire
<1>7. /\ UNCHANGED <<vec, buf, cap, made, ptr, peer, conn, child, waiting, bound, proc, todo, handles, loaded, shut, faults>>
      /\ UNCHANGED registryVars
  BY DEF Wire, pluginVars, peerVars, vectorVars
<1> HIDE DEF n, old, w
<1>8. /\ wired \in [Ids -> Session]
      /\ \A m \in Ids : /\ wired[m].dir = sess[m].dir /\ wired[m].runtime = sess[m].runtime
                        /\ wired[m].client = sess[m].client /\ wired[m].launcher = sess[m].launcher
                        /\ wired[m].count = sess[m].count
  BY <1>1, <1>3, <1>4
<1> HIDE DEF wired
<1>9. /\ SameKin /\ sess' \in [Ids -> Session]
      /\ \A m \in Ids : /\ sess'[m].client = sess[m].client /\ sess'[m].launcher = sess[m].launcher
                        /\ sess'[m].count \in {0, sess[m].count}
  <2>1. CASE old = Lost
    BY <2>1, <1>5, <1>8 DEF SameKin
  <2>2. CASE old \in Ids
    <3> DEFINE z == [wired[old] EXCEPT !.count = 0]
    <3>1. z \in Session /\ z.dir = wired[old].dir /\ z.runtime = wired[old].runtime
          /\ z.client = wired[old].client /\ z.launcher = wired[old].launcher /\ z.count = 0
      BY <2>2, <1>8 DEF Session
    <3>2. sess' = [wired EXCEPT ![old] = z]
      BY <2>2, <1>5, Typed DEF Ready
    <3> HIDE DEF z
    <3> QED BY <3>1, <3>2, <2>2, <1>8 DEF SameKin
  <2> QED BY <1>2, <2>1, <2>2
<1>10. /\ thread' \in [Threads -> Thread] /\ thread'[t].stage = "off" /\ thread'[t].ses = Lost
       /\ \A u \in Threads : u # t => thread'[u] = thread[u]
  BY <1>6, FinishFacts, Typed DEF Ready
<1>11. /\ recv' \in [Ids -> {"off", "idle", "half", "done"}] /\ recv'[n] = "idle"
       /\ \A m \in Ids : m # n => recv'[m] = recv[m]
  BY <1>1, <1>6 DEF Ready, TypeOK
<1>12. TypeOK'
  BY <1>7, <1>9, <1>10, <1>11 DEF Ready, TypeOK, Thread, RegistryTypeOK, registryVars
<1>13. Ids \subseteq Threads /\ Main \in Threads
  BY Typed DEF Ready
<1>b. /\ Receivers /\ Starts /\ Processes /\ SameKin
      /\ peer \in [Ids -> {Lost} \cup Ids]
      /\ \A u \in Threads : thread[u].ses = Lost \/ thread[u].ses \in Ids
  BY Typed, Typed2, <1>9 DEF Ready, Core
<1>14. Named'
  <2>1. \A u \in Threads : thread'[u].ses \in {Lost, thread[u].ses}
    BY <1>10
  <2>2. \A m \in Ids : thread[m].stage = "off" /\ m \notin waiting => thread'[m].stage = "off"
    BY <1>10, <1>13
  <2>3. \A m \in Ids : recv'[m] # "off" => recv[m] # "off" \/ m \in Sessions
    BY <1>1, <1>11
  <2> QED BY <1>7, <2>1, <2>2, <2>3, NamedFrame
<1>15. SameRuntime'
  BY <1>7, <1>9, SameRuntimeFrame
<1>16. Receivers'
  <2>1. Sessions' = Sessions
    BY <1>7 DEF Sessions
  <2>2. ASSUME NEW m \in Ids, recv'[m] # "off"
        PROVE  /\ m \in Sessions' /\ peer'[m] # Lost
               /\ recv'[m] = "half" => sess'[m].client /\ sess'[peer'[m]].dir # NoDir
    <3>1. CASE m = n
      BY <3>1, <2>1, <1>1, <1>7, <1>11
    <3>2. CASE m # n
      BY <3>2, <2>1, <2>2, <1>7, <1>9, <1>11, <1>b DEF Receivers, SameKin
    <3> QED BY <3>1, <3>2
  <2> QED BY <2>2 DEF Receivers
<1>17. Starts'
  <2>1. ASSUME NEW u \in Threads, thread'[u].stage \in Starting
        PROVE  /\ u # t /\ thread'[u] = thread[u] /\ thread[u].ses # n
    <3>1. u # t
      BY <2>1, <1>10 DEF Starting
    <3> QED BY <3>1, <2>1, <1>1, <1>10, <1>b DEF Starts, Starting, n
  <2>2. ASSUME NEW u \in Threads, thread'[u].stage \in Starting
        PROVE  /\ thread'[u].ses # Lost /\ recv'[thread'[u].ses] = "off"
               /\ thread'[u].stage = "wire" <=> peer'[thread'[u].ses] # Lost
    BY <2>1, <2>2, <1>7, <1>11, <1>b DEF Starts
  <2>3. \A u, v \in Threads :
          thread'[u].stage \in Starting /\ thread'[v].stage \in Starting /\ u # v
              => thread'[u].ses # thread'[v].ses
    BY <2>1, <1>b DEF Starts
  <2> QED BY <2>2, <2>3 DEF Starts
<1>18. Processes'
  <2>1. thread'[Main].stage \notin Restarting
    BY <1>10, <1>13, <1>b DEF Processes, Restarting
  <2>2. \A m \in Ids : child[m] = "up" => m \in waiting
    BY <1>b DEF Processes
  <2>3. \A m \in Ids : thread[m].stage = "off" => thread'[m].stage = "off" \/ m \notin waiting'
    BY <1>10, <1>13
  <2> QED BY <1>7, <1>9, <2>1, <2>2, <2>3, ProcessesFrame DEF Sessions
<1>19. Backed'
  <2>1. \A m \in Ids : recv[m] = "half" => recv'[m] = "half" /\ peer'[m] = peer[m]
    BY <1>1, <1>7, <1>11
  <2> QED BY <1>7, <1>9, <2>1, BackedFrame
<1>s. SpawnsStay /\ Spawns'
  <2>1. SpawnsStay
    BY <1>10, SpawnsStayFacts
  <2>2. \A m \in Ids : thread[m].stage = "off" /\ m \notin waiting => thread'[m].stage = "off"
    BY <1>10, <1>13
  <2> QED BY <2>1, <2>2, <1>7, <1>9, SpawnsFrame
<1>20. Order'
  <2>1. \A m \in Ids : Live(m)' => Live(m)
    BY <1>1, <1>7, <1>10, <1>13 DEF Live, Restarting
  <2>2. \A u \in Threads : \A d : Making(u, d)' => Making(u, d)
    BY <1>10 DEF Making
  <2>3. \A m \in Ids : thread[m].stage \in Freed => thread'[m].stage \in Freed
    BY <1>10, <1>1, <1>13 DEF Freed
  <2>4. remote' = remote /\ \A m \in Ids : sess'[m].count \in {0, sess[m].count}
    BY <1>7, <1>9 DEF registryVars
  <2>5. \A m \in Ids : recv[m] = "half" => recv'[m] = "half" /\ peer'[m] = peer[m]
    BY <1>1, <1>7, <1>11
  <2> QED BY <1>7, <1>9, <1>s, <2>1, <2>2, <2>3, <2>4, <2>5, OrderFrame
<1> QED BY <1>12, <1>14, <1>15, <1>16, <1>17, <1>s, <1>18, <1>19, <1>20 DEF Core

LEMMA StartFailsStep ==
  ASSUME Ready, NEW t \in Threads, StartFails(t)
  PROVE  TypeOK' /\ Core' /\ Order'
<1> DEFINE n == thread[t].ses
           s == Deref(n)
           last == Last(vec)
           S == WithProcess({s, last})
           idle == [sess[s] EXCEPT !.launcher = "idle"]
           empty == Empty(sess[last].dir, sess[last].runtime)
<1>1. thread[t].stage \in {"spawn", "listen", "accept"} /\ s # Lost /\ Stopped(S) /\ CanClose(last, child')
  BY DEF StartFails
<1>2. s \in Ids /\ s \in Sessions /\ vec # <<>> /\ vec \in Seq(Ids)
  BY <1>1, DerefType, Typed DEF Ready
<1>3. /\ vec' = Front(vec) /\ vec' \in Seq(Ids) /\ Len(vec') = Len(vec) - 1 /\ Len(vec) \in Nat
      /\ last \in Ids /\ last \in Sessions
      /\ Sessions' \subseteq Sessions /\ \A x \in Sessions : x = last \/ x \in Sessions'
  <2>1. vec' = Front(vec)
    BY Zenon DEF StartFails
  <2>2. Sessions = ToSet(vec) /\ Sessions' = ToSet(Front(vec))
    BY <2>1, Zenon DEF Sessions
  <2>3. /\ Front(vec) \in Seq(Ids) /\ Len(Front(vec)) = Len(vec) - 1
        /\ last \in ToSet(vec) /\ last \in Ids
        /\ ToSet(Front(vec)) \subseteq ToSet(vec)
        /\ \A x \in ToSet(vec) : x = last \/ x \in ToSet(Front(vec))
    BY <1>2, FrontFacts, Zenon
  <2>4. Len(vec) \in Nat
    BY <1>2
  <2> QED
    BY <2>1, <2>2, <2>3, <2>4, Zenon
<1>4. sess' = [sess EXCEPT ![s].launcher = "idle", ![last] = empty]
  BY DEF StartFails
<1>5. recv' = [recv EXCEPT ![last] = "off"] /\ Finish(t) /\ Unlinked(sess[last].runtime)
  BY DEF StartFails
<1>6. /\ UNCHANGED <<buf, cap, made, ptr, peer, conn, waiting, proc, todo, handles, loaded, shut>>
      /\ UNCHANGED registryVars
  BY DEF StartFails, pluginVars, peerVars
<1>7. faults' \in 0 .. MaxFaults
  BY FaultType DEF StartFails, Ready, TypeOK
<1>8. S = {m \in {s, last} : sess[m].launcher = "pid"} /\ S \subseteq Ids
  BY <1>2, <1>3 DEF WithProcess
<1> HIDE DEF n, s, last, S, idle, empty
<1>9. /\ child' \in [Ids -> {"up", "crashed", "clean"}]
      /\ \A m \in Ids : m \notin S => child'[m] = child[m]
      /\ \A m \in S : child'[m] # "up"
  BY <1>1, <1>8, StoppedFacts, Typed2 DEF Ready
<1>10. /\ SameKin /\ sess' \in [Ids -> Session]
       /\ \A m \in Ids : m # last => sess'[m].client = sess[m].client
       /\ \A m \in Ids : m \notin {s, last} => sess'[m].launcher = sess[m].launcher
  <2>1. sess \in [Ids -> Session] /\ sess[s] \in Session /\ sess[last] \in Session
    BY <1>2, <1>3, Typed2 DEF Ready
  <2>2. /\ idle \in Session /\ idle.dir = sess[s].dir /\ idle.runtime = sess[s].runtime
        /\ idle.client = sess[s].client
    BY <2>1 DEF Session, idle
  <2>3. /\ empty \in Session /\ empty.dir = sess[last].dir /\ empty.runtime = sess[last].runtime
    <3>1. sess[last].dir \in DirNames /\ sess[last].runtime \in Runtimes
      BY <2>1, SessionFields
    <3> QED BY <3>1, EmptyType DEF empty
  <2>4. sess' = [[sess EXCEPT ![s] = idle] EXCEPT ![last] = empty]
    BY <1>4 DEF idle
  <2> QED BY <1>2, <1>3, <2>1, <2>2, <2>3, <2>4 DEF SameKin
<1>11. /\ thread' \in [Threads -> Thread] /\ thread'[t].stage = "off" /\ thread'[t].ses = Lost
       /\ \A u \in Threads : u # t => thread'[u] = thread[u]
  BY <1>5, FinishFacts, Typed DEF Ready
<1>12. /\ recv' \in [Ids -> {"off", "idle", "half", "done"}] /\ recv'[last] = "off"
       /\ \A m \in Ids : m # last => recv'[m] = recv[m]
  BY <1>3, <1>5 DEF Ready, TypeOK
<1>13. /\ bound' \in [Runtimes -> {Lost} \cup Ids]
       /\ \A rt \in Runtimes : bound'[rt] \in {Lost, bound[rt]}
  <2>1. sess[last].runtime \in Runtimes
    BY <1>3, Typed2, SessionFields DEF Ready
  <2> QED BY <2>1, <1>5, Typed2 DEF Unlinked, Ready
<1>14. recv[last] # "half"
  BY <1>1 DEF CanClose
<1>15. TypeOK'
  BY <1>3, <1>6, <1>7, <1>9, <1>10, <1>11, <1>12, <1>13
     DEF Ready, TypeOK, Thread, RegistryTypeOK, registryVars
<1>16. Ids \subseteq Threads /\ Main \in Threads
  BY Typed DEF Ready
<1>b. /\ Receivers /\ Starts /\ Processes /\ SameKin
      /\ peer \in [Ids -> {Lost} \cup Ids] /\ waiting \subseteq Ids
      /\ \A u \in Threads : thread[u].ses = Lost \/ thread[u].ses \in Ids
  BY Typed, Typed2, <1>10 DEF Ready, Core
<1>17. Named'
  <2>1. \A u \in Threads : thread'[u].ses \in {Lost, thread[u].ses}
    BY <1>11
  <2>2. \A m \in Ids : thread[m].stage = "off" /\ m \notin waiting => thread'[m].stage = "off"
    BY <1>11, <1>16
  <2>3. \A m \in Ids : recv'[m] # "off" => recv[m] # "off" \/ m \in Sessions
    BY <1>12
  <2>4. \A m \in Ids : child'[m] = "up" => child[m] = "up"
    BY <1>9
  <2>5. Len(vec)' \in Nat /\ Len(vec)' <= Len(vec)
    <3>1. Len(vec') \in Nat
      BY <1>3, LenProperties
    <3> QED BY <3>1, <1>3
  <2> QED BY <1>3, <1>6, <1>13, <2>1, <2>2, <2>3, <2>4, <2>5, NamedShrinks
<1>18. SameRuntime'
  BY <1>6, <1>10, <1>13, SameRuntimeFrame
<1>19. Receivers'
  <2>1. \A m \in Ids : recv'[m] # "off" =>
            /\ recv[m] # "off" /\ peer'[m] = peer[m] /\ m \in Sessions'
            /\ recv'[m] = "half" => recv[m] = "half" /\ sess'[m].client
    BY <1>3, <1>6, <1>10, <1>12, <1>b DEF Receivers
  <2> QED BY <1>10, <2>1, ReceiversFrame
<1>20. Starts'
  <2>1. \A u \in Threads : thread'[u].stage \in Starting =>
            /\ thread[u].stage \in Starting /\ thread'[u].ses = thread[u].ses
            /\ thread'[u].stage = "wire" <=> thread[u].stage = "wire"
    BY <1>11 DEF Starting
  <2>2. \A m \in Ids : recv[m] = "off" => recv'[m] = "off"
    BY <1>12
  <2> QED BY <1>6, <2>1, <2>2, StartsFrame
<1>21. Processes'
  <2>1. thread'[Main].stage \notin Restarting
    BY <1>11, <1>16, <1>b DEF Processes, Restarting
  <2>2. ASSUME NEW m \in Ids, child'[m] = "up"
        PROVE  m \in Sessions' /\ sess'[m].launcher = "pid" /\ m \in waiting'
    <3>1. m \notin S /\ child[m] = "up"
      BY <2>2, <1>9
    <3>2. m \in Sessions /\ sess[m].launcher = "pid" /\ m \in waiting
      BY <3>1, <1>b DEF Processes
    <3>3. m \notin {s, last}
      BY <3>1, <3>2, <1>8
    <3> QED BY <3>2, <3>3, <1>3, <1>6, <1>10
  <2>3. \A m \in waiting : thread'[m].stage = "off"
    BY <1>11, <1>16, <1>b DEF Processes
  <2> QED BY <1>6, <2>1, <2>2, <2>3 DEF Processes
<1>22. Backed'
  <2>1. \A m \in Ids : recv[m] = "half" => recv'[m] = "half" /\ peer'[m] = peer[m]
    BY <1>6, <1>12, <1>14
  <2> QED BY <1>6, <1>10, <2>1, BackedFrame
<1>s. Spawns'
  <2>1. SpawnsStay
    BY <1>11, SpawnsStayFacts
  <2>2. \A m \in Ids : thread[m].stage = "off" /\ m \notin waiting => thread'[m].stage = "off"
    BY <1>11, <1>16
  <2>3. \A m \in Ids : child'[m] = "up" => child[m] = "up"
    BY <1>9
  <2> QED BY <2>1, <2>2, <2>3, <1>6, <1>10, SpawnsFrame
<1>23. Order'
  <2>1. Len(vec') # made'
    <3>1. Len(vec) <= made /\ made \in Nat
      BY Typed DEF Ready, Core, Named
    <3> QED BY <3>1, <1>3, <1>6
  <2> QED BY <2>1 DEF Order, NoneDropped
<1> QED BY <1>15, <1>17, <1>18, <1>19, <1>20, <1>s, <1>21, <1>22, <1>23 DEF Core
-----------------------------------------------------------------------------
(* The processes, and what a session's threads do *)

LEMMA ConnectStep ==
  ASSUME Ready, NEW c \in Ids, Connect(c)
  PROVE  TypeOK' /\ Core' /\ Order'
<1> DEFINE rt == sess[c].runtime
           n == bound[rt]
<1>1. rt \in Runtimes
  BY Typed2, SessionFields DEF Ready
<1>2. n # Lost /\ n \in Ids /\ child[c] = "up" /\ conn' = [conn EXCEPT ![c] = n]
  BY <1>1, Typed2 DEF Connect, Ready
<1>3. /\ UNCHANGED <<vec, buf, cap, made, ptr, peer, sess, child, waiting, recv, thread, bound, proc, todo, handles, loaded, shut, faults>>
      /\ UNCHANGED registryVars
  BY DEF Connect, pluginVars, vectorVars
<1>b. /\ Named /\ SameRuntime /\ conn \in [Ids -> {Lost} \cup Ids]
      /\ sess[n].runtime = rt /\ n <= made
  BY <1>1, <1>2, Typed2 DEF Ready, Core, Named, SameRuntime
<1> HIDE DEF n, rt
<1>4. /\ conn' \in [Ids -> {Lost} \cup Ids] /\ conn'[c] = n
      /\ \A m \in Ids : m # c => conn'[m] = conn[m]
  BY <1>2, <1>b
<1>5. TypeOK'
  BY <1>3, <1>4 DEF Ready, TypeOK, RegistryTypeOK, registryVars
<1>6. Named'
  <2>1. \A m \in Ids : conn'[m] <= made
    BY <1>4, <1>b DEF Named
  <2>2. \A m \in Ids : m > made => m # c
    BY <1>2, <1>b DEF Named
  <2> QED BY <2>1, <2>2, <1>3, <1>4, <1>b DEF Named, Sessions
<1>7. SameRuntime'
  BY <1>3, <1>4, <1>b DEF SameRuntime, rt
<1>8. Receivers' /\ Starts' /\ Spawns' /\ Processes' /\ Backed'
  BY <1>3 DEF Ready, Core, Receivers, Starts, Spawns, Unspawned, Processes, Backed, Sessions, RecordedLib, Recorded,
     HalfAnnounced, registryVars
<1>9. Order'
  <2>1. \A m \in Ids : Live(m)' => Live(m)
    BY <1>3 DEF Live
  <2>2. \A u \in Threads : \A d : Making(u, d)' => Making(u, d)
    BY <1>3 DEF Making
  <2>3. remote' = remote /\ todo'.dirs = todo.dirs /\ sess' \in [Ids -> Session]
    BY <1>3, Typed2 DEF registryVars, Ready
  <2> QED BY <1>3, <2>1, <2>2, <2>3, SameSess, SpawnsStaySame, OrderFrame
<1> QED BY <1>5, <1>6, <1>7, <1>8, <1>9 DEF Core

\* A step that only ends processes, and changes launchers of those it ended.
LEMMA EndingStep ==
  ASSUME Ready, SameKin, sess' \in [Ids -> Session],
         \A n \in Ids : sess'[n].client = sess[n].client /\ sess'[n].count = sess[n].count,
         child' \in [Ids -> {"up", "crashed", "clean"}],
         \A n \in Ids : child'[n] = "up" => child[n] = "up" /\ sess'[n].launcher = sess[n].launcher,
         \A n \in Ids : child'[n] = "crashed" => child[n] # "clean",
         UNCHANGED <<vec, buf, cap, made, ptr, peer, conn, waiting, recv, thread, bound, todo, handles, loaded>>,
         UNCHANGED registryVars
  PROVE  Core' /\ Order'
<1>1. Named'
  BY NamedFrame
<1>2. SameRuntime'
  BY SameRuntimeFrame
<1>3. Receivers'
  <2>1. \A m \in Ids : recv'[m] # "off" =>
            /\ recv[m] # "off" /\ peer'[m] = peer[m] /\ m \in Sessions'
            /\ recv'[m] = "half" => recv[m] = "half" /\ sess'[m].client
    BY DEF Ready, Core, Receivers, Sessions
  <2> QED BY <2>1, ReceiversFrame
<1>4. Starts'
  BY StartsFrame
<1>s. SpawnsStay /\ Spawns'
  <2>1. SpawnsStay
    BY SpawnsStaySame
  <2> QED BY <2>1, SpawnsFrame
<1>5. Processes'
  <2>1. thread'[Main].stage \notin Restarting
    BY DEF Ready, Core, Processes
  <2>2. \A m \in Ids : child[m] = "up" => m \in waiting'
    BY DEF Ready, Core, Processes
  <2> QED BY <2>1, <2>2, ProcessesFrame DEF Sessions
<1>6. Backed'
  BY BackedFrame
<1>7. Order'
  <2>1. \A m \in Ids : Live(m)' => Live(m)
    BY Typed2 DEF Live, Ready
  <2>2. \A u \in Threads : \A d : Making(u, d)' => Making(u, d)
    BY DEF Making
  <2>3. remote' = remote
    BY DEF registryVars
  <2> QED BY <1>s, <2>1, <2>2, <2>3, OrderFrame
<1> QED BY <1>1, <1>2, <1>3, <1>4, <1>s, <1>5, <1>6, <1>7 DEF Core

LEMMA EndStep ==
  ASSUME Ready, NEW c \in Ids, End(c)
  PROVE  TypeOK' /\ Core' /\ Order'
<1>1. PICK how \in {"crashed", "clean"} : child' = [child EXCEPT ![c] = how]
  BY DEF End
<1>2. /\ UNCHANGED <<vec, buf, cap, made, ptr, peer, conn, sess, waiting, recv, thread, bound, proc, todo, handles, loaded, shut>>
      /\ UNCHANGED registryVars
  BY DEF End, pluginVars, vectorVars, peerVars
<1>3. /\ child' \in [Ids -> {"up", "crashed", "clean"}]
      /\ \A m \in Ids : child'[m] = "up" => child[m] = "up"
      /\ \A m \in Ids : child'[m] = "crashed" => child[m] # "clean"
  <2>1. child[c] = "up"
    BY DEF End
  <2> QED BY <2>1, <1>1, Typed2 DEF Ready
<1>4. faults' \in 0 .. MaxFaults
  BY FaultType DEF End, Ready
<1>5. TypeOK'
  BY <1>2, <1>3, <1>4 DEF Ready, TypeOK, RegistryTypeOK, registryVars
<1>6. SameKin /\ sess' \in [Ids -> Session]
  BY <1>2, SameSess, Typed2 DEF Ready
<1> QED BY <1>2, <1>3, <1>5, <1>6, EndingStep

LEMMA AnnounceStep ==
  ASSUME Ready, NEW n \in Ids, Announce(n)
  PROVE  TypeOK' /\ Core' /\ Order'
<1> DEFINE s == Deref(n)
           d == sess[peer[n]].dir
           via == IF s # Lost /\ sess[s].client THEN s ELSE Lost
           e == [name |-> <<d, Tool>>, via |-> via]
<1>1. recv[n] = "idle" /\ sess[n].client /\ d # NoDir /\ RegisterRemote(e)
  BY DEF Announce
<1>2. recv' = [recv EXCEPT ![n] = "half"]
  BY DEF Announce
<1>3. /\ UNCHANGED <<vec, buf, cap, made, ptr, peer, conn, sess, child, waiting, thread, bound, proc, todo, handles, loaded, shut, faults>>
  BY DEF Announce, pluginVars, vectorVars, peerVars
<1>4. peer[n] \in Ids /\ sess[peer[n]] \in Session
  BY <1>1, Typed2 DEF Ready, Core, Receivers
<1>5. via \in Vias
  <2>1. s = Lost \/ s \in Ids
    BY DerefType, Typed DEF Ready
  <2> QED BY <2>1, LifecycleAssumption
<1>6. d \in Plugins
  <2>1. d \in DirNames
    BY <1>4, SessionFields
  <2> QED BY <1>1, <2>1, LifecycleAssumption DEF DirNames
<1> HIDE DEF via, d, s
<1>7. e \in Entry /\ e.name[1] = d
  BY <1>5, <1>6, LifecycleAssumption DEF Entry, Qualified
<1> HIDE DEF e
<1>8. /\ entries' = entries /\ remote' \in Seq(Entry) /\ ToSet(remote') = ToSet(remote) \cup {e}
      /\ RegistryTypeOK'
  <2>1. remote \in Seq(Entry) /\ entries \in Seq(Entry)
    BY DEF Ready, TypeOK, RegistryTypeOK
  <2>2. entries' = entries /\ remote' = Append(remote, e) /\ Rebuild
    BY <1>1 DEF RegisterRemote
  <2>3. remote' \in Seq(Entry) /\ ToSet(remote') = ToSet(remote) \cup {e}
    BY <2>1, <2>2, <1>7, ToSetAppend
  <2>4. RegistryInv'
    BY <2>1, <2>2, <2>3, RebuildInv
  <2> QED BY <2>2, <2>3, <2>4 DEF RegistryInv
<1>9. /\ recv' \in [Ids -> {"off", "idle", "half", "done"}] /\ recv'[n] = "half"
      /\ \A m \in Ids : m # n => recv'[m] = recv[m]
  BY <1>2, Typed2 DEF Ready
<1>10. TypeOK'
  BY <1>3, <1>8, <1>9 DEF Ready, TypeOK
<1>b. Receivers /\ Starts /\ Processes /\ Backed /\ peer \in [Ids -> {Lost} \cup Ids]
  BY Typed2 DEF Ready, Core
<1>11. Named'
  <2>1. \A m \in Ids : recv'[m] # "off" => recv[m] # "off" \/ m \in Sessions
    BY <1>1, <1>9
  <2> QED BY <1>3, <2>1, NamedFrame
<1>12. SameRuntime'
  BY <1>3, SameSess, SameRuntimeFrame
<1>13. Receivers'
  <2>1. Sessions' = Sessions
    BY <1>3 DEF Sessions
  <2>2. ASSUME NEW m \in Ids, recv'[m] # "off"
        PROVE  /\ m \in Sessions' /\ peer'[m] # Lost
               /\ recv'[m] = "half" => sess'[m].client /\ sess'[peer'[m]].dir # NoDir
    <3>1. recv[m] # "off"
      BY <2>2, <1>1, <1>9
    <3>2. CASE m = n
      BY <3>1, <3>2, <2>1, <1>1, <1>3, <1>b DEF Receivers, d
    <3>3. CASE m # n
      BY <3>1, <3>3, <2>1, <2>2, <1>3, <1>9, <1>b DEF Receivers
    <3> QED BY <3>2, <3>3
  <2> QED BY <2>2 DEF Receivers
<1>14. Starts'
  <2>1. \A m \in Ids : recv[m] = "off" => recv'[m] = "off"
    BY <1>1, <1>9
  <2> QED BY <1>3, <2>1, StartsFrame
<1>s. SpawnsStay /\ Spawns'
  <2>1. SpawnsStay
    BY <1>3, SpawnsStaySame
  <2> QED BY <2>1, <1>3, SameSess, SpawnsFrame
<1>15. Processes'
  BY <1>3, <1>b DEF Processes, Sessions
<1>16. Backed'
  <2>1. \A q : HalfAnnounced(q) => HalfAnnounced(q)'
    BY <1>1, <1>3, <1>9 DEF HalfAnnounced
  <2>2. \A q : q = d => HalfAnnounced(q)'
    BY <1>3, <1>9 DEF HalfAnnounced, d
  <2>3. \A x \in ToSet(remote') : Recorded(x.name[1])' \/ HalfAnnounced(x.name[1])'
    <3>1. ASSUME NEW x \in ToSet(remote) PROVE Recorded(x.name[1])' \/ HalfAnnounced(x.name[1])'
      <4>1. Recorded(x.name[1]) \/ HalfAnnounced(x.name[1])
        BY <1>b DEF Backed
      <4>2. Recorded(x.name[1]) => Recorded(x.name[1])'
        BY <1>3 DEF Recorded
      <4> QED BY <2>1, <4>1, <4>2
    <3>2. \A x : x = e => HalfAnnounced(x.name[1])'
      BY <1>7, <2>2
    <3> QED BY <1>8, <3>1, <3>2
  <2> QED BY <1>3, <1>8, <1>b, <2>3 DEF Backed, RecordedLib
<1>17. ASSUME NoneDropped, Orderly PROVE Orderly'
  <2>1. Placed /\ Owned /\ Stale /\ Counts /\ Claims
    BY <1>17 DEF Orderly
  <2>2. Placed' /\ Counts'
    BY <1>3, <2>1 DEF Placed, Counts
  <2>p. \A q : MovedFrom(q) => MovedFrom(q)'
    BY <1>3 DEF MovedFrom
  <2>q. ASSUME via = Lost PROVE MovedFrom(d)
    <3>1. s = n \/ s = Lost
      <4>1. Named
        BY DEF Ready, Core
      <4> QED BY <4>1, <2>1, <1>17, DerefPlaced DEF Ready, s
    <3>2. Deref(n) = Lost
      BY <2>q, <3>1, <1>1, Typed DEF via, s, Ready
    <3>3. n <= made /\ n \in 1 .. made
      <4>1. n \in Sessions
        BY <1>1, <1>b DEF Receivers
      <4> QED BY <4>1, Typed DEF Ready, Core, Named, Ids
    <3>4. ptr[n].idx \in DOMAIN vec
      <4>1. DOMAIN vec = 1 .. made
        BY <1>17, Typed DEF Ready, NoneDropped
      <4>2. ptr[n].idx = n
        BY <3>3, <2>1 DEF Placed
      <4> QED BY <4>1, <4>2, <3>3
    <3>5. ptr[n].buf # buf
      <4>1. vec[ptr[n].idx] \in Ids
        BY <3>4, Typed DEF Ready
      <4> QED BY <3>2, <3>4, <4>1, Typed DEF Deref, Ready
    <3>6. ptr[n].buf < buf
      <4>1. ptr[n].buf \in Nat /\ buf \in Nat /\ ptr[n].buf <= buf
        BY <2>1, Typed2 DEF Placed, Ready, TypeOK
      <4> QED BY <3>5, <4>1
    <3>7. peer[n] # Lost
      BY <1>4, Typed DEF Ready
    <3> QED BY <3>6, <3>7 DEF MovedFrom, d
  <2>s. Stale'
    <3>1. \A x \in ToSet(remote) : x.via = Lost => MovedFrom(x.name[1])'
      BY <2>1, <2>p DEF Stale
    <3>2. \A x : x = e /\ x.via = Lost => MovedFrom(x.name[1])
      <4>1. e.via = via
        BY DEF e
      <4> QED BY <4>1, <2>q, <1>7
    <3> QED BY <3>1, <3>2, <2>p, <1>8 DEF Stale
  <2>3. Claims'
    <3>1. \A m \in Ids : Live(m)' => Live(m)
      BY <1>3 DEF Live
    <3>2. \A u \in Threads : \A q : Making(u, q)' => Making(u, q)
      BY <1>3 DEF Making
    <3>3. todo'.dirs = todo.dirs
      BY <1>3
    <3> QED BY <1>3, <2>1, <3>1, <3>2, <3>3, SameSess, ClaimsFrame
  <2>4. ToSet(remote) \subseteq Entry
    BY ToSetFacts DEF Ready, TypeOK, RegistryTypeOK
  <2>5. ASSUME NEW x \in ToSet(remote), x.via # Lost
        PROVE  /\ x.via <= made'
               /\ sess'[x.via].client \/ thread'[x.via].stage \in Freed
               /\ RecordedFor(x)' \/ HalfFor(x)'
    <3>1. /\ x.via \in Ids /\ x.via <= made
          /\ sess[x.via].client \/ thread[x.via].stage \in Freed
          /\ RecordedFor(x) \/ HalfFor(x)
      BY <2>1, <2>4, <2>5, LifecycleAssumption DEF Owned, Entry
    <3>2. RecordedFor(x) => RecordedFor(x)'
      BY <1>3 DEF RecordedFor
    <3>3. HalfFor(x) => HalfFor(x)'
      BY <1>1, <1>3, <1>9, <3>1 DEF HalfFor
    <3> QED BY <3>1, <3>2, <3>3, <1>3
  <2>6. \A x : x = e /\ x.via # Lost =>
               /\ x.via <= made'
               /\ sess'[x.via].client \/ thread'[x.via].stage \in Freed
               /\ RecordedFor(x)' \/ HalfFor(x)'
    <3>1. SUFFICES ASSUME e.via # Lost, NEW x, x = e
                   PROVE  /\ x.via <= made'
                          /\ sess'[x.via].client \/ thread'[x.via].stage \in Freed
                          /\ HalfFor(x)'
      OBVIOUS
    <3>2. e.via = via
      BY DEF e
    <3>3. via = n
      <4>1. s = n \/ s = Lost
        <5>1. Named
          BY DEF Ready, Core
        <5> QED BY <5>1, <2>1, <1>17, DerefPlaced DEF Ready, s
      <4> QED BY <4>1, <3>1, <3>2 DEF via
    <3>4. n <= made
      <4>1. n \in Sessions
        BY <1>1, <1>b DEF Receivers
      <4> QED BY <4>1 DEF Ready, Core, Named
    <3>5. \A q : q = d => sess'[peer'[n]].dir = q
      BY <1>3 DEF d
    <3>6. HalfFor(x)'
      BY <3>1, <3>2, <3>3, <3>5, <1>7, <1>9 DEF HalfFor
    <3> QED BY <3>1, <3>2, <3>3, <3>4, <3>6, <1>1, <1>3
  <2>7. Owned'
    BY <1>8, <2>5, <2>6 DEF Owned
  <2> QED BY <2>2, <2>3, <2>s, <2>7 DEF Orderly
<1>18. Order'
  BY <1>3, <1>17 DEF Ready, Order, NoneDropped
<1> QED BY <1>10, <1>11, <1>12, <1>13, <1>14, <1>s, <1>15, <1>16, <1>18 DEF Core

LEMMA PushStep ==
  ASSUME Ready, NEW n \in Ids, Push(n)
  PROVE  TypeOK' /\ Core' /\ Order'
<1> DEFINE c == peer[n]
           p == [plugin |-> sess[c].dir, runtime |-> sess[c].runtime, provider |-> FALSE]
<1>1. recv[n] = "half" /\ loaded' = Append(loaded, p) /\ recv' = [recv EXCEPT ![n] = "done"]
  BY DEF Push
<1>2. /\ UNCHANGED <<vec, buf, cap, made, ptr, peer, conn, sess, child, waiting, thread, bound, proc, todo, handles, shut, faults>>
      /\ UNCHANGED registryVars
  BY DEF Push, pluginVars, vectorVars, peerVars
<1>3. c \in Ids /\ sess[c] \in Session /\ sess[c].dir # NoDir
  BY <1>1, Typed2 DEF Ready, Core, Receivers
<1>4. sess[c].dir \in Plugins /\ sess[c].runtime \in Runtimes
  <2>1. sess[c].dir \in DirNames /\ sess[c].runtime \in Runtimes
    BY <1>3, SessionFields
  <2> QED BY <1>3, <2>1, LifecycleAssumption DEF DirNames
<1> HIDE DEF c
<1>5. p \in Plugin /\ p.plugin = sess[c].dir /\ p.runtime = sess[c].runtime /\ p.provider = FALSE
  BY <1>4 DEF Plugin
<1> HIDE DEF p
<1>6. loaded' \in Seq(Plugin) /\ ToSet(loaded') = ToSet(loaded) \cup {p}
  BY <1>1, <1>5, ToSetAppend DEF Ready, TypeOK
<1>7. /\ recv' \in [Ids -> {"off", "idle", "half", "done"}] /\ recv'[n] = "done"
      /\ \A m \in Ids : m # n => recv'[m] = recv[m]
  BY <1>1, Typed2 DEF Ready
<1>8. TypeOK'
  BY <1>2, <1>6, <1>7 DEF Ready, TypeOK, RegistryTypeOK, registryVars
<1>b. Receivers /\ Starts /\ Processes /\ Backed /\ peer \in [Ids -> {Lost} \cup Ids]
  BY Typed2 DEF Ready, Core
<1>9. Named'
  <2>1. \A m \in Ids : recv'[m] # "off" => recv[m] # "off" \/ m \in Sessions
    BY <1>1, <1>7
  <2> QED BY <1>2, <2>1, NamedFrame
<1>10. SameRuntime'
  BY <1>2, SameSess, SameRuntimeFrame
<1>11. Receivers'
  <2>1. Sessions' = Sessions
    BY <1>2 DEF Sessions
  <2>2. \A m \in Ids : recv'[m] # "off" =>
            /\ recv[m] # "off" /\ peer'[m] = peer[m] /\ m \in Sessions'
            /\ recv'[m] = "half" => recv[m] = "half" /\ sess'[m].client
    BY <2>1, <1>1, <1>2, <1>7, <1>b DEF Receivers
  <2> QED BY <1>2, <2>2, SameSess, ReceiversFrame
<1>12. Starts'
  <2>1. \A m \in Ids : recv[m] = "off" => recv'[m] = "off"
    BY <1>1, <1>7
  <2> QED BY <1>2, <2>1, StartsFrame
<1>s. SpawnsStay /\ Spawns'
  <2>1. SpawnsStay
    BY <1>2, SpawnsStaySame
  <2> QED BY <2>1, <1>2, SameSess, SpawnsFrame
<1>13. Processes'
  BY <1>2, <1>b DEF Processes, Sessions
<1>14. Backed'
  <2>1. \A q : Recorded(q) => Recorded(q)'
    BY <1>6 DEF Recorded
  <2>2. \A l : RecordedLib(l) => RecordedLib(l)'
    BY <1>6 DEF RecordedLib
  <2>3. \A q : HalfAnnounced(q) => HalfAnnounced(q)' \/ Recorded(q)'
    <3>1. SUFFICES ASSUME NEW q, HalfAnnounced(q) PROVE HalfAnnounced(q)' \/ Recorded(q)'
      OBVIOUS
    <3>2. PICK m \in Ids : recv[m] = "half" /\ sess[peer[m]].dir = q
      BY <3>1 DEF HalfAnnounced
    <3>3. CASE m = n
      BY <3>2, <3>3, <1>5, <1>6 DEF Recorded, c
    <3>4. CASE m # n
      BY <3>2, <3>4, <1>2, <1>7 DEF HalfAnnounced
    <3> QED BY <3>3, <3>4
  <2> QED BY <1>2, <1>b, <2>1, <2>2, <2>3 DEF Backed, registryVars
<1>15. ASSUME NoneDropped, Orderly PROVE Orderly'
  <2>1. Placed /\ Owned /\ Stale /\ Counts /\ Claims
    BY <1>15 DEF Orderly
  <2>2. Placed' /\ Counts'
    BY <1>2, <2>1 DEF Placed, Counts
  <2>s. Stale'
    BY <1>2, <2>1, SameSess, StaleFrame DEF registryVars
  <2>3. Claims'
    <3>1. \A m \in Ids : Live(m)' => Live(m)
      BY <1>2 DEF Live
    <3>2. \A u \in Threads : \A q : Making(u, q)' => Making(u, q)
      BY <1>2 DEF Making
    <3>3. todo'.dirs = todo.dirs
      BY <1>2
    <3> QED BY <1>2, <2>1, <3>1, <3>2, <3>3, SameSess, ClaimsFrame
  <2>4. ToSet(remote) \subseteq Entry
    BY ToSetFacts DEF Ready, TypeOK, RegistryTypeOK
  <2>5. ASSUME NEW x \in ToSet(remote), x.via # Lost
        PROVE  /\ x.via <= made'
               /\ sess'[x.via].client \/ thread'[x.via].stage \in Freed
               /\ RecordedFor(x)' \/ HalfFor(x)'
    <3>1. /\ x.via \in Ids /\ x.via <= made
          /\ sess[x.via].client \/ thread[x.via].stage \in Freed
          /\ RecordedFor(x) \/ HalfFor(x)
      BY <2>1, <2>4, <2>5, LifecycleAssumption DEF Owned, Entry
    <3>2. RecordedFor(x) => RecordedFor(x)'
      BY <1>2, <1>6 DEF RecordedFor
    <3>3. HalfFor(x) => HalfFor(x)' \/ RecordedFor(x)'
      <4>1. CASE x.via = n
        <5>1. sess[c].runtime = sess[n].runtime
          BY <1>3, Typed DEF Ready, Core, SameRuntime, c
        <5>2. HalfFor(x) => p.plugin = x.name[1]
          BY <4>1, <1>5 DEF HalfFor, c
        <5>3. p \in ToSet(loaded') /\ ~p.provider /\ p.runtime = sess'[x.via].runtime
          BY <4>1, <5>1, <1>2, <1>5, <1>6
        <5>4. \A q : q = p => (q \in ToSet(loaded') /\ ~q.provider /\ q.runtime = sess'[x.via].runtime)
          BY <5>3
        <5> QED BY <5>2, <5>4 DEF RecordedFor
      <4>2. CASE x.via # n
        BY <4>2, <1>2, <1>7, <3>1 DEF HalfFor
      <4> QED BY <4>1, <4>2
    <3> QED BY <3>1, <3>2, <3>3, <1>2
  <2>6. Owned'
    BY <1>2, <2>5 DEF Owned, registryVars
  <2> QED BY <2>2, <2>3, <2>s, <2>6 DEF Orderly
<1>16. Order'
  BY <1>2, <1>15 DEF Ready, Order, NoneDropped
<1> QED BY <1>8, <1>9, <1>10, <1>11, <1>12, <1>s, <1>13, <1>14, <1>16 DEF Core

LEMMA UnhealthyStep ==
  ASSUME Ready, NEW n \in Ids, Unhealthy(n)
  PROVE  TypeOK' /\ Core' /\ Order'
<1> DEFINE s == Deref(n)
           z == [sess[s] EXCEPT !.launcher = "idle"]
<1>1. s # Lost /\ Stopped({s}) /\ sess' = [sess EXCEPT ![s] = z]
  BY DEF Unhealthy
<1>2. /\ UNCHANGED <<vec, buf, cap, made, ptr, peer, conn, waiting, recv, thread, bound, proc, todo, handles, loaded, shut>>
      /\ UNCHANGED registryVars
  BY DEF Unhealthy, pluginVars, vectorVars, peerVars
<1>3. s \in Ids
  BY <1>1, DerefType, Typed DEF Ready
<1>4. faults' \in 0 .. MaxFaults
  BY FaultType DEF Unhealthy, Ready
<1> HIDE DEF s
<1>5. z \in Session /\ z.dir = sess[s].dir /\ z.runtime = sess[s].runtime /\ z.client = sess[s].client
      /\ z.count = sess[s].count
  <2>1. sess[s] \in Session
    BY <1>3, Typed2 DEF Ready
  <2> QED BY <2>1 DEF Session
<1> HIDE DEF z
<1>6. /\ SameKin /\ sess' \in [Ids -> Session] /\ sess'[s] = z
      /\ \A m \in Ids : m # s => sess'[m] = sess[m]
  BY <1>1, <1>3, <1>5, SessType DEF Ready
<1>7. /\ child' \in [Ids -> {"up", "crashed", "clean"}]
      /\ \A m \in Ids : m # s => child'[m] = child[m]
      /\ child'[s] # "up" /\ (child'[s] = "crashed" => child[s] # "clean")
  <2>1. {s} \subseteq Ids /\ \A m : m \in {s} <=> m = s
    BY <1>3
  <2> QED BY <1>1, <2>1, StoppedFacts, Typed2 DEF Ready
<1>8. TypeOK'
  BY <1>2, <1>4, <1>6, <1>7 DEF Ready, TypeOK, RegistryTypeOK, registryVars
<1>9. \A m \in Ids : sess'[m].client = sess[m].client /\ sess'[m].count = sess[m].count
  BY <1>5, <1>6
<1>10. \A m \in Ids : child'[m] = "up" => child[m] = "up" /\ sess'[m].launcher = sess[m].launcher
  BY <1>6, <1>7
<1>11. \A m \in Ids : child'[m] = "crashed" => child[m] # "clean"
  BY <1>7
<1> QED BY <1>2, <1>6, <1>7, <1>8, <1>9, <1>10, <1>11, EndingStep

LEMMA ExitStep ==
  ASSUME Ready, NEW n \in Ids, Exit(n)
  PROVE  TypeOK' /\ Core' /\ Order'
<1> DEFINE s == Deref(n)
           z == [sess[s] EXCEPT !.count = @ + 1]
           restart == thread' = [thread EXCEPT ![n].stage = "backoff"]
<1>1. /\ n \in waiting /\ child[n] # "up" /\ waiting' = waiting \ {n}
      /\ child' = [child EXCEPT ![n] = "clean"]
  BY DEF Exit, Waited
<1>2. /\ UNCHANGED sess \/ (s # Lost /\ sess' = [sess EXCEPT ![s] = z])
      /\ restart \/ UNCHANGED thread
  BY DEF Exit
<1>3. /\ UNCHANGED <<vec, buf, cap, made, ptr, peer, conn, recv, bound, proc, todo, handles, loaded, shut, faults>>
      /\ UNCHANGED registryVars
  BY DEF Exit, pluginVars, vectorVars, peerVars
<1>4. s # Lost => s \in Ids
  BY DerefType, Typed DEF Ready
<1> HIDE DEF s
<1>5. /\ SameKin /\ sess' \in [Ids -> Session]
      /\ \A m \in Ids : sess'[m].client = sess[m].client /\ sess'[m].launcher = sess[m].launcher
  <2>1. CASE UNCHANGED sess
    BY <2>1, SameSess, Typed2 DEF Ready
  <2>2. CASE s # Lost /\ sess' = [sess EXCEPT ![s] = z]
    <3>1. sess[s] \in Session
      BY <2>2, <1>4, Typed2 DEF Ready
    <3>2. z \in Session /\ z.dir = sess[s].dir /\ z.runtime = sess[s].runtime
          /\ z.client = sess[s].client /\ z.launcher = sess[s].launcher
      BY <3>1 DEF Session
    <3> HIDE DEF z
    <3> QED BY <3>2, <2>2, <1>4, SessType DEF Ready
  <2> QED BY <1>2, <2>1, <2>2
<1>6. Ids \subseteq Threads /\ Main \in Threads /\ n # Main
  BY Typed DEF Ready
<1>7. /\ thread' \in [Threads -> Thread]
      /\ \A u \in Threads : u # n => thread'[u] = thread[u]
      /\ thread'[n].ses = thread[n].ses /\ thread'[n].stage \in {"backoff", thread[n].stage}
  <2>1. CASE UNCHANGED thread
    BY <2>1, Typed DEF Ready
  <2>2. CASE restart
    <3>1. Goto(n, "backoff") /\ "backoff" \in Stages
      BY <2>2 DEF Goto, Stages
    <3> QED BY <3>1, <1>6, GotoFacts, Typed DEF Ready
  <2> QED BY <1>2, <2>1, <2>2
<1>8. /\ child' \in [Ids -> {"up", "crashed", "clean"}] /\ waiting' \subseteq waiting /\ waiting \subseteq Ids
      /\ child'[n] = "clean" /\ \A m \in Ids : m # n => child'[m] = child[m]
  BY <1>1, Typed2 DEF Ready
<1>9. TypeOK'
  BY <1>3, <1>5, <1>7, <1>8 DEF Ready, TypeOK, Thread, RegistryTypeOK, registryVars
<1>b. Receivers /\ Starts /\ Spawns /\ Processes /\ Backed /\ SameKin
  BY <1>5 DEF Ready, Core
<1>10. \A m \in Ids : child'[m] = "up" => child[m] = "up"
  BY <1>8
<1>11. Named'
  <2>1. \A u \in Threads : thread'[u].ses \in {Lost, thread[u].ses}
    BY <1>7
  <2>2. \A m \in Ids : thread[m].stage = "off" /\ m \notin waiting => thread'[m].stage = "off"
    BY <1>1, <1>6, <1>7
  <2> QED BY <1>3, <1>8, <1>10, <2>1, <2>2, NamedFrame
<1>12. SameRuntime'
  BY <1>3, <1>b, SameRuntimeFrame
<1>13. Receivers'
  BY <1>3, <1>5, <1>b, ReceiversFrame DEF Receivers, Sessions
<1>14. Starts'
  <2>1. \A u \in Threads : thread'[u].stage \in Starting =>
            /\ thread[u].stage \in Starting /\ thread'[u].ses = thread[u].ses
            /\ thread'[u].stage = "wire" <=> thread[u].stage = "wire"
    BY <1>7 DEF Starting
  <2> QED BY <1>3, <2>1, StartsFrame
<1>s. SpawnsStay /\ Spawns'
  <2>1. SpawnsStay
    <3>1. thread[n].stage = "off"
      BY <1>1, <1>b DEF Processes
    <3>2. thread'[n].stage # "spawn"
      BY <3>1, <1>7
    <3> QED BY <3>2, <1>6, <1>7, SpawnsStayFacts
  <2>2. \A m \in Ids : thread[m].stage = "off" /\ m \notin waiting => thread'[m].stage = "off"
    BY <1>1, <1>6, <1>7
  <2> QED BY <2>1, <2>2, <1>3, <1>5, <1>8, <1>10, SpawnsFrame
<1>15. Processes'
  <2>1. thread'[Main].stage \notin Restarting
    BY <1>6, <1>7, <1>b DEF Processes
  <2>2. ASSUME NEW m \in Ids, child'[m] = "up"
        PROVE  child[m] = "up" /\ sess'[m].launcher = sess[m].launcher /\ m \in waiting'
    <3>1. m # n /\ child[m] = "up"
      BY <2>2, <1>8
    <3> QED BY <3>1, <1>1, <1>5, <1>b DEF Processes
  <2>3. \A m \in Ids : thread[m].stage = "off" => thread'[m].stage = "off" \/ m \notin waiting'
    BY <1>1, <1>6, <1>7
  <2> QED BY <1>3, <1>8, <2>1, <2>2, <2>3, ProcessesFrame DEF Sessions
<1>16. Backed'
  BY <1>3, <1>b, BackedFrame
<1>17. ASSUME NoneDropped, Orderly PROVE Orderly'
  <2>1. Placed /\ Owned /\ Stale /\ Counts /\ Claims
    BY <1>17 DEF Orderly
  <2>2. Placed'
    BY <1>3, <2>1 DEF Placed
  <2>s. Stale'
    BY <1>3, <1>5, <2>1, StaleFrame DEF registryVars
  <2>3. thread[n].stage = "off"
    BY <1>1, <1>b DEF Processes
  <2>4. Owned'
    <3>1. \A m \in Ids : thread[m].stage \in Freed => thread'[m].stage \in Freed
      BY <2>3, <1>6, <1>7 DEF Freed
    <3> QED BY <1>3, <1>5, <1>b, <2>1, <3>1, OwnedFrame DEF registryVars
  <2>5. Counts'
    <3>1. s = n \/ s = Lost
      <4>1. Named
        BY DEF Ready, Core
      <4> QED BY <4>1, <2>1, <1>17, DerefPlaced DEF Ready, s
    <3>2. sess[n].count = 0
      BY <1>1, <2>1 DEF Counts
    <3>3. \A m \in Ids : sess'[m].count = sess[m].count \/ (m = n /\ sess'[m].count = 1)
      <4>1. CASE UNCHANGED sess
        BY <4>1
      <4>2. CASE s # Lost /\ sess' = [sess EXCEPT ![s] = z]
        <5>1. s = n /\ sess[n] \in Session
          BY <4>2, <3>1, Typed2 DEF Ready
        <5>2. z.count = 1
          BY <5>1, <3>2 DEF Session
        <5>3. sess'[n] = z /\ \A m \in Ids : m # n => sess'[m] = sess[m]
          <6> HIDE DEF z
          <6> QED BY <5>1, <4>2, Typed2 DEF Ready
        <5> QED BY <5>2, <5>3
      <4> QED BY <1>2, <4>1, <4>2
    <3>4. \A u \in Threads : thread'[u].stage = "spawn" => sess'[thread'[u].ses].count = 0
      <4>1. SUFFICES ASSUME NEW u \in Threads, thread'[u].stage = "spawn"
                     PROVE  sess'[thread'[u].ses].count = 0
        OBVIOUS
      <4>2. thread'[u] = thread[u] /\ thread[u].stage = "spawn"
        BY <4>1, <1>s DEF SpawnsStay
      <4>3. thread[u].ses \in Ids /\ thread[u].ses # n
        BY <4>2, <1>1, <1>b, Typed DEF Starts, Starting, Spawns, Unspawned, Ready
      <4> QED BY <4>2, <4>3, <3>3, <2>1 DEF Counts
    <3> QED BY <3>3, <3>4, <2>1, <1>1, <1>8 DEF Counts
  <2>6. Claims'
    <3>1. thread' = thread \/ child[n] = "crashed"
      BY DEF Exit
    <3>2. \A m \in Ids : Live(m)' => Live(m)
      <4>1. \A m \in Ids : m # n /\ Live(m)' => Live(m)
        BY <1>6, <1>7, <1>8 DEF Live
      <4>2. Live(n)' => Live(n)
        BY <2>3, <3>1, <1>1, <1>8 DEF Live, Restarting
      <4> QED BY <4>1, <4>2
    <3>3. \A u \in Threads : \A q : Making(u, q)' => Making(u, q)
      <4>1. thread'[n].stage \notin {"make", "spawn"}
        BY <2>3, <1>7
      <4> QED BY <4>1, <1>7 DEF Making
    <3>4. todo'.dirs = todo.dirs
      BY <1>3
    <3> QED BY <1>b, <2>1, <3>2, <3>3, <3>4, ClaimsFrame
  <2> QED BY <2>2, <2>s, <2>4, <2>5, <2>6 DEF Orderly
<1>18. Order'
  BY <1>3, <1>17 DEF Ready, Order, NoneDropped
<1> QED BY <1>9, <1>11, <1>12, <1>13, <1>14, <1>s, <1>15, <1>16, <1>18 DEF Core
-----------------------------------------------------------------------------
(* restart_sidecar *)

\* Thread t goes on with its restart.
LEMMA RestartGoto ==
  ASSUME Ready, NEW t \in Ids, thread[t].stage \in Restarting,
         NEW next \in {"stop", "close", "sweep"}, Goto(t, next)
  PROVE  /\ thread' \in [Threads -> Thread]
         /\ \A u \in Threads : thread'[u].ses = thread[u].ses
         /\ \A u \in Threads : u # t => thread'[u] = thread[u]
         /\ \A m \in Ids : thread[m].stage = "off" => thread'[m].stage = "off"
         /\ thread'[Main].stage \notin Restarting
         /\ \A u \in Threads : thread'[u].stage \in Starting =>
               /\ thread[u].stage \in Starting /\ thread'[u].ses = thread[u].ses
               /\ thread'[u].stage = "wire" <=> thread[u].stage = "wire"
         /\ \A m \in Ids : thread[m].stage \in Freed => thread'[m].stage \in Freed
         /\ \A m \in Ids : thread'[m].stage \in Restarting => thread[m].stage \in Restarting
         /\ \A u \in Threads : \A d : Making(u, d)' => Making(u, d)
         /\ thread'[t].stage = next
         /\ SpawnsStay
<1>1. next \in Stages
  BY DEF Stages
<1>2. Ids \subseteq Threads /\ Main \in Threads /\ t # Main
  BY Typed DEF Ready
<1>3. /\ thread' \in [Threads -> Thread] /\ thread'[t].stage = next /\ thread'[t].ses = thread[t].ses
      /\ \A u \in Threads : u # t => thread'[u] = thread[u]
  BY <1>1, <1>2, GotoFacts, Typed DEF Ready
<1>4. \A m \in Ids : thread[m].stage = "off" => thread'[m].stage = "off"
  BY <1>2, <1>3 DEF Restarting
<1>5. thread'[Main].stage \notin Restarting
  BY <1>2, <1>3 DEF Ready, Core, Processes
<1>6. ASSUME NEW u \in Threads, thread'[u].stage \in Starting
      PROVE  /\ thread[u].stage \in Starting /\ thread'[u].ses = thread[u].ses
             /\ thread'[u].stage = "wire" <=> thread[u].stage = "wire"
  BY <1>3, <1>6 DEF Starting
<1>7. /\ \A m \in Ids : thread[m].stage \in Freed => thread'[m].stage \in Freed
      /\ \A m \in Ids : thread'[m].stage \in Restarting => thread[m].stage \in Restarting
  BY <1>2, <1>3 DEF Freed
<1>8. \A u \in Threads : \A d : Making(u, d)' => Making(u, d)
  BY <1>3 DEF Making
<1>9. SpawnsStay
  BY <1>2, <1>3, SpawnsStayFacts
<1> QED BY <1>3, <1>4, <1>5, <1>6, <1>7, <1>8, <1>9

LEMMA ResetClientStep ==
  ASSUME Ready, NEW t \in Ids, ResetClient(t)
  PROVE  TypeOK' /\ Core' /\ Order'
<1> DEFINE s == Deref(t)
           z == [sess[s] EXCEPT !.health = FALSE, !.client = FALSE]
<1>1. /\ thread[t].stage \in Restarting
      /\ \/ s = Lost /\ Goto(t, "sweep") /\ UNCHANGED sess
         \/ s # Lost /\ recv[s] # "half" /\ sess' = [sess EXCEPT ![s] = z] /\ Goto(t, "stop")
  BY DEF ResetClient, At, Restarting
<1>2. /\ UNCHANGED <<vec, buf, cap, made, ptr, peer, conn, child, waiting, recv, bound, proc, todo, handles, loaded, shut, faults>>
      /\ UNCHANGED registryVars
  BY DEF ResetClient, pluginVars, vectorVars, peerVars
<1>3. s # Lost => s \in Ids
  BY DerefType, Typed DEF Ready
<1> HIDE DEF s
<1>4. /\ SameKin /\ sess' \in [Ids -> Session]
      /\ \A m \in Ids : /\ sess'[m].launcher = sess[m].launcher /\ sess'[m].count = sess[m].count
                        /\ recv[m] = "half" => sess'[m].client = sess[m].client
                        /\ sess'[m].client = sess[m].client \/ (m = s /\ s # Lost)
  <2>1. CASE UNCHANGED sess
    BY <2>1, SameSess, Typed2 DEF Ready
  <2>2. CASE s # Lost /\ recv[s] # "half" /\ sess' = [sess EXCEPT ![s] = z]
    <3>1. sess[s] \in Session
      BY <2>2, <1>3, Typed2 DEF Ready
    <3>2. z \in Session /\ z.dir = sess[s].dir /\ z.runtime = sess[s].runtime
          /\ z.launcher = sess[s].launcher /\ z.count = sess[s].count
      BY <3>1 DEF Session
    <3> HIDE DEF z
    <3>3. /\ SameKin /\ sess' \in [Ids -> Session] /\ sess'[s] = z
          /\ \A m \in Ids : m # s => sess'[m] = sess[m]
      BY <3>2, <2>2, <1>3, SessType DEF Ready
    <3> QED BY <3>2, <3>3, <2>2
  <2> QED BY <1>1, <2>1, <2>2
<1>5. Goto(t, "sweep") \/ Goto(t, "stop")
  BY <1>1
<1>6. /\ thread' \in [Threads -> Thread]
      /\ \A u \in Threads : thread'[u].ses = thread[u].ses
      /\ \A m \in Ids : thread[m].stage = "off" => thread'[m].stage = "off"
      /\ thread'[Main].stage \notin Restarting
      /\ \A u \in Threads : thread'[u].stage \in Starting =>
            /\ thread[u].stage \in Starting /\ thread'[u].ses = thread[u].ses
            /\ thread'[u].stage = "wire" <=> thread[u].stage = "wire"
      /\ \A m \in Ids : thread[m].stage \in Freed => thread'[m].stage \in Freed
      /\ \A m \in Ids : thread'[m].stage \in Restarting => thread[m].stage \in Restarting
      /\ \A u \in Threads : \A d : Making(u, d)' => Making(u, d)
      /\ s # Lost => thread'[t].stage \in Freed
      /\ SpawnsStay
  BY <1>1, <1>5, RestartGoto DEF Freed
<1>7. TypeOK'
  BY <1>2, <1>4, <1>6 DEF Ready, TypeOK, Thread, RegistryTypeOK, registryVars
<1>8. Receivers'
  BY <1>2, <1>4, ReceiversFrame DEF Ready, Core, Receivers, Sessions
<1>9. Processes'
  <2>1. \A m \in Ids : child[m] = "up" => m \in waiting
    BY DEF Ready, Core, Processes
  <2> QED BY <1>2, <1>4, <1>6, <2>1, ProcessesFrame DEF Sessions
<1>10. Named' /\ SameRuntime' /\ Starts' /\ Spawns' /\ Backed'
  BY <1>2, <1>4, <1>6, NamedFrame, SameRuntimeFrame, StartsFrame, SpawnsFrame, BackedFrame
<1>11. ASSUME NoneDropped, Orderly PROVE Orderly'
  <2>1. Placed /\ Owned /\ Stale /\ Counts /\ Claims
    BY <1>11 DEF Orderly
  <2>2. Placed'
    BY <1>2, <2>1 DEF Placed
  <2>3. s # Lost => s = t
    <3>1. Named
      BY DEF Ready, Core
    <3> QED BY <3>1, <2>1, <1>11, DerefPlaced DEF Ready, s
  <2>4. Owned'
    <3>1. \A m \in Ids : sess[m].client => sess'[m].client \/ thread'[m].stage \in Freed
      BY <2>3, <1>4, <1>6
    <3> QED BY <1>2, <1>4, <1>6, <2>1, <3>1, OwnedFrame DEF registryVars
  <2>5. Counts' /\ Stale'
    BY <1>2, <1>4, <1>6, <2>1, CountsFrame, StaleFrame DEF registryVars
  <2>6. Claims'
    <3>1. \A m \in Ids : Live(m)' => Live(m)
      BY <1>2, <1>6 DEF Live
    <3>2. todo'.dirs = todo.dirs
      BY <1>2
    <3> QED BY <1>4, <1>6, <2>1, <3>1, <3>2, ClaimsFrame
  <2> QED BY <2>2, <2>4, <2>5, <2>6 DEF Orderly
<1>12. Order'
  BY <1>2, <1>11 DEF Ready, Order, NoneDropped
<1> QED BY <1>7, <1>8, <1>9, <1>10, <1>12 DEF Core

LEMMA ResetLauncherStep ==
  ASSUME Ready, NEW t \in Ids, ResetLauncher(t)
  PROVE  TypeOK' /\ Core' /\ Order'
<1> DEFINE s == Deref(t)
           z == [sess[s] EXCEPT !.launcher = "none"]
           S == WithProcess({s} \ {Lost})
<1>1. /\ thread[t].stage \in Restarting /\ Goto(t, "close") /\ Stopped(S)
      /\ \/ s = Lost /\ UNCHANGED sess
         \/ s # Lost /\ sess' = [sess EXCEPT ![s] = z]
  BY DEF ResetLauncher, At, Restarting
<1>2. /\ UNCHANGED <<vec, buf, cap, made, ptr, peer, conn, waiting, recv, bound, proc, todo, handles, loaded, shut, faults>>
      /\ UNCHANGED registryVars
  BY DEF ResetLauncher, pluginVars, vectorVars, peerVars
<1>3. s # Lost => s \in Ids
  BY DerefType, Typed DEF Ready
<1>4. S \subseteq Ids /\ \A m \in Ids : m \in S <=> (m = s /\ sess[m].launcher = "pid")
  <2>1. Lost \notin Ids
    BY Typed DEF Ready
  <2> QED BY <1>3, <2>1 DEF WithProcess
<1> HIDE DEF s, S
<1>5. /\ SameKin /\ sess' \in [Ids -> Session]
      /\ \A m \in Ids : sess'[m].client = sess[m].client /\ sess'[m].count = sess[m].count
      /\ \A m \in Ids : m # s => sess'[m] = sess[m]
  <2>1. CASE UNCHANGED sess
    BY <2>1, SameSess, Typed2 DEF Ready
  <2>2. CASE s # Lost /\ sess' = [sess EXCEPT ![s] = z]
    <3>1. sess[s] \in Session
      BY <2>2, <1>3, Typed2 DEF Ready
    <3>2. z \in Session /\ z.dir = sess[s].dir /\ z.runtime = sess[s].runtime
          /\ z.client = sess[s].client /\ z.count = sess[s].count
      BY <3>1 DEF Session
    <3> HIDE DEF z
    <3>3. /\ SameKin /\ sess' \in [Ids -> Session] /\ sess'[s] = z
          /\ \A m \in Ids : m # s => sess'[m] = sess[m]
      BY <3>2, <2>2, <1>3, SessType DEF Ready
    <3> QED BY <3>2, <3>3, <2>2
  <2> QED BY <1>1, <2>1, <2>2
<1>6. /\ child' \in [Ids -> {"up", "crashed", "clean"}]
      /\ \A m \in Ids : m \notin S => child'[m] = child[m]
      /\ \A m \in S : child'[m] # "up" /\ (child'[m] = "crashed" => child[m] # "clean")
  BY <1>1, <1>4, StoppedFacts, Typed2 DEF Ready
<1>7. /\ thread' \in [Threads -> Thread]
      /\ \A u \in Threads : thread'[u].ses = thread[u].ses
      /\ \A m \in Ids : thread[m].stage = "off" => thread'[m].stage = "off"
      /\ thread'[Main].stage \notin Restarting
      /\ \A u \in Threads : thread'[u].stage \in Starting =>
            /\ thread[u].stage \in Starting /\ thread'[u].ses = thread[u].ses
            /\ thread'[u].stage = "wire" <=> thread[u].stage = "wire"
      /\ \A m \in Ids : thread[m].stage \in Freed => thread'[m].stage \in Freed
      /\ \A m \in Ids : thread'[m].stage \in Restarting => thread[m].stage \in Restarting
      /\ \A u \in Threads : \A d : Making(u, d)' => Making(u, d)
      /\ SpawnsStay
  BY <1>1, RestartGoto
<1>8. TypeOK'
  BY <1>2, <1>5, <1>6, <1>7 DEF Ready, TypeOK, Thread, RegistryTypeOK, registryVars
<1>9. \A m \in Ids : child'[m] = "up" => child[m] = "up"
  BY <1>6
<1>10. Receivers'
  BY <1>2, <1>5, ReceiversFrame DEF Ready, Core, Receivers, Sessions
<1>11. Processes'
  <2>1. ASSUME NEW m \in Ids, child'[m] = "up"
        PROVE  child[m] = "up" /\ sess'[m].launcher = sess[m].launcher /\ m \in waiting'
    <3>1. m \notin S /\ child[m] = "up"
      BY <2>1, <1>6
    <3>2. sess[m].launcher = "pid" /\ m \in waiting
      BY <3>1 DEF Ready, Core, Processes
    <3> QED BY <3>1, <3>2, <1>2, <1>4, <1>5
  <2> QED BY <1>2, <1>7, <2>1, ProcessesFrame DEF Sessions
<1>12. Named' /\ SameRuntime' /\ Starts' /\ Spawns' /\ Backed'
  BY <1>2, <1>5, <1>7, <1>9, NamedFrame, SameRuntimeFrame, StartsFrame, SpawnsFrame, BackedFrame
<1>13. Order'
  <2>1. \A m \in Ids : Live(m)' => Live(m)
    BY <1>2, <1>6, <1>7, Typed2 DEF Live, Ready
  <2>2. remote' = remote /\ todo'.dirs = todo.dirs /\ \A p \in ToSet(loaded) : p \in ToSet(loaded')
    BY <1>2 DEF registryVars
  <2>3. \A m \in Ids : recv[m] = "half" => recv'[m] = "half" /\ peer'[m] = peer[m]
    BY <1>2
  <2> QED BY <1>2, <1>5, <1>7, <2>1, <2>2, <2>3, OrderFrame
<1> QED BY <1>8, <1>10, <1>11, <1>12, <1>13 DEF Core

LEMMA ResetTransportStep ==
  ASSUME Ready, NEW t \in Ids, ResetTransport(t)
  PROVE  TypeOK' /\ Core' /\ Order'
<1> DEFINE s == Deref(t)
           z == [sess[s] EXCEPT !.link = "none"]
<1>1. /\ thread[t].stage \in Restarting /\ Goto(t, "sweep")
      /\ \/ UNCHANGED <<sess, recv, bound>>
         \/ /\ s # Lost /\ sess' = [sess EXCEPT ![s] = z] /\ CanClose(s, child)
            /\ recv' = [recv EXCEPT ![s] = "off"] /\ Unlinked(sess[s].runtime)
  BY DEF ResetTransport, At, Restarting
<1>2. /\ UNCHANGED <<vec, buf, cap, made, ptr, peer, conn, child, waiting, proc, todo, handles, loaded, shut, faults>>
      /\ UNCHANGED registryVars
  BY DEF ResetTransport, pluginVars, vectorVars, peerVars
<1>3. s # Lost => s \in Ids
  BY DerefType, Typed DEF Ready
<1> HIDE DEF s
<1>4. /\ SameKin /\ sess' \in [Ids -> Session]
      /\ \A m \in Ids : sess'[m].client = sess[m].client /\ sess'[m].launcher = sess[m].launcher
                        /\ sess'[m].count = sess[m].count
      /\ recv' \in [Ids -> {"off", "idle", "half", "done"}]
      /\ \A m \in Ids : recv'[m] = recv[m] \/ (recv[m] # "half" /\ recv'[m] = "off")
      /\ bound' \in [Runtimes -> {Lost} \cup Ids]
      /\ \A rt \in Runtimes : bound'[rt] \in {Lost, bound[rt]}
  <2>1. CASE UNCHANGED <<sess, recv, bound>>
    BY <2>1, SameSess, Typed2 DEF Ready
  <2>2. CASE /\ s # Lost /\ sess' = [sess EXCEPT ![s] = z] /\ CanClose(s, child)
             /\ recv' = [recv EXCEPT ![s] = "off"] /\ Unlinked(sess[s].runtime)
    <3>1. sess[s] \in Session /\ sess[s].runtime \in Runtimes
      BY <2>2, <1>3, Typed2, SessionFields DEF Ready
    <3>2. z \in Session /\ z.dir = sess[s].dir /\ z.runtime = sess[s].runtime
          /\ z.client = sess[s].client /\ z.launcher = sess[s].launcher /\ z.count = sess[s].count
      BY <3>1 DEF Session
    <3> HIDE DEF z
    <3>3. /\ SameKin /\ sess' \in [Ids -> Session] /\ sess'[s] = z
          /\ \A m \in Ids : m # s => sess'[m] = sess[m]
      BY <3>2, <2>2, <1>3, SessType DEF Ready
    <3>4. recv[s] # "half"
      BY <2>2 DEF CanClose
    <3>5. /\ recv' \in [Ids -> {"off", "idle", "half", "done"}]
          /\ \A m \in Ids : recv'[m] = recv[m] \/ (recv[m] # "half" /\ recv'[m] = "off")
      BY <2>2, <3>4, <1>3, Typed2 DEF Ready
    <3>6. /\ bound' \in [Runtimes -> {Lost} \cup Ids]
          /\ \A rt \in Runtimes : bound'[rt] \in {Lost, bound[rt]}
      BY <2>2, <3>1, Typed2 DEF Ready, Unlinked
    <3> QED BY <3>2, <3>3, <3>5, <3>6
  <2> QED BY <1>1, <2>1, <2>2
<1>5. /\ thread' \in [Threads -> Thread]
      /\ \A u \in Threads : thread'[u].ses = thread[u].ses
      /\ \A m \in Ids : thread[m].stage = "off" => thread'[m].stage = "off"
      /\ thread'[Main].stage \notin Restarting
      /\ \A u \in Threads : thread'[u].stage \in Starting =>
            /\ thread[u].stage \in Starting /\ thread'[u].ses = thread[u].ses
            /\ thread'[u].stage = "wire" <=> thread[u].stage = "wire"
      /\ \A m \in Ids : thread[m].stage \in Freed => thread'[m].stage \in Freed
      /\ \A m \in Ids : thread'[m].stage \in Restarting => thread[m].stage \in Restarting
      /\ \A u \in Threads : \A d : Making(u, d)' => Making(u, d)
      /\ SpawnsStay
  BY <1>1, RestartGoto
<1>6. TypeOK'
  BY <1>2, <1>4, <1>5 DEF Ready, TypeOK, Thread, RegistryTypeOK, registryVars
<1>7. Named'
  <2>1. \A m \in Ids : recv'[m] # "off" => recv[m] # "off"
    BY <1>4
  <2> QED BY <1>2, <1>4, <1>5, <2>1, NamedFrame
<1>8. Receivers'
  <2>1. \A m \in Ids : recv'[m] # "off" =>
            /\ recv[m] # "off" /\ peer'[m] = peer[m] /\ m \in Sessions'
            /\ recv'[m] = "half" => recv[m] = "half" /\ sess'[m].client
    BY <1>2, <1>4 DEF Ready, Core, Receivers, Sessions
  <2> QED BY <1>4, <2>1, ReceiversFrame
<1>9. Starts' /\ Spawns'
  BY <1>2, <1>4, <1>5, StartsFrame, SpawnsFrame
<1>10. Processes'
  <2>1. \A m \in Ids : child[m] = "up" => m \in waiting
    BY DEF Ready, Core, Processes
  <2> QED BY <1>2, <1>4, <1>5, <2>1, ProcessesFrame DEF Sessions
<1>11. Backed'
  <2>1. \A m \in Ids : recv[m] = "half" => recv'[m] = "half" /\ peer'[m] = peer[m]
    BY <1>2, <1>4
  <2> QED BY <1>2, <1>4, <2>1, BackedFrame
<1>12. SameRuntime'
  BY <1>2, <1>4, SameRuntimeFrame
<1>13. Order'
  <2>1. \A m \in Ids : Live(m)' => Live(m)
    BY <1>2, <1>5, Typed2 DEF Live, Ready
  <2>2. remote' = remote /\ todo'.dirs = todo.dirs /\ \A p \in ToSet(loaded) : p \in ToSet(loaded')
    BY <1>2 DEF registryVars
  <2>3. \A m \in Ids : recv[m] = "half" => recv'[m] = "half" /\ peer'[m] = peer[m]
    BY <1>2, <1>4
  <2> QED BY <1>2, <1>4, <1>5, <2>1, <2>2, <2>3, OrderFrame
<1> QED BY <1>6, <1>7, <1>8, <1>9, <1>10, <1>11, <1>12, <1>13 DEF Core

LEMMA SweepStep ==
  ASSUME Ready, NEW t \in Ids, Sweep(t)
  PROVE  TypeOK' /\ Core' /\ Order'
<1> DEFINE s == Deref(t)
           rt == sess[IF s = Lost THEN t ELSE s].runtime
           gone == {p.plugin : p \in {q \in ToSet(loaded) : Swept(q, rt)}}
           stay == {p \in Plugin : ~Swept(p, rt)}
           others == {e \in Entry : e.name[1] \notin gone}
           dirs == IF s # Lost THEN {sess[s].dir}
                   ELSE IF ptr[t].buf = buf THEN {NoDir, sess[t].dir}
                   ELSE {NoDir}
           next(d) == [stage |-> "make", ses |-> Lost, dir |-> d, runtime |-> rt]
<1>1. /\ thread[t].stage = "sweep" /\ loaded' = Kept(loaded, stay) /\ remote' = Kept(remote, others)
      /\ entries' = entries /\ Rebuild
  BY DEF Sweep, At, Others
<1>2. PICK d \in dirs : thread' = [thread EXCEPT ![t] = next(d)]
  BY DEF Sweep
<1>3. UNCHANGED <<vec, buf, cap, made, ptr, peer, conn, sess, child, waiting, recv, bound, proc, todo, handles, shut, faults>>
  BY DEF Sweep, vectorVars, peerVars
<1>4. s # Lost => s \in Ids
  BY DerefType, Typed DEF Ready
<1> HIDE DEF s
<1>5. rt \in Runtimes /\ d \in DirNames
  <2>1. sess[t].runtime \in Runtimes /\ sess[t].dir \in DirNames
    BY Typed2, SessionFields DEF Ready
  <2>2. s # Lost => sess[s].runtime \in Runtimes /\ sess[s].dir \in DirNames
    BY <1>4, Typed2, SessionFields DEF Ready
  <2> QED BY <2>1, <2>2 DEF DirNames
<1> HIDE DEF dirs, rt
<1>o. /\ s = t => rt = sess[t].runtime /\ d = sess[t].dir
      /\ s = Lost => rt = sess[t].runtime /\ d \in {NoDir, sess[t].dir}
  <2>1. Lost # t
    BY Typed DEF Ready
  <2> QED BY <2>1 DEF rt, dirs
<1>6. next(d) \in Thread /\ next(d).ses = Lost /\ next(d).stage = "make" /\ next(d).dir = d
  BY <1>5 DEF Thread, Stages
<1>7. /\ thread' \in [Threads -> Thread] /\ thread'[t].ses = Lost /\ thread'[t].stage = "make"
      /\ thread'[t].dir = d
      /\ \A u \in Threads : u # t => thread'[u] = thread[u]
      /\ Ids \subseteq Threads /\ Main \in Threads /\ t # Main
  <2>1. Ids \subseteq Threads /\ Main \in Threads /\ t # Main
    BY Typed DEF Ready
  <2> HIDE DEF next
  <2> QED BY <2>1, <1>2, <1>6, Typed DEF Ready
<1> HIDE DEF next, gone, stay, others
<1>8. /\ loaded' \in Seq(Plugin) /\ ToSet(loaded') = {p \in ToSet(loaded) : p \in stay}
      /\ ToSet(loaded) \subseteq Plugin
  BY <1>1, KeptSet, ToSetFacts DEF Ready, TypeOK
<1>9. /\ remote' \in Seq(Entry) /\ ToSet(remote') = {e \in ToSet(remote) : e \in others}
      /\ RegistryTypeOK'
  <2>1. remote \in Seq(Entry) /\ entries \in Seq(Entry)
    BY DEF Ready, TypeOK, RegistryTypeOK
  <2>2. remote' \in Seq(Entry) /\ ToSet(remote') = {e \in ToSet(remote) : e \in others}
    BY <2>1, <1>1, KeptSet
  <2>3. RegistryInv'
    BY <2>1, <2>2, <1>1, RebuildInv
  <2> QED BY <2>2, <2>3 DEF RegistryInv
<1>10. TypeOK'
  BY <1>3, <1>7, <1>8, <1>9 DEF Ready, TypeOK, Thread
<1>b. Receivers /\ Starts /\ Processes /\ Backed
  BY DEF Ready, Core
<1>11. Named'
  <2>1. \A u \in Threads : thread'[u].ses \in {Lost, thread[u].ses}
    BY <1>7
  <2>2. \A m \in Ids : thread[m].stage = "off" => thread'[m].stage = "off"
    BY <1>1, <1>7
  <2> QED BY <1>3, <2>1, <2>2, NamedFrame
<1>12. SameRuntime'
  BY <1>3, SameSess, SameRuntimeFrame
<1>13. Receivers'
  BY <1>3, <1>b DEF Receivers, Sessions
<1>14. Starts'
  <2>1. \A u \in Threads : thread'[u].stage \in Starting =>
            /\ thread[u].stage \in Starting /\ thread'[u].ses = thread[u].ses
            /\ thread'[u].stage = "wire" <=> thread[u].stage = "wire"
    BY <1>7 DEF Starting
  <2> QED BY <1>3, <2>1, StartsFrame
<1>s. SpawnsStay /\ Spawns'
  <2>1. SpawnsStay
    BY <1>7, SpawnsStayFacts
  <2>2. \A m \in Ids : thread[m].stage = "off" => thread'[m].stage = "off"
    BY <1>1, <1>7
  <2> QED BY <2>1, <2>2, <1>3, SameSess, SpawnsFrame
<1>15. Processes'
  <2>1. thread'[Main].stage \notin Restarting
    BY <1>7, <1>b DEF Processes
  <2>2. \A m \in Ids : thread[m].stage = "off" => thread'[m].stage = "off"
    BY <1>1, <1>7
  <2>3. \A m \in Ids : child[m] = "up" => m \in waiting
    BY <1>b DEF Processes
  <2> QED BY <1>3, <2>1, <2>2, <2>3, ProcessesFrame DEF Sessions
<1>16. Backed'
  <2>1. \A p \in ToSet(loaded) : p \in ToSet(loaded') \/ p.plugin \in gone
    <3>1. \A p \in ToSet(loaded) : Swept(p, rt) => p.plugin \in gone
      BY DEF gone
    <3> QED BY <1>8, <3>1 DEF stay
  <2>2. ASSUME NEW l, RecordedLib(l) PROVE RecordedLib(l)'
    <3>1. PICK p \in ToSet(loaded) : p.plugin = l /\ p.runtime = Native
      BY <2>2 DEF RecordedLib
    <3>2. ~Swept(p, rt)
      BY <3>1, <1>5 DEF Swept, Native, Runtimes
    <3>3. p \in ToSet(loaded')
      BY <3>1, <3>2, <1>8 DEF stay
    <3> QED BY <3>1, <3>3 DEF RecordedLib
  <2>3. ASSUME NEW e \in ToSet(remote') PROVE Recorded(e.name[1])' \/ HalfAnnounced(e.name[1])'
    <3>1. e \in ToSet(remote) /\ e.name[1] \notin gone
      BY <1>9 DEF others
    <3>2. CASE Recorded(e.name[1])
      BY <3>1, <3>2, <2>1 DEF Recorded
    <3>3. CASE HalfAnnounced(e.name[1])
      BY <3>3, <1>3 DEF HalfAnnounced
    <3> QED BY <3>1, <3>2, <3>3, <1>b DEF Backed
  <2> QED BY <1>1, <1>3, <1>b, <2>2, <2>3 DEF Backed
<1>17. ASSUME NoneDropped, Orderly PROVE Orderly'
  <2>1. Placed /\ Owned /\ Stale /\ Counts /\ Claims
    BY <1>17 DEF Orderly
  <2>2. Placed' /\ Counts' /\ Stale'
    <3>1. Placed'
      BY <1>3, <2>1 DEF Placed
    <3>2. ToSet(remote') \subseteq ToSet(remote)
      BY <1>9
    <3>3. Stale'
      BY <3>2, <1>3, <2>1, SameSess, StaleFrame
    <3>4. sess' \in [Ids -> Session]
      BY <1>3, Typed2 DEF Ready
    <3> QED BY <3>1, <3>3, <3>4, <1>3, <1>s, <2>1, CountsFrame
  <2>3. rt = sess[t].runtime /\ d \in {NoDir, sess[t].dir}
    <3>1. s = t \/ s = Lost
      <4>1. Named
        BY DEF Ready, Core
      <4> QED BY <4>1, <2>1, <1>17, DerefPlaced DEF Ready, s
    <3> QED BY <3>1, <1>o
  <2>4. \A p \in ToSet(loaded) : p \in ToSet(loaded') \/ (p.plugin \in gone /\ Swept(p, rt))
    <3>1. \A p \in ToSet(loaded) : Swept(p, rt) => p.plugin \in gone
      BY DEF gone
    <3> QED BY <1>8, <3>1 DEF stay
  <2>5. ToSet(remote) \subseteq Entry
    BY ToSetFacts DEF Ready, TypeOK, RegistryTypeOK
  <2>6. ASSUME NEW e \in ToSet(remote'), e.via # Lost
        PROVE  /\ e.via <= made'
               /\ sess'[e.via].client \/ thread'[e.via].stage \in Freed
               /\ RecordedFor(e)' \/ HalfFor(e)'
    <3>1. /\ e \in ToSet(remote) /\ e.via \in Ids /\ e.via <= made
          /\ e.name[1] \notin gone
      BY <2>1, <2>5, <2>6, <1>9, LifecycleAssumption DEF Owned, Entry, others
    <3>2. /\ sess[e.via].client \/ thread[e.via].stage \in Freed
          /\ RecordedFor(e) \/ HalfFor(e)
      BY <2>1, <2>6, <3>1 DEF Owned
    <3>3. ASSUME RecordedFor(e) PROVE RecordedFor(e)' /\ sess[e.via].runtime # rt
      <4>1. PICK p \in ToSet(loaded) :
                p.plugin = e.name[1] /\ ~p.provider /\ p.runtime = sess[e.via].runtime
        BY <3>3 DEF RecordedFor
      <4>2. p \in ToSet(loaded') /\ ~Swept(p, rt)
        <5>1. p.plugin \notin gone
          BY <3>1, <4>1
        <5>2. p \in ToSet(loaded')
          BY <2>4, <5>1
        <5> QED BY <5>2, <1>8 DEF stay
      <4> QED BY <4>1, <4>2, <1>3 DEF RecordedFor, Swept
    <3>4. HalfFor(e) => HalfFor(e)' /\ sess[e.via].client
      BY <1>3, <1>b, <3>1 DEF HalfFor, Receivers
    <3>5. sess[e.via].client \/ e.via # t
      BY <2>3, <3>2, <3>3, <3>4
    <3>6. e.via # t => thread'[e.via] = thread[e.via]
      BY <3>1, <1>7
    <3> QED BY <3>1, <3>2, <3>3, <3>4, <3>5, <3>6, <1>3
  <2>7. Owned'
    BY <2>6 DEF Owned
  <2>8. Live(t) /\ ~Live(t)'
    <3>1. t \notin waiting
      BY <1>1, <1>b DEF Processes
    <3>2. child[t] # "up"
      BY <3>1, <1>b DEF Processes
    <3> QED BY <3>1, <3>2, <1>1, <1>3, <1>7 DEF Live, Restarting
  <2>9. /\ \A n \in Ids : Live(n)' => Live(n) /\ n # t
        /\ \A u \in Threads : \A q : Making(u, q)' => (Making(u, q) /\ u # t) \/ (u = t /\ q = d)
        /\ \A q : Awaits(q)' = Awaits(q)
    <3>1. \A n \in Ids : n # t /\ Live(n)' => Live(n)
      BY <1>3, <1>7 DEF Live
    <3>2. \A u \in Threads : \A q : Making(u, q)' => (Making(u, q) /\ u # t) \/ (u = t /\ q = d)
      BY <1>7 DEF Making
    <3>3. \A q : Awaits(q)' = Awaits(q)
      BY <1>3 DEF Awaits
    <3> QED BY <3>1, <3>2, <3>3, <2>8
  <2>10. Claims'
    <3>1. \A m, n \in Ids :
          Live(m)' /\ Live(n)' /\ sess'[m].dir = sess'[n].dir /\ sess'[n].dir # NoDir => m = n
      BY <2>1, <2>9, <1>3 DEF Claims
    <3>2. \A u \in Threads, n \in Ids : Live(n)' /\ sess'[n].dir # NoDir => ~Making(u, sess[n].dir)'
      <4>1. SUFFICES ASSUME NEW u \in Threads, NEW n \in Ids, Live(n)', sess[n].dir # NoDir,
                            Making(u, sess[n].dir)'
                     PROVE  FALSE
        BY <1>3
      <4>2. Live(n) /\ n # t /\ ~Making(u, sess[n].dir)
        BY <2>1, <2>9, <4>1 DEF Claims
      <4>3. \A q : q = sess'[n].dir => (Making(u, q) /\ u # t) \/ (u = t /\ q = d)
        BY <2>9, <4>1 DEF Making
      <4>4. sess[n].dir = d
        BY <4>2, <4>3, <1>3
      <4>5. sess[n].dir # sess[t].dir
        BY <2>1, <2>8, <4>1, <4>2 DEF Claims
      <4> QED BY <2>3, <4>1, <4>4, <4>5
    <3>3. d \in SidecarDirs => d = sess[t].dir /\ d # NoDir
      BY <2>3, LifecycleAssumption DEF SidecarDirs
    <3>4. d \in SidecarDirs => ~Awaits(d) /\ \A u \in Threads : ~Making(u, d)
      BY <2>1, <2>8, <3>3 DEF Claims
    <3>5. \A u, v \in Threads : \A q \in SidecarDirs : Making(u, q)' /\ Making(v, q)' => u = v
      BY <2>1, <2>9, <3>4 DEF Claims
    <3>6. \A q \in SidecarDirs : Awaits(q)' =>
            /\ \A n \in Ids : Live(n)' => sess'[n].dir # q
            /\ \A u \in Threads : ~Making(u, q)'
      BY <2>1, <2>9, <3>4, <1>3 DEF Claims
    <3>7. \A i, j \in DOMAIN todo'.dirs : todo'.dirs[i] = todo'.dirs[j] => i = j
      BY <1>3, <2>1 DEF Claims
    <3> QED BY <3>1, <3>2, <3>5, <3>6, <3>7 DEF Claims
  <2> QED BY <2>2, <2>7, <2>10 DEF Orderly
<1>18. Order'
  BY <1>3, <1>17 DEF Ready, Order, NoneDropped
<1> QED BY <1>10, <1>11, <1>12, <1>13, <1>14, <1>s, <1>15, <1>16, <1>18 DEF Core
-----------------------------------------------------------------------------
(* ~PluginBridge and init *)

LEMMA ShutdownStep ==
  ASSUME Ready, Shutdown
  PROVE  TypeOK' /\ Core' /\ Order'
<1>1. /\ proc' = "stopping" /\ shut' = [idx |-> 1, end |-> Len(vec), buf |-> buf]
      /\ UNCHANGED <<vec, buf, cap, made, ptr, peer, conn, sess, child, waiting, recv, thread, bound, todo, handles, loaded, faults>>
      /\ UNCHANGED registryVars
  BY DEF Shutdown, pluginVars, vectorVars, peerVars
<1>2. TypeOK'
  BY <1>1 DEF Ready, TypeOK, RegistryTypeOK, registryVars
<1> QED BY <1>1, <1>2, SameSess, Typed2, EndingStep DEF Ready

LEMMA ShutOneStep ==
  ASSUME Ready, ShutOne
  PROVE  TypeOK' /\ Core' /\ Order'
<1> DEFINE s == vec[shut.idx]
           stopped == WithProcess({s})
           z == [sess[s] EXCEPT !.down = TRUE, !.health = FALSE,
                                !.launcher = IF s \in stopped THEN "idle" ELSE @]
<1>1. /\ shut.idx <= Len(vec) /\ Stopped(stopped) /\ sess' = [sess EXCEPT ![s] = z]
      /\ shut' = [shut EXCEPT !.idx = @ + 1]
  BY DEF ShutOne
<1>2. /\ UNCHANGED <<vec, buf, cap, made, ptr, peer, conn, waiting, recv, thread, bound, proc, todo, handles, loaded, faults>>
      /\ UNCHANGED registryVars
  BY DEF ShutOne, pluginVars, vectorVars, peerVars
<1>3. shut' \in [idx : Nat \ {0}, end : Nat, buf : Nat] /\ shut.idx \in Nat /\ shut.idx # 0
  <2>1. shut \in [idx : Nat \ {0}, end : Nat, buf : Nat]
    BY DEF Ready, TypeOK
  <2>2. shut.idx + 1 \in Nat \ {0} /\ shut.idx \in Nat /\ shut.idx # 0
    BY <2>1
  <2> QED BY <2>1, <2>2, <1>1
<1>4. s \in Ids
  <2>1. vec \in Seq(Ids) /\ Len(vec) \in Nat
    BY Typed DEF Ready
  <2>2. shut.idx \in 1 .. Len(vec)
    BY <1>1, <1>3, <2>1
  <2> QED BY <2>1, <2>2, ElementOfSeq
<1>5. stopped \subseteq Ids /\ \A m \in Ids : m \in stopped <=> (m = s /\ sess[m].launcher = "pid")
  BY <1>4 DEF WithProcess
<1> HIDE DEF s, stopped
<1>6. /\ z \in Session /\ z.dir = sess[s].dir /\ z.runtime = sess[s].runtime /\ z.client = sess[s].client
      /\ z.count = sess[s].count
      /\ s \notin stopped => z.launcher = sess[s].launcher
  <2>1. sess[s] \in Session
    BY <1>4, Typed2 DEF Ready
  <2> QED BY <2>1 DEF Session
<1> HIDE DEF z
<1>7. /\ SameKin /\ sess' \in [Ids -> Session] /\ sess'[s] = z
      /\ \A m \in Ids : m # s => sess'[m] = sess[m]
  BY <1>1, <1>4, <1>6, SessType DEF Ready
<1>8. /\ child' \in [Ids -> {"up", "crashed", "clean"}]
      /\ \A m \in Ids : m \notin stopped => child'[m] = child[m]
      /\ \A m \in stopped : child'[m] # "up" /\ (child'[m] = "crashed" => child[m] # "clean")
  BY <1>1, <1>5, StoppedFacts, Typed2 DEF Ready
<1>9. TypeOK'
  BY <1>2, <1>3, <1>7, <1>8 DEF Ready, TypeOK, RegistryTypeOK, registryVars
<1>10. \A m \in Ids : sess'[m].client = sess[m].client /\ sess'[m].count = sess[m].count
  BY <1>6, <1>7
<1>11. \A m \in Ids : child'[m] = "up" => child[m] = "up" /\ sess'[m].launcher = sess[m].launcher
  BY <1>6, <1>7, <1>8
<1>12. \A m \in Ids : child'[m] = "crashed" => child[m] # "clean"
  BY <1>8
<1> QED BY <1>2, <1>7, <1>8, <1>9, <1>10, <1>11, <1>12, EndingStep

LEMMA ShutClearStep ==
  ASSUME Ready, ShutClear
  PROVE  TypeOK' /\ Core' /\ Order'
<1> DEFINE S == WithProcess(Sessions)
<1>1. /\ Stopped(S) /\ \A n \in Sessions : CanClose(n, child')
      /\ proc' = "cleared" /\ vec' = <<>>
      /\ sess' = [n \in Ids |-> IF n \in Sessions THEN Empty(sess[n].dir, sess[n].runtime) ELSE sess[n]]
      /\ recv' = [n \in Ids |-> IF n \in Sessions THEN "off" ELSE recv[n]]
      /\ bound' = [rt \in Runtimes |->
             IF \E n \in Sessions : sess[n].runtime = rt /\ sess[n].link # "none"
             THEN Lost ELSE bound[rt]]
  BY DEF ShutClear, Sessions
<1>2. /\ UNCHANGED <<buf, cap, made, ptr, peer, conn, waiting, thread, todo, handles, loaded, shut, faults>>
      /\ UNCHANGED registryVars
  BY DEF ShutClear, pluginVars, peerVars
<1>3. S \subseteq Ids /\ \A n \in Ids : n \in S <=> (n \in Sessions /\ sess[n].launcher = "pid")
  <2>1. Sessions \subseteq Ids
    BY ToSetFacts, Typed DEF Ready, Sessions
  <2> QED BY <2>1 DEF WithProcess
<1> HIDE DEF S
<1>4. /\ child' \in [Ids -> {"up", "crashed", "clean"}]
      /\ \A m \in Ids : m \notin S => child'[m] = child[m]
      /\ \A m \in S : child'[m] # "up"
  BY <1>1, <1>3, StoppedFacts, Typed2 DEF Ready
<1>b. /\ Receivers /\ Processes /\ Backed /\ waiting \subseteq Ids
      /\ \A n \in Ids : recv[n] # "off" => n \in Sessions
  BY Typed2 DEF Ready, Core, Receivers
<1>5. \A n \in Ids : child'[n] # "up"
  BY <1>3, <1>4, <1>b DEF Processes
<1>6. \A n \in Ids : recv'[n] = "off" /\ recv[n] # "half"
  BY <1>1, <1>b DEF CanClose
<1>7. /\ sess' \in [Ids -> Session] /\ SameKin
  <2>1. ASSUME NEW n \in Ids
        PROVE  /\ sess[n] \in Session /\ Empty(sess[n].dir, sess[n].runtime) \in Session
               /\ Empty(sess[n].dir, sess[n].runtime).dir = sess[n].dir
               /\ Empty(sess[n].dir, sess[n].runtime).runtime = sess[n].runtime
    <3>1. sess[n] \in Session
      BY Typed2 DEF Ready
    <3>2. sess[n].dir \in DirNames /\ sess[n].runtime \in Runtimes
      BY <3>1, SessionFields
    <3> QED BY <3>1, <3>2, EmptyType
  <2> QED BY <1>1, <2>1 DEF SameKin
<1>8. /\ recv' \in [Ids -> {"off", "idle", "half", "done"}]
      /\ bound' \in [Runtimes -> {Lost} \cup Ids]
      /\ \A rt \in Runtimes : bound'[rt] \in {Lost, bound[rt]}
  BY <1>1, Typed2 DEF Ready
<1>9. vec' \in Seq(Ids) /\ Len(vec') = 0 /\ Sessions' = {}
  <2>1. DOMAIN vec' = {}
    BY <1>1
  <2> QED BY <2>1, <1>1 DEF Sessions, ToSet
<1>10. TypeOK'
  BY <1>1, <1>2, <1>4, <1>7, <1>8, <1>9 DEF Ready, TypeOK, RegistryTypeOK, registryVars
<1>11. Named'
  <2>1. Sessions' \subseteq Sessions /\ Len(vec)' \in Nat /\ Len(vec)' <= Len(vec)
    BY <1>9, Typed DEF Ready
  <2> QED BY <1>2, <1>5, <1>6, <1>8, <2>1, NamedShrinks
<1>12. SameRuntime'
  BY <1>2, <1>7, <1>8, SameRuntimeFrame
<1>13. Receivers'
  BY <1>6 DEF Receivers
<1>14. Starts' /\ SpawnsStay /\ Spawns'
  <2>1. SpawnsStay
    BY <1>2, SpawnsStaySame
  <2> QED BY <2>1, <1>2, <1>5, <1>6, <1>7, StartsFrame, SpawnsFrame
<1>15. Processes'
  BY <1>2, <1>5, <1>b DEF Processes
<1>16. Backed'
  BY <1>2, <1>6, <1>7, BackedFrame
<1>17. ASSUME made = 0 PROVE vec = <<>> /\ sess' = sess /\ recv' = recv /\ child' = child
  <2>1. Len(vec) = 0
    BY <1>17, Typed DEF Ready, Core, Named
  <2>2. vec = <<>> /\ Sessions = {}
    <3>1. vec = <<>>
      BY <2>1, Typed, EmptySeq DEF Ready
    <3> QED BY <3>1 DEF Sessions, ToSet
  <2>3. child' = child
    BY <2>2, <1>3, <1>4, Typed2 DEF Ready
  <2> QED BY <2>2, <2>3, <1>1, Typed2 DEF Ready
<1>18. Order'
  <2>1. SUFFICES ASSUME NoneDropped' PROVE Orderly'
    BY DEF Order
  <2>2. made = 0
    BY <2>1, <1>2, <1>9 DEF NoneDropped
  <2>3. UNCHANGED <<vec, sess, recv, child>>
    BY <2>2, <1>1, <1>17
  <2>4. /\ \A n \in Ids : Live(n)' => Live(n)
        /\ \A u \in Threads : \A d : Making(u, d)' => Making(u, d)
    BY <2>3, <1>2 DEF Live, Making
  <2>5. remote' = remote
    BY <1>2 DEF registryVars
  <2>6. \A m \in Ids : sess'[m].client = sess[m].client /\ sess'[m].count \in {0, sess[m].count}
    BY <2>3
  <2>7. Order'
    BY <2>3, <2>4, <2>5, <2>6, <1>2, <1>7, <1>14, OrderFrame
  <2> QED BY <2>1, <2>7 DEF Order
<1> QED BY <1>10, <1>11, <1>12, <1>13, <1>14, <1>15, <1>16, <1>18 DEF Core

\* A list without elements is empty.
LEMMA NoElements ==
  ASSUME NEW T, NEW s \in Seq(T), ToSet(s) = {} PROVE s = <<>>
<1>1. DOMAIN s = 1 .. Len(s) /\ Len(s) \in Nat /\ \A i \in 1 .. Len(s) : s[i] \in ToSet(s)
  BY ToSetFacts
<1>2. ~(1 \in 1 .. Len(s))
  BY <1>1
<1>3. Len(s) = 0
  BY <1>1, <1>2
<1> QED BY <1>3, EmptySeq

LEMMA ShutPluginsStep ==
  ASSUME Ready, ShutPlugins
  PROVE  TypeOK' /\ proc' = "ended" /\ ShutdownLeavesNone'
<1> DEFINE gone == {p.plugin : p \in ToSet(loaded)}
           others == {e \in Entry : e.name[1] \notin gone}
<1>1. /\ proc' = "ended" /\ entries' = Kept(entries, others) /\ remote' = Kept(remote, others)
      /\ Rebuild /\ handles' = handles \ gone /\ loaded' = <<>>
  BY DEF ShutPlugins, Others, Unload
<1>2. UNCHANGED <<vec, buf, cap, made, ptr, peer, conn, sess, child, waiting, recv, thread, bound, todo, shut, faults>>
  BY DEF ShutPlugins, vectorVars, peerVars
<1> HIDE DEF others
<1>3. /\ remote' \in Seq(Entry) /\ ToSet(remote') = {e \in ToSet(remote) : e \in others}
      /\ entries' \in Seq(Entry) /\ ToSet(entries') = {e \in ToSet(entries) : e \in others}
      /\ RegistryTypeOK'
  <2>1. remote \in Seq(Entry) /\ entries \in Seq(Entry)
    BY DEF Ready, TypeOK, RegistryTypeOK
  <2>2. /\ remote' \in Seq(Entry) /\ ToSet(remote') = {e \in ToSet(remote) : e \in others}
        /\ entries' \in Seq(Entry) /\ ToSet(entries') = {e \in ToSet(entries) : e \in others}
    BY <2>1, <1>1, KeptSet
  <2>3. RegistryInv'
    BY <2>2, <1>1, RebuildInv
  <2> QED BY <2>2, <2>3 DEF RegistryInv
<1>4. TypeOK'
  BY <1>1, <1>2, <1>3 DEF Ready, TypeOK
<1>5. \A q : Recorded(q) => q \in gone
  BY DEF Recorded
<1>6. \A l : RecordedLib(l) => l \in gone
  BY DEF RecordedLib
<1>b. Receivers /\ Processes /\ Backed
  BY DEF Ready, Core
<1>7. ASSUME vec = <<>>
      PROVE  /\ \A c \in Ids : child'[c] # "up"
             /\ entries' = <<>> /\ remote' = <<>> /\ handles' = {}
  <2>1. Sessions = {}
    BY <1>7 DEF Sessions, ToSet
  <2>2. \A c \in Ids : child'[c] # "up"
    BY <2>1, <1>2, <1>b DEF Processes
  <2>3. handles' = {}
    BY <1>1, <1>6, <1>b DEF Backed
  <2>4. \A e \in ToSet(entries) : e \notin others
    BY <1>6, <1>b DEF Backed, others
  <2>5. \A e \in ToSet(remote) : e \notin others
    <3>1. \A q : ~HalfAnnounced(q)
      BY <2>1, <1>b DEF Receivers, HalfAnnounced
    <3> QED BY <3>1, <1>5, <1>b DEF Backed, others
  <2>6. entries' = <<>> /\ remote' = <<>>
    BY <2>4, <2>5, <1>3, NoElements
  <2> QED BY <2>2, <2>3, <2>6
<1>8. ShutdownLeavesNone'
  BY <1>2, <1>7 DEF ShutdownLeavesNone
<1> QED BY <1>1, <1>4, <1>8

LEMMA CollapseStep ==
  ASSUME TypeOK, Collapse PROVE TypeOK' /\ proc' = "undefined"
<1>1. proc' = "undefined" /\ UNCHANGED <<todo, shut, faults>>
  BY DEF Collapse
<1>2. Lost \in {Lost} \cup Ids
  OBVIOUS
<1>3. sess' \in [Ids -> Session]
  <2>1. NoDir \in DirNames /\ "python" \in Runtimes
    BY DEF DirNames, Runtimes
  <2> QED BY <2>1, EmptyType DEF Collapse, NoSession
<1>4. thread' \in [Threads -> Thread]
  BY IdleType DEF Collapse, NoThread
<1>5. /\ ptr' \in [Ids -> [buf : Nat, idx : Nat]] /\ vec' \in Seq(Ids)
      /\ buf' \in Nat /\ cap' \in Nat /\ made' \in {0} \cup Ids
      /\ child' \in [Ids -> {"up", "crashed", "clean"}] /\ waiting' \subseteq Ids
      /\ conn' \in [Ids -> {Lost} \cup Ids] /\ peer' \in [Ids -> {Lost} \cup Ids]
      /\ recv' \in [Ids -> {"off", "idle", "half", "done"}]
      /\ bound' \in [Runtimes -> {Lost} \cup Ids]
  BY DEF Collapse, NoPtr, Nobody, NoPath
<1>6. /\ RegistryTypeOK' /\ handles' \subseteq Plugins /\ loaded' \in Seq(Plugin)
  BY DEF Collapse, RegistryTypeOK
<1> QED BY <1>1, <1>3, <1>4, <1>5, <1>6 DEF TypeOK, Thread

LEMMA NextDirType ==
  ASSUME TypeOK, todo.dirs # <<>>, NextDir
  PROVE  todo' \in [dirs : Seq(DOMAIN Runtime), libs : SUBSET Plugins]
<1>1. todo.dirs \in Seq(DOMAIN Runtime)
  BY DEF TypeOK
<1>2. Tail(todo.dirs) \in Seq(DOMAIN Runtime)
  BY <1>1, HeadTailProperties
<1>3. LibsAhead(Tail(todo.dirs)) \in SUBSET Plugins
  <2>1. CASE Tail(todo.dirs) = <<>>
    BY <2>1 DEF LibsAhead
  <2>2. CASE Tail(todo.dirs) # <<>>
    <3>1. Head(Tail(todo.dirs)) \in DOMAIN Runtime
      BY <2>2, <1>2, HeadTailProperties
    <3> QED BY <2>2, <3>1, LifecycleAssumption DEF LibsAhead
  <2> QED BY <2>1, <2>2
<1> QED BY <1>2, <1>3 DEF NextDir

LEMMA InitDirStep ==
  ASSUME Ready, InitDir
  PROVE  TypeOK' /\ Core' /\ Order'
<1> DEFINE d == Head(todo.dirs)
           next == [stage |-> "make", ses |-> Lost, dir |-> d, runtime |-> Runtime[d]]
<1>1. /\ thread[Main] = Idle /\ todo.dirs # <<>> /\ NextDir
      /\ \/ UNCHANGED thread
         \/ Runtime[d] # Native /\ thread' = [thread EXCEPT ![Main] = next]
  BY DEF InitDir, InitTurn
<1>2. /\ UNCHANGED <<vec, buf, cap, made, ptr, peer, conn, sess, child, waiting, recv, bound, proc, handles, loaded, shut, faults>>
      /\ UNCHANGED registryVars
  BY DEF InitDir, vectorVars, peerVars
<1>3. d \in DOMAIN Runtime
  BY <1>1, HeadTailProperties DEF Ready, TypeOK
<1>4. Runtime[d] # Native => next \in Thread /\ next.ses = Lost /\ next.stage = "make" /\ next.dir = d
  <2>1. Runtime[d] \in Runtimes \cup {Native}
    BY <1>3, LifecycleAssumption
  <2> QED BY <1>3, <2>1 DEF Thread, Stages, DirNames, SidecarDirs
<1> HIDE DEF next
<1>5. /\ thread' \in [Threads -> Thread]
      /\ \A u \in Threads : u # Main => thread'[u] = thread[u]
      /\ thread'[Main].ses = Lost /\ thread'[Main].stage \in {"off", "make"}
      /\ thread'[Main].stage = "make" => thread'[Main].dir = d
      /\ Ids \subseteq Threads /\ Main \in Threads /\ Main \notin Ids
  <2>1. Ids \subseteq Threads /\ Main \in Threads /\ Main \notin Ids /\ thread \in [Threads -> Thread]
    BY Typed DEF Ready
  <2>2. CASE UNCHANGED thread
    BY <2>1, <2>2, <1>1, IdleType
  <2>3. CASE Runtime[d] # Native /\ thread' = [thread EXCEPT ![Main] = next]
    BY <2>1, <2>3, <1>4
  <2> QED BY <1>1, <2>2, <2>3, <2>1
<1>6. todo' \in [dirs : Seq(DOMAIN Runtime), libs : SUBSET Plugins]
  BY <1>1, NextDirType DEF Ready
<1>7. TypeOK'
  BY <1>2, <1>5, <1>6 DEF Ready, TypeOK, Thread, RegistryTypeOK, registryVars
<1>8. Named'
  <2>1. \A u \in Threads : thread'[u].ses \in {Lost, thread[u].ses}
    BY <1>5
  <2>2. \A m \in Ids : thread[m].stage = "off" => thread'[m].stage = "off"
    BY <1>5
  <2> QED BY <1>2, <2>1, <2>2, NamedFrame
<1>9. Starts'
  <2>1. \A u \in Threads : thread'[u].stage \in Starting =>
            /\ thread[u].stage \in Starting /\ thread'[u].ses = thread[u].ses
            /\ thread'[u].stage = "wire" <=> thread[u].stage = "wire"
    BY <1>5 DEF Starting
  <2> QED BY <1>2, <2>1, StartsFrame
<1>s. SpawnsStay /\ Spawns'
  <2>1. SpawnsStay
    BY <1>5, SpawnsStayFacts
  <2>2. \A m \in Ids : thread[m].stage = "off" => thread'[m].stage = "off"
    BY <1>5
  <2> QED BY <2>1, <2>2, <1>2, SameSess, SpawnsFrame
<1>10. Processes'
  <2>1. thread'[Main].stage \notin Restarting
    BY <1>5 DEF Restarting
  <2>2. \A m \in Ids : thread[m].stage = "off" => thread'[m].stage = "off"
    BY <1>5
  <2>3. \A m \in Ids : child[m] = "up" => m \in waiting
    BY DEF Ready, Core, Processes
  <2> QED BY <1>2, <2>1, <2>2, <2>3, ProcessesFrame DEF Sessions
<1>11. Receivers' /\ SameRuntime' /\ Backed'
  BY <1>2, SameSess, SameRuntimeFrame, BackedFrame DEF Ready, Core, Receivers, Sessions
<1>12. /\ \A q : Awaits(q)' => Awaits(q) /\ (Claims => q # d)
       /\ Claims => \A i, j \in DOMAIN todo'.dirs : todo'.dirs[i] = todo'.dirs[j] => i = j
       /\ Awaits(d)
  <2> DEFINE ds == todo.dirs
  <2>1. ds \in Seq(DOMAIN Runtime) /\ ds # <<>> /\ todo'.dirs = Tail(ds)
    BY <1>1 DEF Ready, TypeOK, NextDir
  <2> HIDE DEF ds
  <2>2. /\ Len(ds) \in Nat /\ Len(ds) # 0 /\ DOMAIN ds = 1 .. Len(ds)
        /\ Len(Tail(ds)) = Len(ds) - 1 /\ DOMAIN Tail(ds) = 1 .. Len(ds) - 1
        /\ \A i \in 1 .. Len(ds) - 1 : Tail(ds)[i] = ds[i + 1]
    BY <2>1
  <2>3. \A i \in DOMAIN Tail(ds) : i \in Nat /\ i + 1 \in DOMAIN ds /\ i + 1 # 1 /\ Tail(ds)[i] = ds[i + 1]
    BY <2>2
  <2>4. 1 \in DOMAIN ds /\ ds[1] = d
    BY <2>1, <2>2 DEF ds
  <2>5. Claims => \A i, j \in DOMAIN ds : ds[i] = ds[j] => i = j
    BY DEF Claims, ds
  <2>6. ASSUME NEW q, Awaits(q)' PROVE Awaits(q) /\ (Claims => q # d)
    <3>1. PICK i \in DOMAIN Tail(ds) : Tail(ds)[i] = q
      BY <2>1, <2>6 DEF Awaits
    <3> QED BY <3>1, <2>3, <2>4, <2>5 DEF Awaits, ds
  <2>7. ASSUME Claims, NEW i \in DOMAIN Tail(ds), NEW j \in DOMAIN Tail(ds), Tail(ds)[i] = Tail(ds)[j]
        PROVE  i = j
    <3>1. i + 1 = j + 1
      BY <2>3, <2>5, <2>7
    <3> QED BY <3>1, <2>3
  <2>8. Awaits(d)
    BY <2>4 DEF Awaits, ds
  <2> QED BY <2>1, <2>6, <2>7, <2>8
<1>13. ASSUME NoneDropped, Orderly PROVE Orderly'
  <2>1. Placed /\ Owned /\ Stale /\ Counts /\ Claims
    BY <1>13 DEF Orderly
  <2>2. Placed' /\ Counts' /\ Stale'
    <3>1. Placed'
      BY <1>2, <2>1 DEF Placed
    <3>2. Stale'
      BY <1>2, <2>1, SameSess, StaleFrame DEF registryVars
    <3>3. sess' \in [Ids -> Session]
      BY <1>2, Typed2 DEF Ready
    <3> QED BY <3>1, <3>2, <3>3, <1>2, <1>s, <2>1, CountsFrame
  <2>3. Owned'
    <3>1. \A n \in Ids : thread[n].stage \in Freed => thread'[n].stage \in Freed
      BY <1>5
    <3> QED BY <1>2, <2>1, <3>1, SameSess, OwnedFrame DEF registryVars
  <2>4. /\ \A n \in Ids : Live(n)' => Live(n)
        /\ \A u \in Threads : \A q : Making(u, q)' => (Making(u, q) /\ u # Main) \/ (u = Main /\ q = d)
    <3>1. \A n \in Ids : Live(n)' => Live(n)
      BY <1>2, <1>5 DEF Live
    <3> QED BY <3>1, <1>5 DEF Making
  <2>5. d \in SidecarDirs =>
            (\A n \in Ids : Live(n) => sess[n].dir # d) /\ (\A u \in Threads : ~Making(u, d))
    BY <2>1, <1>12 DEF Claims
  <2>6. Claims'
    <3>1. \A m, n \in Ids :
          Live(m)' /\ Live(n)' /\ sess'[m].dir = sess'[n].dir /\ sess'[n].dir # NoDir => m = n
      BY <2>1, <2>4, <1>2 DEF Claims
    <3>2. \A u \in Threads, n \in Ids : Live(n)' /\ sess'[n].dir # NoDir => ~Making(u, sess[n].dir)'
      <4>1. SUFFICES ASSUME NEW u \in Threads, NEW n \in Ids, Live(n)', sess[n].dir # NoDir,
                            Making(u, sess[n].dir)'
                     PROVE  FALSE
        BY <1>2
      <4>2. Live(n) /\ ~Making(u, sess[n].dir)
        BY <2>1, <2>4, <4>1 DEF Claims
      <4>3. \A q : q = sess'[n].dir => (Making(u, q) /\ u # Main) \/ (u = Main /\ q = d)
        BY <2>4, <4>1 DEF Making
      <4>4. sess[n].dir = d
        BY <4>2, <4>3, <1>2
      <4>5. sess[n].dir \in SidecarDirs
        BY <4>1, Typed2, SessionFields DEF Ready, DirNames
      <4> QED BY <2>5, <4>2, <4>4, <4>5
    <3>3. \A u, v \in Threads : \A q \in SidecarDirs : Making(u, q)' /\ Making(v, q)' => u = v
      BY <2>1, <2>4, <2>5 DEF Claims
    <3>4. \A q \in SidecarDirs : Awaits(q)' =>
            /\ \A n \in Ids : Live(n)' => sess'[n].dir # q
            /\ \A u \in Threads : ~Making(u, q)'
      BY <2>1, <2>4, <1>2, <1>12 DEF Claims
    <3>5. \A i, j \in DOMAIN todo'.dirs : todo'.dirs[i] = todo'.dirs[j] => i = j
      BY <1>12, <2>1
    <3> QED BY <3>1, <3>2, <3>3, <3>4, <3>5 DEF Claims
  <2> QED BY <2>2, <2>3, <2>6 DEF Orderly
<1>14. Order'
  BY <1>2, <1>13 DEF Ready, Order, NoneDropped
<1> QED BY <1>7, <1>8, <1>9, <1>s, <1>10, <1>11, <1>14 DEF Core

LEMMA LoadOneStep ==
  ASSUME Ready, NEW lib \in Plugins, LoadOne(lib)
  PROVE  TypeOK' /\ Core' /\ Order'
<1> DEFINE p == [plugin |-> lib, runtime |-> Native, provider |-> lib \in Providers]
           e == [name |-> <<lib, Tool>>, via |-> Lost]
<1>1. todo' = [todo EXCEPT !.libs = @ \ {lib}]
  BY DEF LoadOne
<1>2. \/ handles' = handles /\ loaded' = loaded /\ UNCHANGED registryVars
      \/ /\ handles' = handles \cup {lib} /\ loaded' = Append(loaded, p)
         /\ UNCHANGED registryVars \/ RegisterProvider(<<e>>)
  BY DEF LoadOne, Open
<1>3. /\ UNCHANGED <<vec, buf, cap, made, ptr, peer, conn, sess, child, waiting, recv, thread, bound, proc, shut, faults>>
  BY DEF LoadOne, vectorVars, peerVars
<1>4. p \in Plugin /\ p.plugin = lib /\ p.runtime = Native
  BY DEF Plugin
<1>5. e \in Entry /\ e.name[1] = lib
  BY LifecycleAssumption DEF Entry, Qualified
<1> HIDE DEF p, e
<1>6. todo' \in [dirs : Seq(DOMAIN Runtime), libs : SUBSET Plugins]
  BY <1>1 DEF Ready, TypeOK
<1>7. /\ loaded' \in Seq(Plugin) /\ handles' \subseteq Plugins
      /\ ToSet(loaded) \subseteq ToSet(loaded')
      /\ handles' = handles \/ (handles' = handles \cup {lib} /\ RecordedLib(lib)')
  <2>1. loaded \in Seq(Plugin) /\ handles \subseteq Plugins
    BY DEF Ready, TypeOK
  <2>2. Append(loaded, p) \in Seq(Plugin) /\ ToSet(Append(loaded, p)) = ToSet(loaded) \cup {p}
    BY <2>1, <1>4, ToSetAppend
  <2> QED BY <2>1, <2>2, <1>2, <1>4 DEF RecordedLib
<1>8. /\ RegistryTypeOK' /\ remote' = remote
      /\ \A x \in ToSet(entries') : x \in ToSet(entries) \/ (x.name[1] = lib /\ lib \in handles')
  <2>1. remote \in Seq(Entry) /\ entries \in Seq(Entry) /\ RegistryTypeOK
    BY DEF Ready, TypeOK, RegistryTypeOK
  <2>2. CASE UNCHANGED registryVars
    BY <2>1, <2>2 DEF registryVars, RegistryTypeOK
  <2>3. CASE RegisterProvider(<<e>>) /\ handles' = handles \cup {lib}
    <3>1. entries' = entries \o <<e>> /\ remote' = remote /\ Rebuild
      BY <2>3 DEF RegisterProvider
    <3>2. entries' \in Seq(Entry) /\ ToSet(entries') = ToSet(entries) \cup {e}
      BY <3>1, <2>1, <1>5, ToSetConcatOne
    <3>3. RegistryInv'
      BY <3>1, <3>2, <2>1, RebuildInv
    <3> QED BY <3>1, <3>2, <3>3, <2>3, <1>5 DEF RegistryInv
  <2> QED BY <1>2, <2>2, <2>3
<1>9. TypeOK'
  BY <1>3, <1>6, <1>7, <1>8 DEF Ready, TypeOK
<1>10. Named' /\ SameRuntime' /\ Receivers' /\ Starts' /\ Spawns' /\ Processes'
  BY <1>3 DEF Ready, Core, Named, SameRuntime, Receivers, Starts, Spawns, Unspawned, Processes, Sessions
<1>11. Backed'
  <2>1. Backed
    BY DEF Ready, Core
  <2>2. \A q : Recorded(q) => Recorded(q)'
    BY <1>7 DEF Recorded
  <2>3. \A l : RecordedLib(l) => RecordedLib(l)'
    BY <1>7 DEF RecordedLib
  <2>4. \A q : HalfAnnounced(q) => HalfAnnounced(q)'
    BY <1>3 DEF HalfAnnounced
  <2>5. \A x \in ToSet(entries') : x.name[1] \in handles'
    BY <2>1, <1>7, <1>8 DEF Backed
  <2>6. \A l \in handles' : RecordedLib(l)'
    BY <2>1, <2>3, <1>7 DEF Backed
  <2>7. \A x \in ToSet(remote') : Recorded(x.name[1])' \/ HalfAnnounced(x.name[1])'
    BY <2>1, <2>2, <2>4, <1>8 DEF Backed
  <2> QED BY <2>5, <2>6, <2>7 DEF Backed
<1>12. Order'
  <2>1. \A n \in Ids : Live(n)' => Live(n)
    BY <1>3 DEF Live
  <2>2. \A u \in Threads : \A d : Making(u, d)' => Making(u, d)
    BY <1>3 DEF Making
  <2>3. todo'.dirs = todo.dirs
    BY <1>1 DEF Ready, TypeOK
  <2>4. \A m \in Ids : sess'[m].client = sess[m].client /\ sess'[m].count \in {0, sess[m].count}
    BY <1>3
  <2> QED BY <1>3, <1>7, <1>8, <2>1, <2>2, <2>3, <2>4, SameSess, SpawnsStaySame, Typed2, OrderFrame DEF Ready
<1> QED BY <1>9, <1>10, <1>11, <1>12 DEF Core
-----------------------------------------------------------------------------
(* The invariant *)

LEMMA InitInv ==
  ASSUME Init PROVE IInv
<1>1. /\ entries = <<>> /\ remote = <<>> /\ schemas = <<>>
      /\ proc = "up" /\ todo = [dirs |-> Dirs, libs |-> LibsAhead(Dirs)]
      /\ handles = {} /\ loaded = <<>> /\ vec = <<>> /\ buf = 0 /\ cap = 0 /\ made = 0
      /\ ptr = NoPtr /\ sess = NoSession /\ child = [n \in Ids |-> "clean"] /\ waiting = {}
      /\ conn = Nobody /\ peer = Nobody /\ recv = [n \in Ids |-> "off"]
      /\ thread = NoThread /\ bound = NoPath /\ shut = [idx |-> 1, end |-> 0, buf |-> 0] /\ faults = 0
  BY DEF Init, RegistryInit
<1>2. todo \in [dirs : Seq(DOMAIN Runtime), libs : SUBSET Plugins] /\ todo.dirs = Dirs
  <2>1. Dirs \in Seq(DOMAIN Runtime)
    BY LifecycleAssumption
  <2>2. LibsAhead(Dirs) \in SUBSET Plugins
    <3>1. CASE Dirs = <<>>
      BY <3>1 DEF LibsAhead
    <3>2. CASE Dirs # <<>>
      <4>1. Head(Dirs) \in DOMAIN Runtime
        BY <2>1, <3>2, HeadTailProperties
      <4> QED BY <3>2, <4>1, LifecycleAssumption DEF LibsAhead
    <3> QED BY <3>1, <3>2
  <2> QED BY <2>1, <2>2, <1>1
<1>3. /\ sess \in [Ids -> Session] /\ \A n \in Ids : sess[n].count = 0 /\ sess[n].dir = NoDir
      /\ \A n \in Ids : ptr[n].idx = 0 /\ ptr[n].buf = 0 /\ child[n] = "clean" /\ recv[n] = "off"
                        /\ conn[n] = Lost /\ peer[n] = Lost
      /\ \A rt \in Runtimes : bound[rt] = Lost
  <2>1. NoDir \in DirNames /\ "python" \in Runtimes
    BY DEF DirNames, Runtimes
  <2>2. sess \in [Ids -> Session] /\ \A n \in Ids : sess[n].count = 0 /\ sess[n].dir = NoDir
    <3> DEFINE empty == Empty(NoDir, "python")
    <3>1. empty \in Session /\ empty.count = 0 /\ empty.dir = NoDir
      BY <2>1, EmptyType
    <3>2. sess = [n \in Ids |-> empty]
      BY <1>1 DEF NoSession
    <3> HIDE DEF empty
    <3> QED BY <3>1, <3>2
  <2>3. \A n \in Ids : ptr[n].idx = 0 /\ ptr[n].buf = 0 /\ child[n] = "clean" /\ recv[n] = "off"
    BY <1>1 DEF NoPtr
  <2>4. \A n \in Ids : conn[n] = Lost /\ peer[n] = Lost
    BY <1>1 DEF Nobody
  <2>5. \A rt \in Runtimes : bound[rt] = Lost
    BY <1>1 DEF NoPath
  <2> QED BY <2>2, <2>3, <2>4, <2>5
<1>4. thread \in [Threads -> Thread] /\ \A t \in Threads : thread[t].stage = "off" /\ thread[t].ses = Lost
  BY <1>1, IdleType DEF NoThread
<1>5. TypeOK
  <2>1. RegistryTypeOK /\ loaded \in Seq(Plugin) /\ vec \in Seq(Ids)
    BY <1>1 DEF RegistryTypeOK
  <2>2. /\ ptr \in [Ids -> [buf : Nat, idx : Nat]]
        /\ child \in [Ids -> {"up", "crashed", "clean"}] /\ waiting \subseteq Ids
        /\ conn \in [Ids -> {Lost} \cup Ids] /\ peer \in [Ids -> {Lost} \cup Ids]
        /\ recv \in [Ids -> {"off", "idle", "half", "done"}]
        /\ bound \in [Runtimes -> {Lost} \cup Ids]
    BY <1>1 DEF NoPtr, Nobody, NoPath
  <2>3. shut \in [idx : Nat \ {0}, end : Nat, buf : Nat] /\ faults \in 0 .. MaxFaults
    BY <1>1, LifecycleAssumption
  <2> QED BY <1>1, <1>2, <1>3, <1>4, <2>1, <2>2, <2>3 DEF TypeOK, Thread
<1>6. Sessions = {} /\ ToSet(entries) = {} /\ ToSet(remote) = {} /\ Len(vec) = 0 /\ DOMAIN vec = {}
  BY <1>1 DEF Sessions, ToSet
<1>7. Ids \subseteq Threads /\ Main \in Threads /\ Lost = 0 /\ \A n \in Ids : n \in Nat /\ n > 0
  BY Typed, <1>5 DEF Ids, Threads, Lost
<1>8. Named
  BY <1>1, <1>3, <1>4, <1>6, <1>7 DEF Named
<1>9. SameRuntime /\ Receivers /\ Starts /\ Spawns
  BY <1>3, <1>4, <1>7 DEF SameRuntime, Receivers, Starts, Spawns, Starting
<1>10. Processes
  BY <1>1, <1>3, <1>4, <1>7 DEF Processes, Restarting
<1>11. Backed
  BY <1>1, <1>6 DEF Backed
<1>12. Placed /\ Owned /\ Stale /\ Counts
  BY <1>1, <1>3, <1>4, <1>6, <1>7 DEF Placed, Owned, Stale, Counts
<1>13. Claims
  <2>1. (\A n \in Ids : ~Live(n)) /\ \A t \in Threads : \A d : ~Making(t, d)
    BY <1>1, <1>3, <1>4, <1>7 DEF Live, Making, Restarting
  <2> QED BY <2>1, <1>2, DistinctDirs DEF Claims
<1> QED BY <1>1, <1>5, <1>8, <1>9, <1>10, <1>11, <1>12, <1>13 DEF IInv, Core, Orderly, ShutdownLeavesNone

\* The program stays up, but for a destructor that is done.
LEMMA StillReady ==
  ASSUME TypeOK', Core', Order', proc' # "ended" PROVE IInv'
  BY DEF IInv, Order, ShutdownLeavesNone

\* An undefined behaviour ends the model.
LEMMA CollapseInv ==
  ASSUME TypeOK, Collapse PROVE IInv'
<1>1. TypeOK' /\ proc' = "undefined"
  BY CollapseStep
<1>2. ~Running'
  BY <1>1 DEF Running
<1> QED BY <1>1, <1>2 DEF IInv, ShutdownLeavesNone

LEMMA StartInv ==
  ASSUME Ready, NEW t \in Threads, Start(t) PROVE IInv'
<1>1. proc # "ended"
  BY DEF Ready, Running
<1>2. CASE Make(t)
  BY <1>1, <1>2, MakeStep, StillReady DEF Make
<1>3. CASE Spawn(t)
  BY <1>1, <1>3, SpawnStep, StillReady DEF Spawn
<1>4. CASE Listen(t)
  BY <1>1, <1>4, ListenStep, StillReady DEF Listen
<1>5. CASE Accept(t)
  BY <1>1, <1>5, AcceptStep, StillReady DEF Accept
<1>6. CASE Wire(t)
  BY <1>1, <1>6, WireStep, StillReady DEF Wire
<1>7. CASE StartFails(t)
  BY <1>1, <1>7, StartFailsStep, StillReady DEF StartFails
<1>8. CASE Undone(t)
  BY <1>8, CollapseInv DEF Undone, Ready
<1> QED BY <1>2, <1>3, <1>4, <1>5, <1>6, <1>7, <1>8 DEF Start

LEMMA RestartInv ==
  ASSUME Ready, NEW t \in Ids, Restart(t) PROVE IInv'
<1>1. proc # "ended"
  BY DEF Ready, Running
<1>2. CASE ResetClient(t)
  BY <1>1, <1>2, ResetClientStep, StillReady DEF ResetClient
<1>3. CASE ResetLauncher(t)
  BY <1>1, <1>3, ResetLauncherStep, StillReady DEF ResetLauncher
<1>4. CASE ResetTransport(t)
  BY <1>1, <1>4, ResetTransportStep, StillReady DEF ResetTransport
<1>5. CASE Sweep(t)
  BY <1>1, <1>5, SweepStep, StillReady DEF Sweep
<1> QED BY <1>2, <1>3, <1>4, <1>5 DEF Restart

\* What the processes and the threads of session n do.
LEMMA SessionInv ==
  ASSUME Ready, NEW n \in Ids,
         Connect(n) \/ End(n) \/ Announce(n) \/ Push(n) \/ Unhealthy(n) \/ Exit(n)
  PROVE  IInv'
<1>1. proc # "ended"
  BY DEF Ready, Running
<1>2. CASE Connect(n)
  BY <1>1, <1>2, ConnectStep, StillReady DEF Connect
<1>3. CASE End(n)
  BY <1>1, <1>3, EndStep, StillReady DEF End
<1>4. CASE Announce(n)
  BY <1>1, <1>4, AnnounceStep, StillReady DEF Announce
<1>5. CASE Push(n)
  BY <1>1, <1>5, PushStep, StillReady DEF Push
<1>6. CASE Unhealthy(n)
  BY <1>1, <1>6, UnhealthyStep, StillReady DEF Unhealthy
<1>7. CASE Exit(n)
  BY <1>1, <1>7, ExitStep, StillReady DEF Exit
<1> QED BY <1>2, <1>3, <1>4, <1>5, <1>6, <1>7

LEMMA MainInv ==
  ASSUME Ready, (\E lib \in Plugins : LoadOne(lib)) \/ InitDir \/ Shutdown \/ Destroy
  PROVE  IInv'
<1>1. proc # "ended"
  BY DEF Ready, Running
<1>2. ASSUME NEW lib \in Plugins, LoadOne(lib) PROVE IInv'
  BY <1>1, <1>2, LoadOneStep, StillReady DEF LoadOne
<1>3. CASE InitDir
  BY <1>1, <1>3, InitDirStep, StillReady DEF InitDir
<1>4. CASE Shutdown
  BY <1>1, <1>4, ShutdownStep, StillReady DEF Shutdown
<1>5. CASE ShutOne
  BY <1>1, <1>5, ShutOneStep, StillReady DEF ShutOne
<1>6. CASE ShutClear
  BY <1>1, <1>6, ShutClearStep, StillReady DEF ShutClear
<1>7. CASE ShutPlugins
  <2>1. TypeOK' /\ proc' = "ended" /\ ShutdownLeavesNone'
    BY <1>7, ShutPluginsStep
  <2>2. ~Running'
    BY <2>1 DEF Running
  <2> QED BY <2>1, <2>2 DEF IInv
<1> QED BY <1>2, <1>3, <1>4, <1>5, <1>6, <1>7 DEF Destroy

\* Nothing happens in a program that has ended, but that a restart outlives it.
LEMMA NextRuns ==
  ASSUME Next PROVE Running \/ Undefined
<1>1. ASSUME NEW t \in Threads, Start(t) PROVE Running
  BY <1>1 DEF Start, Make, Spawn, Listen, Accept, Wire, StartFails, Undone, At
<1>2. ASSUME NEW t \in Ids, Restart(t) PROVE Running
  BY <1>2 DEF Restart, ResetClient, ResetLauncher, ResetTransport, Sweep, At
<1>3. ASSUME NEW n \in Ids,
             Connect(n) \/ End(n) \/ Announce(n) \/ Push(n) \/ Unhealthy(n) \/ Exit(n)
      PROVE  Running
  BY <1>3 DEF Connect, End, Announce, Push, Unhealthy, Exit
<1>4. CASE (\E lib \in Plugins : LoadOne(lib)) \/ InitDir
  BY <1>4 DEF LoadOne, InitDir, InitTurn, Running
<1>6. CASE Shutdown \/ Destroy
  BY <1>6 DEF Shutdown, Destroy, ShutOne, ShutClear, ShutPlugins, Running
<1> QED BY <1>1, <1>2, <1>3, <1>4, <1>6 DEF Next

LEMMA NextInv ==
  ASSUME IInv, [Next]_vars PROVE IInv'
<1>1. CASE Next
  <2>1. Running => Ready
    BY DEF IInv, Ready, Order
  <2>6. CASE Undefined
    BY <2>6, CollapseInv DEF Undefined, IInv
  <2>7. ASSUME Running PROVE IInv'
    <3>1. Ready
      BY <2>1, <2>7
    <3>2. CASE \E t \in Threads : Start(t)
      BY <3>1, <3>2, StartInv
    <3>3. CASE \E n \in Ids : Restart(n)
      BY <3>1, <3>3, RestartInv
    <3>4. CASE \E n \in Ids : Connect(n) \/ End(n) \/ Announce(n) \/ Push(n) \/ Unhealthy(n) \/ Exit(n)
      BY <3>1, <3>4, SessionInv
    <3>5. CASE (\E lib \in Plugins : LoadOne(lib)) \/ InitDir \/ Shutdown \/ Destroy
      BY <3>1, <3>5, MainInv
    <3> QED BY <1>1, <2>6, <3>2, <3>3, <3>4, <3>5 DEF Next
  <2> QED BY <1>1, <2>6, <2>7, NextRuns
<1>2. CASE UNCHANGED vars
  <2>1. /\ UNCHANGED <<entries, remote, schemas, proc, todo, handles, loaded, vec, buf, cap, made, ptr, sess>>
        /\ UNCHANGED <<child, waiting, conn, peer, recv, thread, bound, shut, faults>>
    BY <1>2 DEF vars, registryVars, pluginVars, vectorVars, peerVars
  <2>2. TypeOK'
    BY <2>1 DEF IInv, TypeOK, RegistryTypeOK
  <2>3. /\ Running' <=> Running
        /\ NoneDropped' <=> NoneDropped
    BY <2>1 DEF Running, NoneDropped
  <2>4. ShutdownLeavesNone'
    BY <2>1 DEF IInv, ShutdownLeavesNone
  <2>5. Core => Core'
    <3>0. Sessions' = Sessions
      BY <2>1 DEF Sessions
    <3>1. Named => Named'
      BY <2>1, <3>0 DEF Named
    <3>2. SameRuntime => SameRuntime'
      BY <2>1 DEF SameRuntime
    <3>3. Receivers => Receivers'
      BY <2>1, <3>0, Zenon DEF Receivers
    <3>4. Starts => Starts'
      BY <2>1, Zenon DEF Starts
    <3>7. Spawns => Spawns'
      BY <2>1, Zenon DEF Spawns, Unspawned
    <3>5. Processes => Processes'
      BY <2>1, <3>0, Zenon DEF Processes
    <3>6. Backed => Backed'
      BY <2>1, Zenon DEF Backed, Recorded, RecordedLib, HalfAnnounced
    <3> QED BY <3>1, <3>2, <3>3, <3>4, <3>5, <3>6, <3>7 DEF Core
  <2>6. (Placed => Placed') /\ (Stale => Stale')
    BY <2>1 DEF Placed, Stale, MovedFrom
  <2>7. Owned => Owned'
    BY <2>1 DEF Owned, RecordedFor, HalfFor
  <2>8. Counts => Counts'
    BY <2>1 DEF Counts, RecordedFor, HalfFor
  <2>9. Claims => Claims'
    BY <2>1 DEF Claims, Live, Making, Awaits
  <2> QED BY <2>2, <2>3, <2>4, <2>5, <2>6, <2>7, <2>8, <2>9 DEF IInv, Orderly
<1> QED BY <1>1, <1>2

LEMMA Invariance == Spec => []IInv
<1>1. Init => IInv
  BY InitInv
<1>2. IInv /\ [Next]_vars => IInv'
  BY NextInv
<1> QED BY <1>1, <1>2, PTL DEF Spec
-----------------------------------------------------------------------------
(* What the invariant implies *)

LEMMA InvRegistered ==
  ASSUME IInv PROVE RegisteredIsLoaded
<1>1. SUFFICES ASSUME Running, NEW e \in ToSet(entries) \cup ToSet(remote)
               PROVE  Recorded(e.name[1]) \/ HalfAnnounced(e.name[1])
  BY DEF RegisteredIsLoaded, Recorded, HalfAnnounced
<1>2. Backed
  BY <1>1 DEF IInv, Core
<1> QED BY <1>1, <1>2 DEF Backed, Recorded, RecordedLib

LEMMA InvOwners ==
  ASSUME IInv PROVE ToolsHaveOwners
<1>1. SUFFICES ASSUME Running, NoneDropped
               PROVE  /\ \A e \in ToSet(entries) : e.name[1] \in handles
                      /\ \A e \in ToSet(remote) :
                            IF e.via = Lost THEN MovedFrom(e.name[1])
                            ELSE \/ sess[e.via].client
                                 \/ thread[e.via].stage \in {"stop", "close", "sweep"}
  BY DEF ToolsHaveOwners
<1>2. Backed /\ Owned /\ Stale
  BY <1>1 DEF IInv, Core, Orderly
<1> QED BY <1>2 DEF Backed, Owned, Stale, Freed

\* A set without two elements has one at most.
LEMMA AtMostOne ==
  ASSUME NEW S, \A x, y \in S : x = y
  PROVE  (Cardinality(S) = 0 /\ S = {}) \/ Cardinality(S) = 1
<1>1. CASE S = {}
  BY <1>1, FS_EmptySet
<1>2. CASE S # {}
  <2>1. PICK x \in S : TRUE
    BY <1>2
  <2>2. S = {x}
    BY <2>1
  <2> QED BY <2>2, FS_Singleton
<1> QED BY <1>1, <1>2

\* A thread that has a directory to start makes a session for it or restarts
\* the session of its own.
LEMMA DirOfFacts ==
  ASSUME TypeOK, Core, Orderly, NoneDropped, NEW t \in Threads, NEW d, d \in DirOf(t)
  PROVE  Making(t, d) \/ (t \in Ids /\ thread[t].stage \in Restarting /\ sess[t].dir = d)
<1>1. CASE thread[t].stage \in {"make", "spawn"}
  BY <1>1 DEF DirOf, Making
<1>2. CASE thread[t].stage \notin {"make", "spawn"}
  <2>1. thread[t].stage \in Restarting /\ Deref(t) # Lost /\ d = sess[Deref(t)].dir
    BY <1>2 DEF DirOf, Restarting
  <2>2. t \in Ids
    BY <2>1 DEF Core, Processes, Threads
  <2>3. Deref(t) = t
    BY <2>1, <2>2, DerefPlaced DEF Core, Orderly
  <2> QED BY <2>1, <2>2, <2>3
<1> QED BY <1>1, <1>2

LEMMA InvOneSidecar ==
  ASSUME IInv PROVE OneSidecarPerDir
<1>1. SUFFICES ASSUME Running, NoneDropped
               PROVE  /\ \A d \in DOMAIN Runtime :
                            Cardinality({c \in Ids : child[c] = "up" /\ sess[c].dir = d})
                                + Cardinality({t \in Threads : d \in DirOf(t)}) <= 1
                      /\ \A n \in Ids : sess[n].count <= 1
  BY DEF OneSidecarPerDir
<1>2. TypeOK /\ Core /\ Orderly /\ Claims /\ Counts /\ Processes
  BY <1>1 DEF IInv, Core, Orderly
<1>3. ASSUME NEW d \in DOMAIN Runtime
      PROVE  Cardinality({c \in Ids : child[c] = "up" /\ sess[c].dir = d})
                 + Cardinality({t \in Threads : d \in DirOf(t)}) <= 1
  <2> DEFINE A == {c \in Ids : child[c] = "up" /\ sess[c].dir = d}
             B == {t \in Threads : d \in DirOf(t)}
  <2>1. d # NoDir
    BY LifecycleAssumption
  <2>2. \A c \in A : Live(c) /\ sess[c].dir = d /\ c \in Ids /\ thread[c].stage \notin Restarting
    <3>1. \A c \in A : thread[c].stage = "off"
      BY <1>2 DEF Processes
    <3> QED BY <3>1 DEF Live, Restarting
  <2>3. \A t \in B : Making(t, d) \/ (t \in Ids /\ thread[t].stage \in Restarting /\ sess[t].dir = d)
    BY <1>2, <1>1, DirOfFacts
  <2>4. \A t \in B : Making(t, d) \/ (t \in Ids /\ Live(t) /\ sess[t].dir = d)
    BY <2>3 DEF Live
  <2>5. \A m, n \in Ids : Live(m) /\ Live(n) /\ sess[m].dir = d /\ sess[n].dir = d => m = n
    BY <2>1, <1>2 DEF Claims
  <2>6. \A t \in Threads, n \in Ids : Live(n) /\ sess[n].dir = d => ~Making(t, d)
    BY <2>1, <1>2 DEF Claims
  <2>7. \A t, u \in Threads : Making(t, d) /\ Making(u, d) => t = u
    <3>1. ASSUME NEW t \in Threads, Making(t, d) PROVE d \in SidecarDirs
      BY <3>1, <1>2, <2>1, Typed DEF Making, DirNames
    <3> QED BY <3>1, <1>2 DEF Claims
  <2>8. \A c, e \in A : c = e
    BY <2>2, <2>5
  <2>9. \A t, u \in B : t = u
    BY <2>4, <2>5, <2>6, <2>7
  <2>10. A = {} \/ B = {}
    <3>1. ASSUME NEW c \in A, NEW t \in B PROVE FALSE
      <4>1. CASE Making(t, d)
        BY <4>1, <2>2, <2>6
      <4>2. CASE t \in Ids /\ thread[t].stage \in Restarting /\ sess[t].dir = d
        <5>1. Live(t)
          BY <4>2 DEF Live
        <5>2. t = c
          BY <5>1, <4>2, <2>2, <2>5
        <5> QED BY <5>2, <4>2, <2>2
      <4> QED BY <4>1, <4>2, <2>3
    <3> QED BY <3>1
  <2> HIDE DEF A, B
  <2>11. (Cardinality(A) = 0 /\ A = {}) \/ Cardinality(A) = 1
    BY <2>8, AtMostOne
  <2>12. (Cardinality(B) = 0 /\ B = {}) \/ Cardinality(B) = 1
    BY <2>9, AtMostOne
  <2>13. (A = {} => Cardinality(A) = 0) /\ (B = {} => Cardinality(B) = 0)
    BY FS_EmptySet
  <2>14. Cardinality(A) + Cardinality(B) <= 1
    BY <2>10, <2>11, <2>12, <2>13
  <2> QED BY <2>14 DEF A, B
<1> QED BY <1>2, <1>3 DEF Counts
-----------------------------------------------------------------------------
(* The theorems *)

\* Every reachable state is well typed: a session's address, its peer and the
\* session a thread starts are sessions that exist, or none, and what is
\* recorded and offered is a plugin's.
THEOREM LifecycleTypeCorrect == Spec => []TypeOK
<1>1. IInv => TypeOK
  BY DEF IInv
<1> QED BY <1>1, Invariance, PTL

\* What a sweep or the destructor must unregister is found in loaded_plugins_,
\* with any sidecars, crashes and failed starts.
THEOREM RegisteredLoaded == Spec => []RegisteredIsLoaded
<1>1. IInv => RegisteredIsLoaded
  BY InvRegistered
<1> QED BY <1>1, Invariance, PTL

\* While no start has failed, an offered native tool has an open library.  An
\* offered remote tool has a client, but while a restart is between destroying
\* that client and taking the tools away, and but for a tool registered through
\* a stale address, which has none and is that of a plugin whose session moved
\* in memory.
THEOREM OwnersOfTools == Spec => []ToolsHaveOwners
<1>1. IInv => ToolsHaveOwners
  BY InvOwners
<1> QED BY <1>1, Invariance, PTL

\* While no start has failed, no directory gets a second sidecar, and no
\* session is restarted twice, however often sidecars crash.
THEOREM OneSidecar == Spec => []OneSidecarPerDir
<1>1. IInv => OneSidecarPerDir
  BY InvOneSidecar
<1> QED BY <1>1, Invariance, PTL

\* The destructor leaves no process, no tool and no library, unless a restart
\* got past it.
THEOREM ShutdownComplete == Spec => []ShutdownLeavesNone
<1>1. IInv => ShutdownLeavesNone
  BY DEF IInv
<1> QED BY <1>1, Invariance, PTL
=============================================================================
