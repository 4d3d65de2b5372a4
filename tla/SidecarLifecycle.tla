-------------------------- MODULE SidecarLifecycle --------------------------
(***************************************************************************)
(* How plugins come and go: PluginBridge loads native libraries, starts a  *)
(* sidecar process for each of the other plugin directories, registers the *)
(* tools a sidecar announces, restarts one that crashed and takes all of   *)
(* it down (src/plugin_bridge/plugin_bridge.cpp, sidecar_launcher.cpp,     *)
(* health_monitor.cpp, loader/native_loader.cpp, ipc/ipc_transport.cpp).   *)
(*                                                                         *)
(* The threads are the main thread, which runs init and the destructor,    *)
(* and for each session the receive thread, the heartbeat thread, the      *)
(* thread that waits for the process, and a restart thread.  A step is     *)
(* what a thread does up to the next point where it blocks or gives up a   *)
(* lock.  No lock guards the vector of sessions: two threads that may be   *)
(* inside it at once lead to "undefined", or one goes before the other.    *)
(*                                                                         *)
(* Callbacks hold the address of their session in a vector that moves.  An *)
(* address whose buffer is gone, or is past the end, finds a husk: no      *)
(* objects, an empty directory, any count.  A use of what is gone that the *)
(* program cannot survive, or may not, leads to "undefined", where the     *)
(* model ends.                                                             *)
(*                                                                         *)
(* The sidecars are external: they connect to whatever socket the path of  *)
(* their runtime names, announce one plugin with one tool, and may exit or *)
(* crash at any time.                                                      *)
(***************************************************************************)
EXTENDS ToolRegistry, SequencesExt

CONSTANTS
    Dirs,          \* plugins.plugin_dirs
    Runtime,       \* what each directory holds: a runtime's sidecar, or libraries
    Libs,          \* the libraries in each directory
    Providers,     \* those that have a tool
    Tool,          \* the tool each plugin has
    NoDir,         \* the empty string
    MaxAttempts,   \* plugins.max_restart_attempts
    RestartOnCrash, \* plugins.restart_on_crash
    MaxSessions,   \* bound: sessions made
    MaxFaults      \* bound: things that go wrong

Native == "cpp"
Runtimes == {"python", "js"}

Ids == 1 .. MaxSessions
Lost == 0           \* no session, no client, nobody
Main == 0
Threads == {Main} \cup Ids   \* thread n restarts what the callback of session n names

\* The directories of sidecars name the plugin they announce.
SidecarDirs == {d \in DOMAIN Runtime : Runtime[d] # Native}
DirNames == {NoDir} \cup SidecarDirs

ASSUME LifecycleAssumption ==
    /\ Dirs \in Seq(DOMAIN Runtime)
    /\ Runtime \in [DOMAIN Runtime -> Runtimes \cup {Native}]
    /\ NoDir \notin DOMAIN Runtime
    /\ SidecarDirs \subseteq Plugins
    /\ Libs \in [DOMAIN Runtime -> SUBSET Plugins]
    /\ \A d \in DOMAIN Runtime : Libs[d] # {} => Runtime[d] = Native
    /\ MaxAttempts \in Nat /\ MaxSessions \in Nat /\ MaxFaults \in Nat
    /\ RestartOnCrash \in BOOLEAN
    /\ Vias = {Lost} \cup Ids
    /\ Tool \in Tools

\* The configuration names a directory once.
ASSUME DistinctDirs == \A i, j \in DOMAIN Dirs : Dirs[i] = Dirs[j] => i = j

VARIABLES
    proc,     \* how far the engine process has come
    todo,     \* what init has left: directories, and libraries of the first one
    handles,  \* libs_: libraries that are open
    loaded,   \* loaded_plugins_
    vec,      \* sidecar_sessions_
    buf, cap, \* which buffer the vector is in, and its capacity
    made,     \* sessions made so far
    ptr,      \* the address that a session's callbacks captured
    sess,     \* the sessions
    child,    \* their processes
    waiting,  \* the sessions whose process some thread waits for
    conn,     \* the session whose socket a process has connected to
    peer,     \* the process whose connection a session accepted
    recv,     \* a session's receive thread
    thread,   \* what init and the restart threads are at
    bound,    \* the session whose socket a runtime's path names
    shut,     \* where the destructor's loop is, and in which buffer
    faults    \* how much went wrong

vectorVars == <<vec, buf, cap, made, ptr>>
pluginVars == <<todo, handles, loaded>>
peerVars == <<conn, peer>>
vars == <<registryVars, proc, pluginVars, vectorVars, sess, child, waiting,
          peerVars, recv, thread, bound, shut, faults>>

Plugin == [plugin : Plugins, runtime : Runtimes \cup {Native}, provider : BOOLEAN]

Session ==
    [dir : DirNames,
     runtime : Runtimes,
     link : {"none", "made", "listening", "connected"},  \* transport
     client : BOOLEAN,
     health : BOOLEAN,
     launcher : {"none", "idle", "pid"},
     count : Nat,       \* restart_count
     down : BOOLEAN]    \* shutting_down

\* A session with nothing in it, as before it is made and after it is destroyed.
Empty(d, rt) ==
    [dir |-> d, runtime |-> rt, link |-> "none", client |-> FALSE,
     health |-> FALSE, launcher |-> "none", count |-> 0, down |-> FALSE]

Fresh(d, rt) ==
    [Empty(d, rt) EXCEPT !.link = "made", !.client = TRUE, !.launcher = "idle"]

Idle == [stage |-> "off", ses |-> Lost, dir |-> NoDir, runtime |-> "python"]

Stages == {"off", "backoff", "stop", "close", "sweep", "make", "spawn", "listen", "accept", "wire"}

\* The session that the callbacks of session n reach.
Deref(n) ==
    IF ptr[n].buf = buf /\ ptr[n].idx \in DOMAIN vec THEN vec[ptr[n].idx] ELSE Lost

Running == proc \in {"up", "stopping", "cleared"}

At(t, stage) == Running /\ thread[t].stage = stage

Goto(t, stage) == thread' = [thread EXCEPT ![t].stage = stage]

Fault == faults < MaxFaults /\ faults' = faults + 1

Finish(t) == thread' = [thread EXCEPT ![t] = Idle]

\* SidecarLauncher::stop on the processes of S.  A running one dies of the
\* signal, or ends in its handler; and of any whose status nobody has yet, it
\* may be taken here, which leaves the waiting thread none: it reports 0.
Stopped(S) ==
    \E f \in [S -> {"crashed", "clean"}] :
        /\ \A n \in S : child[n] = "clean" => f[n] = "clean"
        /\ child' = [n \in Ids |-> IF n \in S THEN f[n] ELSE child[n]]

WithProcess(S) == {n \in S : sess[n].launcher = "pid"}

\* Bug: the receive thread is joined before its connection is closed.
BugCanClose(n, processes) == recv[n] = "off"

\* IpcTransport::close joins the receive thread, which ends its announcement
\* and reads until the process at the other end is gone.
CanClose(n, processes) ==
    \/ recv[n] = "off"
    \/ recv[n] # "half" /\ peer[n] \notin {c \in Ids : processes[c] = "up"}

\* The path is unlinked, whoever listens there.
Unlinked(rt) == bound' = [bound EXCEPT ![rt] = Lost]

NoPtr == [n \in Ids |-> [buf |-> 0, idx |-> 0]]
NoSession == [n \in Ids |-> Empty(NoDir, "python")]
Nobody == [n \in Ids |-> Lost]
NoThread == [t \in Threads |-> Idle]
NoPath == [rt \in Runtimes |-> Lost]

LibsAhead(dirs) == IF dirs = <<>> THEN {} ELSE Libs[Head(dirs)]

Init ==
    /\ RegistryInit
    /\ proc = "up"
    /\ todo = [dirs |-> Dirs, libs |-> LibsAhead(Dirs)]
    /\ handles = {} /\ loaded = <<>>
    /\ vec = <<>> /\ buf = 0 /\ cap = 0 /\ made = 0
    /\ ptr = NoPtr
    /\ sess = NoSession
    /\ child = [n \in Ids |-> "clean"]
    /\ waiting = {}
    /\ conn = Nobody /\ peer = Nobody
    /\ recv = [n \in Ids |-> "off"]
    /\ thread = NoThread
    /\ bound = NoPath
    /\ shut = [idx |-> 1, end |-> 0, buf |-> 0]
    /\ faults = 0
-----------------------------------------------------------------------------
(* init *)

InitTurn == proc = "up" /\ thread[Main] = Idle /\ todo.dirs # <<>>

NextDir ==
    LET rest == Tail(todo.dirs) IN todo' = [dirs |-> rest, libs |-> LibsAhead(rest)]

\* NativeLoader::load.  The library is open already, cannot be opened, is no
\* plugin or refuses; or it is kept.
Open(lib, kept) ==
    /\ kept => lib \notin handles
    /\ handles' = IF kept THEN handles \cup {lib} ELSE handles

\* load_one_plugin: the tool of a library that is kept, if it has one.
LoadOne(lib) ==
    /\ InitTurn
    /\ lib \in todo.libs
    /\ todo' = [todo EXCEPT !.libs = @ \ {lib}]
    /\ \E kept \in BOOLEAN :
          /\ Open(lib, kept)
          /\ loaded' = IF kept
                THEN Append(loaded, [plugin |-> lib, runtime |-> Native,
                                     provider |-> lib \in Providers])
                ELSE loaded
          /\ IF kept /\ lib \in Providers
             THEN RegisterProvider(<<[name |-> <<lib, Tool>>, via |-> Lost]>>)
             ELSE UNCHANGED registryVars
    /\ UNCHANGED <<proc, vectorVars, sess, child, waiting, peerVars, recv, thread, bound, shut, faults>>

\* The directory is done, or holds a sidecar that init starts next.
InitDir ==
    /\ InitTurn
    /\ todo.libs = {}
    /\ NextDir
    /\ LET d == Head(todo.dirs) IN
       IF Runtime[d] = Native THEN UNCHANGED thread
       ELSE thread' = [thread EXCEPT ![Main] =
                [stage |-> "make", ses |-> Lost, dir |-> d, runtime |-> Runtime[d]]]
    /\ UNCHANGED <<registryVars, proc, handles, loaded, vectorVars, sess, child, waiting,
                   peerVars, recv, bound, shut, faults>>
-----------------------------------------------------------------------------
(* start_sidecar, by init or by a restart thread *)

\* emplace_back moves the sessions to a larger buffer when the vector is full.
Grow ==
    /\ buf' = IF Len(vec) = cap THEN buf + 1 ELSE buf
    /\ cap' = IF Len(vec) < cap THEN cap ELSE IF cap = 0 THEN 1 ELSE 2 * cap

\* The constructor of the transport unlinks the path.
Make(t) ==
    /\ At(t, "make")
    /\ made < MaxSessions
    /\ Unlinked(thread[t].runtime)
    /\ Grow
    /\ made' = made + 1
    /\ vec' = Append(vec, made')
    /\ ptr' = [ptr EXCEPT ![made'] = [buf |-> buf', idx |-> Len(vec')]]
    /\ sess' = [sess EXCEPT ![made'] = Fresh(thread[t].dir, thread[t].runtime)]
    /\ thread' = [thread EXCEPT ![t].stage = "spawn", ![t].ses = made']
    /\ UNCHANGED <<registryVars, proc, pluginVars, child, waiting, peerVars, recv, shut, faults>>

\* SidecarLauncher::launch: a process, and a thread that waits for it.
Spawn(t) ==
    LET n == thread[t].ses
    IN /\ At(t, "spawn")
       /\ Deref(n) = n /\ sess[n].launcher # "none"
       /\ child' = [child EXCEPT ![n] = "up"]
       /\ waiting' = waiting \cup {n}
       /\ sess' = [sess EXCEPT ![n].launcher = "pid"]
       /\ Goto(t, "listen")
       /\ UNCHANGED <<registryVars, proc, pluginVars, vectorVars, peerVars, recv, bound, shut, faults>>

Listen(t) ==
    LET n == thread[t].ses
        rt == sess[n].runtime
    IN /\ At(t, "listen")
       /\ Deref(n) = n /\ sess[n].link = "made"
       /\ bound[rt] = Lost
       /\ bound' = [bound EXCEPT ![rt] = n]
       /\ sess' = [sess EXCEPT ![n].link = "listening"]
       /\ Goto(t, "accept")
       /\ UNCHANGED <<registryVars, proc, pluginVars, vectorVars, child, waiting,
                      peerVars, recv, shut, faults>>

\* accept() returns the connection of any process that has reached the socket.
Accept(t) ==
    LET n == thread[t].ses
    IN /\ At(t, "accept")
       /\ sess[n].link = "listening"
       /\ \E c \in Ids : conn[c] = n /\ peer' = [peer EXCEPT ![n] = c]
       /\ sess' = [sess EXCEPT ![n].link = "connected"]
       /\ Goto(t, "wire")
       /\ UNCHANGED <<registryVars, proc, pluginVars, vectorVars, child, waiting,
                      conn, recv, bound, shut, faults>>

\* Callbacks, receive thread and heartbeat.  After a restart the old session's
\* count is reset, if that is still a session.
Wire(t) ==
    LET n == thread[t].ses
        old == IF t = Main THEN Lost ELSE Deref(t)
        wired == [sess EXCEPT ![n].health = TRUE]
    IN /\ At(t, "wire")
       /\ Deref(n) = n /\ sess[n].client
       /\ recv' = [recv EXCEPT ![n] = "idle"]
       /\ sess' = IF old = Lost THEN wired ELSE [wired EXCEPT ![old].count = 0]
       /\ Finish(t)
       /\ UNCHANGED <<registryVars, proc, pluginVars, vectorVars, child, waiting,
                      peerVars, bound, shut, faults>>

\* The process cannot be spawned; or socket(), bind(), listen() or accept()
\* fails, bind() always when the path is taken, and the process is stopped.
\* Either way the last session of the vector, which need not be this one, is
\* destroyed.
StartFails(t) ==
    LET n == thread[t].ses
        s == Deref(n)
        last == Last(vec)
        taken == thread[t].stage = "listen" /\ bound[sess[n].runtime] # Lost
    IN /\ Running /\ thread[t].stage \in {"spawn", "listen", "accept"}
       /\ IF taken THEN UNCHANGED faults ELSE Fault
       /\ s # Lost /\ sess[s].launcher # "none"
       /\ thread[t].stage = "spawn" => s = n
       /\ Stopped(WithProcess({s, last}))
       /\ CanClose(last, child')
       /\ vec' = Front(vec)
       /\ sess' = [sess EXCEPT ![s].launcher = "idle",
                               ![last] = Empty(sess[last].dir, sess[last].runtime)]
       /\ Unlinked(sess[last].runtime)
       /\ recv' = [recv EXCEPT ![last] = "off"]
       /\ Finish(t)
       /\ UNCHANGED <<registryVars, proc, pluginVars, buf, cap, made, ptr, waiting,
                      peerVars, shut>>
-----------------------------------------------------------------------------
(* The processes, and what a session's threads do *)

Connect(c) ==
    LET n == bound[sess[c].runtime]
    IN /\ Running /\ child[c] = "up" /\ conn[c] = Lost /\ n # Lost
       /\ conn' = [conn EXCEPT ![c] = n]
       /\ UNCHANGED <<registryVars, proc, pluginVars, vectorVars, sess, child, waiting,
                      peer, recv, thread, bound, shut, faults>>

End(c) ==
    /\ Running /\ child[c] = "up"
    /\ Fault
    /\ \E how \in {"crashed", "clean"} : child' = [child EXCEPT ![c] = how]
    /\ UNCHANGED <<registryVars, proc, pluginVars, vectorVars, sess, waiting,
                   peerVars, recv, thread, bound, shut>>

\* Bug: a plugin without an id is not skipped.
BugAnnounce(n) ==
    LET s == Deref(n)
    IN /\ Running /\ recv[n] = "idle" /\ sess[n].client
       /\ RegisterRemote([name |-> <<sess[peer[n]].dir, Tool>>,
                          via |-> IF s # Lost /\ sess[s].client THEN s ELSE Lost])
       /\ recv' = [recv EXCEPT ![n] = "half"]
       /\ UNCHANGED <<proc, pluginVars, vectorVars, sess, child, waiting,
                      peerVars, thread, bound, shut, faults>>

\* on_sidecar_announce: the tool, through whatever client the session has now.
Announce(n) ==
    LET s == Deref(n)
        d == sess[peer[n]].dir
    IN /\ Running /\ recv[n] = "idle" /\ sess[n].client
       /\ d # NoDir
       /\ RegisterRemote([name |-> <<d, Tool>>,
                          via |-> IF s # Lost /\ sess[s].client THEN s ELSE Lost])
       /\ recv' = [recv EXCEPT ![n] = "half"]
       /\ UNCHANGED <<proc, pluginVars, vectorVars, sess, child, waiting,
                      peerVars, thread, bound, shut, faults>>

\* ... and then the record of the plugin.
Push(n) ==
    LET c == peer[n]
    IN /\ Running /\ recv[n] = "half"
       /\ loaded' = Append(loaded, [plugin |-> sess[c].dir, runtime |-> sess[c].runtime,
                                    provider |-> FALSE])
       /\ recv' = [recv EXCEPT ![n] = "done"]
       /\ UNCHANGED <<registryVars, proc, todo, handles, vectorVars, sess, child, waiting,
                      peerVars, thread, bound, shut, faults>>

\* Bug: the heartbeat thread starts the restart, and the exit it causes another.
BugUnhealthy(n) ==
    LET s == Deref(n)
    IN /\ Running /\ sess[n].health
       /\ s # Lost /\ sess[s].launcher = "pid"
       /\ Fault
       /\ Stopped({s})
       /\ sess' = [sess EXCEPT ![s].launcher = "idle", ![s].count = @ + 1]
       /\ Goto(n, "backoff")
       /\ UNCHANGED <<registryVars, proc, pluginVars, vectorVars, waiting,
                      peerVars, recv, bound, shut>>

\* A heartbeat is not answered in time, or cannot be sent.
Unhealthy(n) ==
    LET s == Deref(n)
    IN /\ Running /\ sess[n].health
       /\ s # Lost /\ sess[s].launcher = "pid"
       /\ Fault
       /\ Stopped({s})
       /\ sess' = [sess EXCEPT ![s].launcher = "idle"]
       /\ UNCHANGED <<registryVars, proc, pluginVars, vectorVars, waiting,
                      peerVars, recv, thread, bound, shut>>

\* The thread that waits for the process gets its status, 0 when another has
\* reaped it ...
Waited(n) ==
    /\ n \in waiting
    /\ child[n] # "up"
    /\ waiting' = waiting \ {n}
    /\ child' = [child EXCEPT ![n] = "clean"]

\* ... and calls on_sidecar_exit.
Exit(n) ==
    LET s == Deref(n)
        restart == thread' = [thread EXCEPT ![n].stage = "backoff"]
    IN /\ Running
       /\ Waited(n)
       /\ IF child[n] # "crashed" \/ ~RestartOnCrash THEN UNCHANGED <<sess, thread>>
          ELSE IF s = Lost THEN UNCHANGED sess /\ (restart \/ UNCHANGED thread)
          ELSE IF sess[s].down \/ sess[s].count >= MaxAttempts THEN UNCHANGED <<sess, thread>>
          ELSE sess' = [sess EXCEPT ![s].count = @ + 1] /\ restart
       /\ UNCHANGED <<registryVars, proc, pluginVars, vectorVars, peerVars, recv, bound, shut, faults>>
-----------------------------------------------------------------------------
(* restart_sidecar.  A husk has nothing to tear down. *)

\* The heartbeat thread is joined, and the client destroyed while the receive
\* thread, which calls it, still runs.
ResetClient(t) ==
    LET s == Deref(t)
    IN /\ At(t, "backoff")
       /\ IF s = Lost THEN Goto(t, "sweep") /\ UNCHANGED sess
          ELSE /\ recv[s] # "half"
               /\ sess' = [sess EXCEPT ![s].health = FALSE, ![s].client = FALSE]
               /\ Goto(t, "stop")
       /\ UNCHANGED <<registryVars, proc, pluginVars, vectorVars, child, waiting,
                      peerVars, recv, bound, shut, faults>>

ResetLauncher(t) ==
    LET s == Deref(t)
    IN /\ At(t, "stop")
       /\ Stopped(WithProcess({s} \ {Lost}))
       /\ sess' = IF s = Lost THEN sess ELSE [sess EXCEPT ![s].launcher = "none"]
       /\ Goto(t, "close")
       /\ UNCHANGED <<registryVars, proc, pluginVars, vectorVars, waiting,
                      peerVars, recv, bound, shut, faults>>

ResetTransport(t) ==
    LET s == Deref(t)
    IN /\ At(t, "close")
       /\ IF s = Lost \/ sess[s].link = "none" THEN UNCHANGED <<sess, recv, bound>>
          ELSE /\ CanClose(s, child)
               /\ sess' = [sess EXCEPT ![s].link = "none"]
               /\ recv' = [recv EXCEPT ![s] = "off"]
               /\ Unlinked(sess[s].runtime)
       /\ Goto(t, "sweep")
       /\ UNCHANGED <<registryVars, proc, pluginVars, vectorVars, child, waiting,
                      peerVars, shut, faults>>

\* The tools of plugins that are not gone.
Others(seq, gone) == Kept(seq, {e \in Entry : e.name[1] \notin gone})

\* Bug: the providers are taken for remote plugins.
BugSwept(p, rt) == p.runtime = rt /\ p.provider

\* The plugins a sweep takes away: all that sidecars of the runtime announced.
Swept(p, rt) == p.runtime = rt /\ ~p.provider

\* Bug: the records go, the tools stay.
BugSweep(t) ==
    LET s == Deref(t)
        rt == sess[IF s = Lost THEN t ELSE s].runtime
    IN /\ At(t, "sweep")
       /\ loaded' = Kept(loaded, {p \in Plugin : ~Swept(p, rt)})
       /\ thread' = [thread EXCEPT ![t] =
             [stage |-> "make", ses |-> Lost,
              dir |-> IF s = Lost THEN NoDir ELSE sess[s].dir, runtime |-> rt]]
       /\ UNCHANGED <<registryVars, proc, todo, handles, vectorVars, sess, child, waiting,
                      peerVars, recv, bound, shut, faults>>

Sweep(t) ==
    LET s == Deref(t)
        rt == sess[IF s = Lost THEN t ELSE s].runtime
        gone == {p.plugin : p \in {q \in ToSet(loaded) : Swept(q, rt)}}
        \* the string of a destroyed session may still be there
        dirs == IF s # Lost THEN {sess[s].dir}
                ELSE IF ptr[t].buf = buf THEN {NoDir, sess[t].dir}
                ELSE {NoDir}
    IN /\ At(t, "sweep")
       /\ loaded' = Kept(loaded, {p \in Plugin : ~Swept(p, rt)})
       /\ remote' = Others(remote, gone)
       /\ UNCHANGED entries
       /\ Rebuild
       /\ \E d \in dirs :
             thread' = [thread EXCEPT ![t] =
                 [stage |-> "make", ses |-> Lost, dir |-> d, runtime |-> rt]]
       /\ UNCHANGED <<proc, todo, handles, vectorVars, sess, child, waiting,
                      peerVars, recv, bound, shut, faults>>

-----------------------------------------------------------------------------
(* ~PluginBridge *)

Shutdown ==
    /\ proc = "up" /\ todo.dirs = <<>> /\ thread[Main] = Idle
    /\ proc' = "stopping"
    /\ shut' = [idx |-> 1, end |-> Len(vec), buf |-> buf]
    /\ UNCHANGED <<registryVars, pluginVars, vectorVars, sess, child, waiting,
                   peerVars, recv, thread, bound, faults>>

\* The loop keeps the buffer and the end it began with.
ShutOne ==
    /\ proc = "stopping"
    /\ shut.idx <= shut.end
    /\ shut.buf = buf /\ shut.idx <= Len(vec)
    /\ LET s == vec[shut.idx]
           stopped == WithProcess({s})
       IN /\ Stopped(stopped)
          /\ sess' = [sess EXCEPT
                ![s].down = TRUE, ![s].health = FALSE,
                ![s].launcher = IF s \in stopped THEN "idle" ELSE @]
    /\ shut' = [shut EXCEPT !.idx = @ + 1]
    /\ UNCHANGED <<registryVars, proc, pluginVars, vectorVars, waiting,
                   peerVars, recv, thread, bound, faults>>

\* The sessions are destroyed: the launcher stops a process that is left, and
\* the transport, after the client, joins the receive thread.
ShutClear ==
    /\ proc = "stopping"
    /\ shut.idx > shut.end
    /\ Stopped(WithProcess(ToSet(vec)))
    /\ \A n \in ToSet(vec) : CanClose(n, child')
    /\ proc' = "cleared"
    /\ vec' = <<>>
    /\ sess' = [n \in Ids |->
          IF n \in ToSet(vec) THEN Empty(sess[n].dir, sess[n].runtime) ELSE sess[n]]
    /\ recv' = [n \in Ids |-> IF n \in ToSet(vec) THEN "off" ELSE recv[n]]
    /\ bound' = [rt \in Runtimes |->
          IF \E n \in ToSet(vec) : sess[n].runtime = rt /\ sess[n].link # "none"
          THEN Lost ELSE bound[rt]]
    /\ UNCHANGED <<registryVars, pluginVars, buf, cap, made, ptr, waiting,
                   peerVars, thread, shut, faults>>

Unload(libs) == handles' = handles \ libs

\* Bug: the tools of remote plugins are forgotten.
BugShutPlugins ==
    LET gone == {p.plugin : p \in ToSet(loaded)}
    IN /\ proc = "cleared"
       /\ proc' = "ended"
       /\ entries' = Others(entries, gone)
       /\ UNCHANGED remote
       /\ Rebuild
       /\ Unload(gone)
       /\ loaded' = <<>>
       /\ UNCHANGED <<todo, vectorVars, sess, child, waiting,
                      peerVars, recv, thread, bound, shut, faults>>

\* Every plugin's tools go before its library.
ShutPlugins ==
    LET gone == {p.plugin : p \in ToSet(loaded)}
    IN /\ proc = "cleared"
       /\ proc' = "ended"
       /\ entries' = Others(entries, gone)
       /\ remote' = Others(remote, gone)
       /\ Rebuild
       /\ Unload(gone)
       /\ loaded' = <<>>
       /\ UNCHANGED <<todo, vectorVars, sess, child, waiting,
                      peerVars, recv, thread, bound, shut, faults>>
-----------------------------------------------------------------------------
(* Undefined behaviour *)

\* A callback or a restart of session n may not survive that it meets a husk.
HuskUsed(n) ==
    /\ Deref(n) = Lost
    /\ \/ n \in waiting /\ child[n] # "up"
       \/ sess[n].health
       \/ recv[n] = "idle"
       \/ thread[n].stage \in {"backoff", "stop", "close", "sweep"}

\* The receive thread of session n is in, or calls, a client that is destroyed
\* or about to be.
ClientUsed(n) ==
    \/ recv[n] = "idle" /\ ~sess[n].client
    \/ /\ recv[n] = "half"
       /\ \/ \E t \in Ids : At(t, "backoff") /\ Deref(t) = n
          \/ \E t \in Threads : thread[t].stage \in {"spawn", "listen", "accept"} /\ Last(vec) = n
          \/ proc = "stopping" /\ shut.idx > shut.end

\* accept() fails after the session moved, was dropped or was torn down.
AcceptUndone(t) ==
    /\ thread[t].stage = "accept" /\ faults < MaxFaults
    /\ Deref(thread[t].ses) \notin {n \in Ids : sess[n].launcher # "none"}

\* The vector moved, or lost its end, under the destructor's loop.
LoopMoved ==
    /\ proc = "stopping" /\ shut.idx <= shut.end
    /\ shut.buf # buf \/ shut.idx > Len(vec)

\* Two threads are in the vector at once: nobody takes sidecar_sessions_mu_.
VectorRace ==
    \E t \in Threads :
        /\ At(t, "make")
        /\ proc = "stopping" \/ \E u \in Threads \ {t} : At(u, "make")

\* A detached restart outlives the bridge it belongs to.
Outlived == proc = "ended" /\ \E t \in Ids : thread[t] # Idle

\* Nothing is kept of the state.
Collapse ==
    /\ proc' = "undefined"
    /\ entries' = <<>> /\ remote' = <<>> /\ schemas' = <<>>
    /\ handles' = {} /\ loaded' = <<>>
    /\ vec' = <<>> /\ buf' = 0 /\ cap' = 0 /\ made' = 0
    /\ ptr' = NoPtr
    /\ sess' = NoSession
    /\ child' = [n \in Ids |-> "clean"]
    /\ waiting' = {}
    /\ conn' = Nobody /\ peer' = Nobody
    /\ recv' = [n \in Ids |-> "off"]
    /\ thread' = NoThread
    /\ bound' = NoPath
    /\ UNCHANGED <<todo, shut, faults>>

Undefined ==
    /\ \/ /\ Running
          /\ \/ \E n \in Ids : HuskUsed(n) \/ ClientUsed(n)
             \/ \E t \in Threads : AcceptUndone(t)
             \/ LoopMoved
             \/ VectorRace
       \/ Outlived
    /\ Collapse

\* Thread t finds its new session moved, dropped, or torn down by its restart.
Undone(t) ==
    LET n == thread[t].ses
    IN /\ Running
       /\ \/ /\ thread[t].stage = "spawn"
             /\ ~(Deref(n) = n /\ sess[n].launcher # "none")
          \/ /\ thread[t].stage = "listen"
             /\ ~(Deref(n) = n /\ sess[n].link = "made")
          \/ /\ thread[t].stage = "wire"
             /\ ~(Deref(n) = n /\ sess[n].client)
       /\ Collapse

-----------------------------------------------------------------------------
Start(t) ==
    \/ Make(t) \/ Spawn(t) \/ Listen(t) \/ Accept(t) \/ Wire(t)
    \/ StartFails(t) \/ Undone(t)

Restart(t) == ResetClient(t) \/ ResetLauncher(t) \/ ResetTransport(t) \/ Sweep(t)

Destroy == ShutOne \/ ShutClear \/ ShutPlugins

Next ==
    \/ \E lib \in Plugins : LoadOne(lib)
    \/ InitDir
    \/ \E t \in Threads : Start(t)
    \/ \E c \in Ids : Connect(c) \/ End(c)
    \/ \E n \in Ids : Announce(n) \/ Push(n) \/ Unhealthy(n) \/ Exit(n)
    \/ \E n \in Ids : Restart(n)
    \/ Shutdown
    \/ Destroy
    \/ Undefined

\* A thread that starts or restarts a sidecar is scheduled, and so is a receive
\* thread in the middle of an announcement; a sidecar that can connect does.
Fairness ==
    /\ WF_vars(Start(Main))
    /\ \A n \in Ids : WF_vars(Restart(n) \/ Start(n)) /\ WF_vars(Push(n)) /\ WF_vars(Connect(n))

Spec == Init /\ [][Next]_vars /\ Fairness
-----------------------------------------------------------------------------
\* The values the state takes.
TypeOK ==
    /\ RegistryTypeOK
    /\ proc \in {"up", "stopping", "cleared", "ended", "undefined"}
    /\ todo \in [dirs : Seq(DOMAIN Runtime), libs : SUBSET Plugins]
    /\ handles \subseteq Plugins
    /\ loaded \in Seq(Plugin)
    /\ vec \in Seq(Ids)
    /\ buf \in Nat /\ cap \in Nat /\ made \in {0} \cup Ids
    /\ ptr \in [Ids -> [buf : Nat, idx : Nat]]
    /\ sess \in [Ids -> Session]
    /\ child \in [Ids -> {"up", "crashed", "clean"}]
    /\ waiting \subseteq Ids
    /\ conn \in [Ids -> {Lost} \cup Ids] /\ peer \in [Ids -> {Lost} \cup Ids]
    /\ recv \in [Ids -> {"off", "idle", "half", "done"}]
    /\ thread \in [Threads -> [stage : Stages, ses : {Lost} \cup Ids,
                               dir : DirNames, runtime : Runtimes]]
    /\ bound \in [Runtimes -> {Lost} \cup Ids]
    /\ shut \in [idx : Nat \ {0}, end : Nat, buf : Nat]
    /\ faults \in 0 .. MaxFaults

\* No start has failed so far, and the destructor has not cleared the vector.
NoneDropped == Len(vec) = made

\* The sessions had been moved when the sidecar of plugin p could announce it:
\* the callback's address was stale.
MovedFrom(p) == \E n \in Ids : peer[n] # Lost /\ sess[peer[n]].dir = p /\ ptr[n].buf < buf

\* What stands behind a tool that is on offer.  The library of a native tool is
\* open.  A remote tool has the client of a session, except in two cases: from
\* the time a restart destroys that client until it takes the tools away, and
\* when the tool was registered through a stale address, which makes a tool
\* without a client that stays; that can only be a plugin whose session moved
\* in memory.
ToolsHaveOwners ==
    (Running /\ NoneDropped) =>
    /\ \A e \in ToSet(entries) : e.name[1] \in handles
    /\ \A e \in ToSet(remote) :
          IF e.via = Lost THEN MovedFrom(e.name[1])
          ELSE sess[e.via].client \/ thread[e.via].stage \in {"stop", "close", "sweep"}

\* Sweeps and the destructor find what to unregister in loaded_plugins_, so a
\* tool must not be on offer whose plugin has no record there and gets none.
RegisteredIsLoaded ==
    Running =>
    \A e \in ToSet(entries) \cup ToSet(remote) :
        \/ \E p \in ToSet(loaded) : p.plugin = e.name[1]
        \/ \E n \in Ids : recv[n] = "half" /\ sess[peer[n]].dir = e.name[1]

\* The directory that thread t starts a sidecar for, or will.
DirOf(t) ==
    IF thread[t].stage \in {"make", "spawn"} THEN {thread[t].dir}
    ELSE IF thread[t].stage \in {"backoff", "stop", "close", "sweep"} /\ Deref(t) # Lost
         THEN {sess[Deref(t)].dir}
    ELSE {}

\* While no start has failed, a plugin directory has one sidecar at most: one
\* that runs or one that is about to be started, however the crash, the
\* heartbeat's kill and the restarts of other sidecars fall; and no session is
\* restarted twice, which is why max_restart_attempts is never reached.
OneSidecarPerDir ==
    (Running /\ NoneDropped) =>
    /\ \A d \in DOMAIN Runtime :
          Cardinality({c \in Ids : child[c] = "up" /\ sess[c].dir = d})
              + Cardinality({t \in Threads : d \in DirOf(t)}) <= 1
    /\ \A n \in Ids : sess[n].count <= 1

\* When the destructor has run and no restart got past it, no sidecar runs, no
\* tool is on offer and no library is open.
ShutdownLeavesNone ==
    (/\ proc = "ended" /\ vec = <<>>
     /\ \A t \in Threads : thread[t].stage \notin {"listen", "accept", "wire"}) =>
    /\ \A c \in Ids : child[c] # "up"
    /\ entries = <<>> /\ remote = <<>> /\ handles = {}

\* The socket thread t waits on was closed; or nobody waits in its backlog and
\* nobody can come: its path was unlinked, or no process is left that could.
Forsaken(t) ==
    LET n == thread[t].ses
    IN /\ thread[t].stage = "accept"
       /\ \/ sess[n].link # "listening"
          \/ /\ \A c \in Ids : conn[c] # n
             /\ \/ bound[sess[n].runtime] # n
                \/ \A c \in Ids : child[c] = "up" => conn[c] # Lost

\* The thread that closes a connection waits for a process that it did not
\* stop: another sidecar's, which connected to the wrong socket, or that of a
\* session which has taken the place of the one whose process it stopped.
WrongPeer(t) ==
    LET s == Deref(t)
    IN /\ thread[t].stage = "close"
       /\ s # Lost
       /\ ~CanClose(s, child)
       /\ peer[s] # s \/ sess[s].launcher # "none"

\* A start or restart ends, and so does init, unless the program ends before,
\* except when it waits for a connection that cannot come or one that does not
\* go.  (The restart of the last session within the bound has none to make.)
StartEnds ==
    \A t \in Threads \ {MaxSessions} :
        thread[t] # Idle ~>
            \/ thread[t] = Idle
            \/ ~Running
            \/ thread[t].stage = "make" /\ made = MaxSessions
            \/ Forsaken(t)
            \/ WrongPeer(t)
=============================================================================
