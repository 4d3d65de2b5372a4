----------------------------- MODULE IpcClient -----------------------------
(***************************************************************************)
(* IpcClient over IpcTransport (src/plugin_bridge/ipc/): threads call      *)
(* tools of one sidecar over one socket.  A call registers a promise under *)
(* its correlation id, sends its frame and waits for the promise with a    *)
(* timeout; the receiving thread sets the promise named by each reply.     *)
(* call_tool, its heartbeats and run_preprocessor run the same steps.      *)
(*                                                                         *)
(* A frame is written in two writes, header and payload, and no lock keeps *)
(* two senders apart.  A step is one write, one message received or one    *)
(* critical section of pending_mu_.  The sidecar is external: it reads     *)
(* frames, answers in any order, hangs, dies, or loses the framing.        *)
(*                                                                         *)
(* Two histories say what the sidecar did: how often it read a call, and   *)
(* what it sent for a call.                                                *)
(***************************************************************************)
EXTENDS Naturals, Sequences

CONSTANTS
    Calls,     \* calls, each by the correlation id next_id() gave it
    Aborts,    \* abort_call invocations
    SockCap,   \* writes the socket holds before the next one blocks
    MaxBack,   \* bound: messages on their way back
    None,
    Failed     \* what a call returns that got no message

\* The messages that name a call.
Named == [kind : {"reply", "status"}, cid : Calls]

ASSUME IpcAssumption ==
    /\ Calls \cap Aborts = {}
    /\ None \notin Calls \cup Named
    /\ Failed \notin Named \cup {None}
    /\ SockCap \in Nat \ {0}
    /\ MaxBack \in Nat

VARIABLES
    pc,         \* per call and abort, where it is
    pending,    \* the keys of pending_
    promise,    \* per call, the message its future holds, or None
    answer,     \* per call, the message it returned, Failed or None
    connected,  \* connected_
    recvPc,     \* the receiving thread: "recv", "ended", or "thrown" (server dead)
    wire,       \* writes not read by the sidecar
    sidecar,    \* "up", "hung", "lost" (framing lost) or "gone"
    serving,    \* calls the sidecar has read and not answered
    takes,      \* history: per call, how often the sidecar has read it
    said,       \* history: per call, the messages the sidecar sent for it
    back        \* messages the receiving thread has not read

history == <<takes, said>>

vars == <<pc, pending, promise, answer, connected, recvPc, wire, sidecar, serving,
          takes, said, back>>

Senders == Calls \cup Aborts

Write == [of : Senders, part : {"header", "payload"}]

\* "noise" does not parse; "mistyped" is JSON but no object, or its type or cid is
\* of another type; "broken" has a length of zero or above 16 MiB.
Message == Named \cup [kind : {"announce", "noise", "mistyped", "broken"}, cid : {None}]

Init ==
    /\ pc = [w \in Senders |-> "idle"]
    /\ pending = {}
    /\ promise = [c \in Calls |-> None]
    /\ answer = [c \in Calls |-> None]
    /\ connected = TRUE
    /\ recvPc = "recv"
    /\ wire = <<>>
    /\ sidecar = "up"
    /\ serving = {}
    /\ takes = [c \in Calls |-> 0]
    /\ said = [c \in Calls |-> {}]
    /\ back = <<>>

\* A thread goes on, unless an exception of the receiving thread ended them all.
Goto(w, where) ==
    /\ recvPc # "thrown"
    /\ pc' = [pc EXCEPT ![w] = where]

-----------------------------------------------------------------------------
(* Callers *)

\* The promise is registered before the request is sent.
Register(c) ==
    /\ pc[c] = "idle"
    /\ pending' = pending \cup {c}
    /\ Goto(c, "send")
    /\ UNCHANGED <<promise, answer, connected, recvPc, wire, sidecar, serving, history,
                   back>>

AbortCall(a) ==
    /\ a \in Aborts
    /\ pc[a] = "idle"
    /\ Goto(a, "send")
    /\ UNCHANGED <<pending, promise, answer, connected, recvPc, wire, sidecar, serving,
                   history, back>>

\* write() blocks while the socket is full.
WriteOk(w, part, next) ==
    /\ sidecar # "gone"
    /\ Len(wire) < SockCap
    /\ wire' = Append(wire, [of |-> w, part |-> part])
    /\ Goto(w, next)

SendHeader(w) ==
    /\ pc[w] = "send"
    /\ connected
    /\ WriteOk(w, "header", "payload")
    /\ UNCHANGED <<pending, promise, answer, connected, recvPc, sidecar, serving, history,
                   back>>

\* Nobody waits for an answer to an abort.
SendPayload(w) ==
    /\ pc[w] = "payload"
    /\ WriteOk(w, "payload", IF w \in Calls THEN "waiting" ELSE "done")
    /\ UNCHANGED <<pending, promise, answer, connected, recvPc, sidecar, serving, history,
                   back>>

SendFails(w) ==
    /\ \/ pc[w] = "send" /\ (~connected \/ sidecar = "gone")
       \/ pc[w] = "payload" /\ sidecar = "gone"
    /\ Goto(w, IF w \in Calls THEN "failed" ELSE "done")
    /\ UNCHANGED <<pending, promise, answer, connected, recvPc, wire, sidecar, serving,
                   history, back>>

TakeReply(c) ==
    /\ pc[c] = "waiting"
    /\ promise[c] # None
    /\ answer' = [answer EXCEPT ![c] = promise[c]]
    /\ Goto(c, "done")
    /\ UNCHANGED <<pending, promise, connected, recvPc, wire, sidecar, serving, history,
                   back>>

\* Bug: the wait ends with the connection only.
BugExpire(c) ==
    /\ pc[c] = "waiting"
    /\ promise[c] = None
    /\ ~connected
    /\ Goto(c, "expired")
    /\ UNCHANGED <<pending, promise, answer, connected, recvPc, wire, sidecar, serving,
                   history, back>>

\* Bug: a call whose wait ends sends its frame once more.
BugResend(c) ==
    /\ pc[c] = "waiting"
    /\ promise[c] = None
    /\ \/ Goto(c, "expired")
       \/ takes[c] < 2 /\ Goto(c, "send")
    /\ UNCHANGED <<pending, promise, answer, connected, recvPc, wire, sidecar, serving,
                   history, back>>

\* The wait ends without a reply.  Its entry is erased later, under the lock.
Expire(c) ==
    /\ pc[c] = "waiting"
    /\ promise[c] = None
    /\ Goto(c, "expired")
    /\ UNCHANGED <<pending, promise, answer, connected, recvPc, wire, sidecar, serving,
                   history, back>>

\* Bug: the entry of a call that expired stays.
BugGiveUp(c) ==
    /\ pc[c] \in {"failed", "expired"}
    /\ answer' = [answer EXCEPT ![c] = Failed]
    /\ Goto(c, "done")
    /\ UNCHANGED <<pending, promise, connected, recvPc, wire, sidecar, serving, history,
                   back>>

\* "send failed" or "timeout".
GiveUp(c) ==
    /\ pc[c] \in {"failed", "expired"}
    /\ pending' = pending \ {c}
    /\ answer' = [answer EXCEPT ![c] = Failed]
    /\ Goto(c, "done")
    /\ UNCHANGED <<promise, connected, recvPc, wire, sidecar, serving, history, back>>

-----------------------------------------------------------------------------
(* The receiving thread: recv_loop calls on_message *)

\* Bug: the entry stays in the map.
BugResolve(m) ==
    IF m.cid \in pending
    THEN promise' = [promise EXCEPT ![m.cid] = m] /\ UNCHANGED pending
    ELSE UNCHANGED <<pending, promise>>

\* Bug: replies are paired with calls whatever their id says.
BugResolveAny(m) ==
    \/ \E c \in pending : /\ promise' = [promise EXCEPT ![c] = m]
                          /\ pending' = pending \ {c}
    \/ pending = {} /\ UNCHANGED <<pending, promise>>

\* resolve: a reply to a call that is no longer pending is dropped.
Resolve(m) ==
    IF m.cid \in pending
    THEN /\ promise' = [promise EXCEPT ![m.cid] = m]
         /\ pending' = pending \ {m.cid}
    ELSE UNCHANGED <<pending, promise>>

\* No status callback is ever set, so a status report is resolved like a reply.
\* The reading of type and cid is outside the try: its type_error leaves the thread.
Receive ==
    /\ recvPc = "recv" /\ back # <<>>
    /\ LET m == Head(back) IN
           /\ IF m.kind \in {"reply", "status"}
              THEN Resolve(m)
              ELSE UNCHANGED <<pending, promise>>
           /\ recvPc' = CASE m.kind = "broken" -> "ended"
                          [] m.kind = "mistyped" -> "thrown"
                          [] OTHER -> "recv"
           /\ connected' = (m.kind # "broken")
    /\ back' = Tail(back)
    /\ UNCHANGED <<pc, answer, wire, sidecar, serving, history>>

\* The sidecar closed its end.  Calls that wait are left to their timeouts.
ReceiveEnd ==
    /\ recvPc = "recv" /\ back = <<>>
    /\ sidecar = "gone"
    /\ recvPc' = "ended"
    /\ connected' = FALSE
    /\ UNCHANGED <<pc, pending, promise, answer, wire, sidecar, serving, history, back>>

-----------------------------------------------------------------------------
(* The sidecar, external *)

WholeFrame ==
    /\ Len(wire) >= 2
    /\ wire[1].part = "header"
    /\ wire[2] = [of |-> wire[1].of, part |-> "payload"]

SidecarRead ==
    /\ sidecar = "up"
    /\ WholeFrame
    /\ wire' = SubSeq(wire, 3, Len(wire))
    /\ serving' = serving \cup ({wire[1].of} \cap Calls)
    /\ takes' = [c \in Calls |-> IF c = wire[1].of THEN takes[c] + 1 ELSE takes[c]]
    /\ UNCHANGED <<pc, pending, promise, answer, connected, recvPc, sidecar, said, back>>

\* Frames of two senders are mixed: nothing read from here on makes sense.
SidecarMisread ==
    /\ \/ sidecar = "up" /\ Len(wire) >= 2 /\ ~WholeFrame
       \/ sidecar = "lost" /\ wire # <<>>
    /\ sidecar' = "lost"
    /\ wire' = <<>>
    /\ UNCHANGED <<pc, pending, promise, answer, connected, recvPc, serving, history,
                   back>>

SidecarSend(m) ==
    /\ sidecar \in {"up", "lost"}
    /\ Len(back) < MaxBack
    /\ m.kind \in {"reply", "status"} => m.cid \in serving
    /\ back' = Append(back, m)
    /\ serving' = IF m.kind = "reply" THEN serving \ {m.cid} ELSE serving
    /\ said' = [c \in Calls |-> IF c = m.cid THEN said[c] \cup {m} ELSE said[c]]
    /\ UNCHANGED <<pc, pending, promise, answer, connected, recvPc, wire, sidecar,
                   takes>>

\* A plugin computes for long, ends its computation, or the process dies.
SidecarChange(s) ==
    /\ \/ sidecar = "up" /\ s \in {"hung", "gone"}
       \/ sidecar = "hung" /\ s \in {"up", "gone"}
       \/ sidecar = "lost" /\ s = "gone"
    /\ sidecar' = s
    /\ wire' = IF s = "gone" THEN <<>> ELSE wire
    /\ UNCHANGED <<pc, pending, promise, answer, connected, recvPc, serving, history,
                   back>>

-----------------------------------------------------------------------------

Sending(w) == SendHeader(w) \/ SendPayload(w) \/ SendFails(w)

\* The thread of a call, once it has registered.
Caller(c) == Sending(c) \/ TakeReply(c) \/ Expire(c) \/ GiveUp(c)

Receiver == Receive \/ ReceiveEnd

Sidecar ==
    \/ SidecarRead
    \/ SidecarMisread
    \/ \E m \in Message : SidecarSend(m)
    \/ \E s \in {"up", "hung", "gone"} : SidecarChange(s)

\* The sidecar is gone and every call has ended, or the server died.
Rest ==
    /\ \/ recvPc = "ended" /\ \A w \in Senders : pc[w] = "done"
       \/ recvPc = "thrown"
    /\ UNCHANGED vars

Next ==
    \/ \E c \in Calls : Register(c) \/ Caller(c)
    \/ \E a \in Aborts : AbortCall(a) \/ Sending(a)
    \/ Receiver
    \/ Sidecar
    \/ Rest

Spec == Init /\ [][Next]_vars

\* Threads of the server are scheduled, and a wait with a timeout ends.
\* Nothing is assumed of the sidecar.
FairSpec ==
    /\ Spec
    /\ \A c \in Calls : WF_vars(Caller(c))
    /\ \A a \in Aborts : WF_vars(Sending(a))
    /\ WF_vars(Receiver)

-----------------------------------------------------------------------------
(* Properties *)

TypeOK ==
    /\ pc \in [Senders -> {"idle", "send", "payload", "waiting", "failed", "expired",
                           "done"}]
    /\ pending \subseteq Calls
    /\ promise \in [Calls -> Named \cup {None}]
    /\ \A c \in Calls : promise[c] \in {None} \cup {m \in Named : m.cid = c}
    /\ answer \in [Calls -> Named \cup {None, Failed}]
    /\ connected \in BOOLEAN
    /\ recvPc \in {"recv", "ended", "thrown"}
    /\ wire \in Seq(Write) /\ Len(wire) <= SockCap
    /\ sidecar \in {"up", "hung", "lost", "gone"}
    /\ serving \subseteq Calls
    /\ takes \in [Calls -> Nat]
    /\ said \in [Calls -> SUBSET Named]
    /\ back \in Seq(Message)

\* pending_ holds exactly the promises that are not set and that a caller
\* still waits for or is about to erase: none is lost while its caller waits,
\* none is left behind by a timeout, a failed send or a late reply.
PendingExact ==
    \A c \in Calls :
        c \in pending <=> pc[c] \notin {"idle", "done"} /\ promise[c] = None

\* A promise is set at most once (a second set_value would throw in the
\* receiving thread and end the server), whatever the sidecar sends twice.
PromiseSetOnce ==
    [][\A c \in Calls : promise[c] # None => promise'[c] = promise[c]]_vars

Remote == INSTANCE RemoteCalls WITH asked <- {c \in Calls : pc[c] # "idle"},
                                    Messages <- Named

\* Calls are at-most-once remote calls: the sidecar reads a call once however the
\* caller's wait ends, a call returns once, and the message it returns is one the
\* sidecar sent for that call.  Late replies, status reports, lost connections and
\* mixed frames never make one call take another's answer.
ImplementsRemoteCalls == Remote!Spec

\* As long as the socket is read from now and then or the sidecar is gone, every
\* call returns, unless a message of the sidecar ends the whole server: a reply that
\* is lost, late or never sent does not park it.
EndsIfRead ==
    ([]<>(Len(wire) < SockCap \/ sidecar = "gone"))
        => \A c \in Calls : pc[c] = "send" ~> (pc[c] = "done" \/ recvPc = "thrown")

\* "Thread-safe" (ipc_transport.h, send): what the sidecar reads is a sequence
\* of frames, the last of them perhaps incomplete.
FramesWhole ==
    \A i \in 1 .. Len(wire) : wire[i].part = "header" /\ i < Len(wire) =>
        wire[i + 1] = [of |-> wire[i].of, part |-> "payload"]
=============================================================================
