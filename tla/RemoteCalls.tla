---------------------------- MODULE RemoteCalls ----------------------------
(***************************************************************************)
(* What IpcClient promises the callers of call_tool and run_preprocessor,  *)
(* without sockets, promises or threads: at-most-once remote calls.  The   *)
(* sidecar takes a call at most once and only after it was asked; a call   *)
(* ends once, with a message the sidecar sent for that very call or with a *)
(* failure, which says nothing of whether the sidecar took it.             *)
(***************************************************************************)
EXTENDS Naturals

CONSTANTS
    Calls,
    Messages,  \* what the sidecar may send for a call
    None,      \* the answer of a call that has not ended
    Failed     \* the answer of a call that failed

VARIABLES
    asked,   \* the calls made
    takes,   \* per call, how often the sidecar has taken it
    said,    \* per call, the messages the sidecar has sent for it
    answer   \* per call, the message it returned, Failed or None

rvars == <<asked, takes, said, answer>>

Init ==
    /\ asked = {}
    /\ takes = [c \in Calls |-> 0]
    /\ said = [c \in Calls |-> {}]
    /\ answer = [c \in Calls |-> None]

Ask(c) ==
    /\ c \notin asked
    /\ asked' = asked \cup {c}
    /\ UNCHANGED <<takes, said, answer>>

\* Also when the caller has given up meanwhile; never again.
Take(c) ==
    /\ c \in asked
    /\ takes[c] = 0
    /\ takes' = [takes EXCEPT ![c] = 1]
    /\ UNCHANGED <<asked, said, answer>>

Say(c, m) ==
    /\ takes[c] = 1
    /\ said' = [said EXCEPT ![c] = @ \cup {m}]
    /\ UNCHANGED <<asked, takes, answer>>

End(c, a) ==
    /\ c \in asked
    /\ answer[c] = None
    /\ answer' = [answer EXCEPT ![c] = a]
    /\ UNCHANGED <<asked, takes, said>>

Answer(c) == \E m \in said[c] : End(c, m)

Fail(c) == End(c, Failed)

Next == \E c \in Calls :
    \/ Ask(c) \/ Take(c) \/ Answer(c) \/ Fail(c)
    \/ \E m \in Messages : Say(c, m)

Spec == Init /\ [][Next]_rvars
=============================================================================
