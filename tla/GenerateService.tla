-------------------------- MODULE GenerateService --------------------------
(***************************************************************************)
(* What the continuous-batching scheduler promises its callers, without    *)
(* slots, batches or KV cells: a bounded FIFO of accepted requests, at     *)
(* most MaxSeqs of them in progress, and one reply per request, which      *)
(* never changes once given.  BatchScheduler is shown to implement it.     *)
(***************************************************************************)
EXTENDS Naturals, Sequences, FiniteSets

CONSTANTS Requests,   \* the requests callers may submit, each at most once
          MaxSeqs,    \* how many may be in progress together
          MaxQueue    \* how many may wait

VARIABLES waiting,    \* accepted requests, oldest first
          active,     \* requests in progress
          reply,      \* "new", "pending" or the answer given
          open        \* FALSE once the service was told to stop

svars == <<waiting, active, reply, open>>

\* ErrorCode of the result, the finish reason added for Ok.
Answers == {"stop", "length", "InternalError", "InvalidArgument", "Unavailable"}

Init ==
    /\ waiting = <<>>
    /\ active = {}
    /\ reply = [r \in Requests |-> "new"]
    /\ open = TRUE

Accept(r) ==
    /\ reply[r] = "new" /\ open
    /\ Len(waiting) < MaxQueue
    /\ waiting' = Append(waiting, r)
    /\ reply' = [reply EXCEPT ![r] = "pending"]
    /\ UNCHANGED <<active, open>>

Refuse(r) ==
    /\ reply[r] = "new" /\ open
    /\ Len(waiting) = MaxQueue
    /\ reply' = [reply EXCEPT ![r] = "Unavailable"]
    /\ UNCHANGED <<waiting, active, open>>

\* Only the oldest waiting request may be started or turned down.
Start ==
    /\ waiting # <<>>
    /\ Cardinality(active) < MaxSeqs
    /\ active' = active \cup {Head(waiting)}
    /\ waiting' = Tail(waiting)
    /\ UNCHANGED <<reply, open>>

TurnDown ==
    /\ waiting # <<>>
    /\ \E a \in {"InvalidArgument"} \cup (IF open THEN {} ELSE {"Unavailable"}) :
           reply' = [reply EXCEPT ![Head(waiting)] = a]
    /\ waiting' = Tail(waiting)
    /\ UNCHANGED <<active, open>>

\* A request in progress ends well, or with an engine error, or is given up
\* because the service stops.
Finish(r) ==
    /\ r \in active
    /\ \E a \in {"stop", "length", "InternalError"}
                    \cup (IF open THEN {} ELSE {"Unavailable"}) :
           reply' = [reply EXCEPT ![r] = a]
    /\ active' = active \ {r}
    /\ UNCHANGED <<waiting, open>>

Stop ==
    /\ open
    /\ open' = FALSE
    /\ UNCHANGED <<waiting, active, reply>>

Next ==
    \/ \E r \in Requests : Accept(r) \/ Refuse(r) \/ Finish(r)
    \/ Start
    \/ TurnDown
    \/ Stop

Spec == Init /\ [][Next]_svars

\* What callers blocked on their future count on.
Answered == \A r \in Requests : reply[r] = "pending" ~> reply[r] \in Answers

=============================================================================
