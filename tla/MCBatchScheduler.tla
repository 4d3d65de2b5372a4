-------------------------- MODULE MCBatchScheduler --------------------------
(* Instances of BatchScheduler for TLC. *)
EXTENDS BatchScheduler, TLC

CONSTANTS r1, r2, r3, a, b, s1

\* Three requests outside any session; r3 can never be admitted (NCtx = 5).
PlainPrompt == (r1 :> <<a>>) @@ (r2 :> <<a, b, a>>) @@ (r3 :> <<b, b, b, b, b>>)
PlainSession == [r \in Requests |-> None]

\* r1 and r2 are turns of a session, r3 has none and may evict it.
MixedPrompt == (r1 :> <<a, a>>) @@ (r2 :> <<a, a, b, b>>) @@ (r3 :> <<b>>)
MixedSession == (r1 :> s1) @@ (r2 :> s1) @@ (r3 :> None)

\* Each prompt fits the context alone, two of them together do not (NCtx = 5).
WidePrompt == (r1 :> <<a, a, a>>) @@ (r2 :> <<a, b, a>>) @@ (r3 :> <<b>>)

TwoNew == [r \in Requests |-> 2]
=============================================================================
