---------------------------- MODULE MCCudaEngine ----------------------------
(* Instances of CudaEngine for TLC. *)
EXTENDS CudaEngine, TLC

CONSTANTS c1, c2

\* Blocks of two tokens: c1 crosses a boundary in its prompt, c2 in its answer.
TwoPrompts == (c1 :> 3) @@ (c2 :> 2)
TwoAnswers == (c1 :> 0) @@ (c2 :> 1)

\* One prompt of as many tokens as two blocks of two hold.
FullPrompt == [c \in Seqs |-> 4]
NoAnswer == [c \in Seqs |-> 0]
=============================================================================
