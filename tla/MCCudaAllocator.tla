-------------------------- MODULE MCCudaAllocator --------------------------
(* An instance of CudaAllocator for TLC, with bounds. *)
EXTENDS CudaAllocator, TLC

CONSTANTS
    MaxTokens,   \* bound: the longest prompt
    MaxRefs      \* bound: copies are taken only of blocks counted less often

MCAllocNext ==
    \E s \in Seqs :
        \/ \E n \in 0 .. MaxTokens : Allocate(s, n)
        \/ Extend(s)
        \/ Free(s)
        \/ \E dst \in Seqs : /\ \A b \in Range(tables[s]) : refs[b] < MaxRefs
                             /\ Copy(s, dst)
        \/ Evict(s)
        \/ Reload(s)

MCAllocSpec == AllocInit /\ [][MCAllocNext]_allocVars

SeqSymmetry == Permutations(Seqs)
=============================================================================
