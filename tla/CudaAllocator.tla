--------------------------- MODULE CudaAllocator ---------------------------
(***************************************************************************)
(* CudaAllocator (src/inference/backends/cuda/cuda_allocator.cpp): the     *)
(* pool of KV blocks.  A sequence maps its logical blocks to physical ones *)
(* through its block table; blocks are reference-counted, so that          *)
(* sequences may share them.  Every public method holds mu_ throughout:    *)
(* one method is one step.  A call that fails without a side effect takes  *)
(* no step.  Which bytes a block holds is not modelled here.               *)
(***************************************************************************)
EXTENDS Integers, Sequences, FiniteSets, SequencesExt

CONSTANTS
    Seqs,        \* sequence ids
    NumBlocks,   \* max_num_blocks_
    BlockSize    \* block_size_, in tokens

ASSUME AllocatorAssumption ==
    /\ IsFiniteSet(Seqs)
    /\ NumBlocks \in Nat \ {0}
    /\ BlockSize \in Nat \ {0}

VARIABLES
    freeList,   \* free_list_: a stack, its top is the last element
    refs,       \* block_ref_counts_
    live,       \* the keys of block_tables_
    tables,     \* block_tables_; <<>> for a sequence that is not live
    evicted     \* evicted_seqs_: blocks of an evicted sequence, or NotEvicted

allocVars == <<freeList, refs, live, tables, evicted>>

Blocks == 0 .. NumBlocks - 1
NotEvicted == -1

AllocInit ==
    /\ freeList = [i \in 1 .. NumBlocks |-> NumBlocks - i]
    /\ refs = [b \in Blocks |-> 0]
    /\ live = {}
    /\ tables = [s \in Seqs |-> <<>>]
    /\ evicted = [s \in Seqs |-> NotEvicted]

-----------------------------------------------------------------------------
(* alloc_block_locked and free_block_locked *)

\* The n blocks that n calls of alloc_block_locked pop, in that order.
Popped(n) == [i \in 1 .. n |-> freeList[Len(freeList) - i + 1]]

\* n calls of alloc_block_locked.
Pop(n) ==
    /\ freeList' = SubSeq(freeList, 1, Len(freeList) - n)
    /\ refs' = [b \in Blocks |-> IF b \in Range(Popped(n)) THEN 1 ELSE refs[b]]

\* Bug: a block goes back to the free list while another sequence uses it.
BugPushShared(bids) ==
    /\ freeList' = freeList \o bids
    /\ refs' = [b \in Blocks |->
                   IF b \in Range(bids) /\ refs[b] > 0 THEN refs[b] - 1 ELSE refs[b]]

\* free_block_locked on every block of bids, which repeats none.  Which of the
\* blocks pushed ends up on top is left open.
Push(bids) ==
    /\ freeList' = freeList \o SetToSeq({b \in Range(bids) : refs[b] <= 1})
    /\ refs' = [b \in Blocks |->
                   IF b \in Range(bids) /\ refs[b] > 0 THEN refs[b] - 1 ELSE refs[b]]

-----------------------------------------------------------------------------
(* The public methods *)

BlocksFor(n) ==
    LET k == (n + BlockSize - 1) \div BlockSize IN IF k < 1 THEN 1 ELSE k

\* allocate_sequence for a prompt of n tokens.
Allocate(s, n) ==
    /\ s \notin live
    /\ BlocksFor(n) <= Len(freeList)
    /\ Pop(BlocksFor(n))
    /\ live' = live \cup {s}
    /\ tables' = [tables EXCEPT ![s] = Popped(BlocksFor(n))]
    /\ UNCHANGED evicted

\* extend_sequence: one more block, also for an evicted sequence.
Extend(s) ==
    /\ s \in live
    /\ freeList # <<>>
    /\ Pop(1)
    /\ tables' = [tables EXCEPT ![s] = @ \o Popped(1)]
    /\ UNCHANGED <<live, evicted>>

\* Bug: the table is erased before its blocks are given back.
BugFreeErased(s) ==
    /\ s \in live
    /\ UNCHANGED <<freeList, refs>>
    /\ live' = live \ {s}
    /\ tables' = [tables EXCEPT ![s] = <<>>]
    /\ evicted' = [evicted EXCEPT ![s] = NotEvicted]

Free(s) ==
    /\ s \in live
    /\ Push(tables[s])
    /\ live' = live \ {s}
    /\ tables' = [tables EXCEPT ![s] = <<>>]
    /\ evicted' = [evicted EXCEPT ![s] = NotEvicted]

\* Bug: the copy shares the blocks and does not count them.
BugCopyUncounted(src, dst) ==
    /\ src \in live
    /\ tables' = [tables EXCEPT ![dst] = tables[src]]
    /\ live' = live \cup {dst}
    /\ UNCHANGED <<freeList, refs, evicted>>

\* copy_sequence: dst shares the blocks of src from now on.  The blocks dst had
\* before, if any, keep their count.
Copy(src, dst) ==
    /\ src \in live
    /\ tables' = [tables EXCEPT ![dst] = tables[src]]
    /\ live' = live \cup {dst}
    /\ refs' = [b \in Blocks |->
                   IF b \in Range(tables[src]) THEN refs[b] + 1 ELSE refs[b]]
    /\ UNCHANGED <<freeList, evicted>>

\* evict_sequence: the blocks go to the host buffer.
Evict(s) ==
    /\ s \in live /\ evicted[s] = NotEvicted
    /\ Push(tables[s])
    /\ tables' = [tables EXCEPT ![s] = <<>>]
    /\ evicted' = [evicted EXCEPT ![s] = Len(tables[s])]
    /\ UNCHANGED live

\* Bug: the sequence gets its blocks back without taking them.
BugReloadUnpopped(s) ==
    /\ evicted[s] # NotEvicted
    /\ evicted[s] <= Len(freeList)
    /\ tables' = [tables EXCEPT ![s] = @ \o Popped(evicted[s])]
    /\ evicted' = [evicted EXCEPT ![s] = NotEvicted]
    /\ UNCHANGED <<freeList, refs, live>>

\* reload_sequence: when blocks run out the ones taken so far stay in the table
\* and the sequence stays evicted.
Reload(s) ==
    LET enough == evicted[s] <= Len(freeList)
        n      == IF enough THEN evicted[s] ELSE Len(freeList)
    IN  /\ evicted[s] # NotEvicted
        /\ Pop(n)
        /\ tables' = [tables EXCEPT ![s] = @ \o Popped(n)]
        /\ evicted' = IF enough THEN [evicted EXCEPT ![s] = NotEvicted] ELSE evicted
        /\ UNCHANGED live

-----------------------------------------------------------------------------
(* Any callers, in any order *)

AllocNext ==
    \E s \in Seqs :
        \/ \E n \in Nat : Allocate(s, n)
        \/ Extend(s)
        \/ Free(s)
        \/ \E dst \in Seqs : Copy(s, dst)
        \/ Evict(s)
        \/ Reload(s)

AllocSpec == AllocInit /\ [][AllocNext]_allocVars

-----------------------------------------------------------------------------
(* Properties *)

AllocTypeOK ==
    /\ freeList \in Seq(Blocks) /\ Len(freeList) <= NumBlocks
    /\ refs \in [Blocks -> Nat]
    /\ live \subseteq Seqs
    /\ tables \in [Seqs -> Seq(Blocks)]
    /\ evicted \in [Seqs -> Nat \cup {NotEvicted}]

Users(b) == {s \in Seqs : b \in Range(tables[s])}

\* Whatever sequences share, evict, reload or free, in any order, a block that
\* some block table names is counted at least once for each such table and is
\* not on the free list: it is never handed to a second owner while in use.
UsedBlocksCounted ==
    \A b \in Blocks : Cardinality(Users(b)) <= refs[b]

\* The free list holds every block nobody counts, once, and no other block.
FreeListExact ==
    /\ \A b \in Blocks : refs[b] = 0 <=> b \in Range(freeList)
    /\ \A i, j \in 1 .. Len(freeList) : freeList[i] = freeList[j] => i = j

\* No two positions of a block table share a block, so that two tokens of a
\* sequence never have the same KV slot.
TablesInjective ==
    \A s \in Seqs : \A i, j \in 1 .. Len(tables[s]) :
        tables[s][i] = tables[s][j] => i = j
=============================================================================
