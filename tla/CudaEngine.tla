----------------------------- MODULE CudaEngine -----------------------------
(***************************************************************************)
(* CudaEngine::generate (src/inference/backends/cuda/cuda_engine.cpp) on   *)
(* the paged path (one token per forward pass, ggml and vllm kernels) or   *)
(* on the megakernel path, with inject_tokens, over the block pool of      *)
(* CudaAllocator.  Each call runs in the HTTP thread that received the     *)
(* request; nothing in the engine or in the routers keeps two calls apart, *)
(* and they share every device buffer.  A step is one access to state the  *)
(* calls share.                                                            *)
(*                                                                         *)
(* A call takes a fresh sequence id, so both are named by a member of Seqs *)
(* here.  A token is named by its call and its position; the compression   *)
(* passes and the sampler chain are left out.                              *)
(***************************************************************************)
EXTENDS CudaAllocator

CONSTANTS
    PromptLen,        \* tokens of each request
    MaxNew,           \* max_tokens of each request
    InjectLen,        \* tokens of an injection
    MaxBlocksPerSeq,  \* max_blocks_per_seq_: entries of bt_dev_buf_
    MaxActive,        \* threads that run generate() at a time
    MaxInject,        \* bound: calls that an injection names
    None

ASSUME EngineAssumption ==
    /\ PromptLen \in [Seqs -> Nat \ {0}]
    /\ MaxNew \in [Seqs -> Nat]
    /\ InjectLen \in Nat \ {0}
    /\ MaxBlocksPerSeq \in Nat \ {0}
    /\ MaxActive \in Nat \ {0}
    /\ MaxInject \in Nat
    /\ None \notin Seqs

VARIABLES
    megakernel,  \* inf_cfg_.cuda_engine.use_megakernel, never changed
    pc,          \* per call, where generate() is
    kept,        \* per call, num_prompt: prompt tokens left after scoring
    pos,         \* per call, the position being forwarded (i, then seq_pos)
    made,        \* per call, tokens generated
    sessions,    \* active_sessions_: kv_seq_len per request, or NoSession
    inject,      \* per call, the state of an inject_tokens call naming it
    smBuf,       \* sm_dev_buf_: the slot the next kernel writes
    btBuf,       \* bt_dev_buf_: the block table the next kernel reads
    seqLen,      \* d_seq_lens_
    residual,    \* d_residual_: whose activations it holds
    mkInput,     \* d_mk_input_ids_: whose tokens it holds, and from where
    argmax,      \* d_mk_argmax_out_
    logits,      \* d_logits_buf_
    kv,          \* kv_cache_dev_: per slot, the token whose K/V it holds
    disturbed    \* history: the calls another inference ran alongside

hostVars == <<kept, pos, made>>
deviceVars == <<smBuf, btBuf, seqLen, residual, mkInput, argmax, logits, kv>>
engineVars == <<megakernel, pc, hostVars, sessions, inject, deviceVars, disturbed>>
vars == <<allocVars, engineVars>>

NoSession == -1
NoSlot == -1
Slots == 0 .. NumBlocks * BlockSize - 1

\* What a buffer of activations was computed from: the last token, and
\* whether attention read exactly that token and the ones before it.
Output == [call : Seqs, at : Nat, exact : BOOLEAN]

\* Bug: the offset in the block is not reduced.
BugSlotOf(bt, p) ==
    IF p \div BlockSize < Len(bt)
    THEN bt[p \div BlockSize + 1] * BlockSize + p
    ELSE NoSlot

\* The slot of position p through block table bt.
SlotOf(bt, p) ==
    IF p \div BlockSize < Len(bt)
    THEN bt[p \div BlockSize + 1] * BlockSize + (p % BlockSize)
    ELSE NoSlot

Idle == [at |-> "off", from |-> 0, next |-> 0]

Init ==
    /\ AllocInit
    /\ megakernel \in BOOLEAN
    /\ pc = [c \in Seqs |-> "idle"]
    /\ kept = [c \in Seqs |-> 0]
    /\ pos = [c \in Seqs |-> 0]
    /\ made = [c \in Seqs |-> 0]
    /\ sessions = [c \in Seqs |-> NoSession]
    /\ inject = [c \in Seqs |-> Idle]
    /\ smBuf = NoSlot
    /\ btBuf = <<>>
    /\ seqLen = 0
    /\ residual = None
    /\ mkInput = None
    /\ argmax = None
    /\ logits = None
    /\ kv = [s \in Slots |-> None]
    /\ disturbed = {}

Goto(c, where) == pc' = [pc EXCEPT ![c] = where]

Running == {c \in Seqs : pc[c] \notin {"idle", "done", "thrown"}}
Injecting == {c \in Seqs : inject[c].at \notin {"off", "over"}}

\* An inference of call c starts: it and those under way disturb each other.
Disturb(c) ==
    disturbed' = IF Running \cup Injecting = {} THEN disturbed
                 ELSE disturbed \cup Running \cup Injecting \cup {c}

-----------------------------------------------------------------------------
(* Entering and leaving generate() *)

Begin(c) ==
    /\ pc[c] = "idle"
    /\ Cardinality(Running) < MaxActive
    /\ Allocate(c, PromptLen[c])
    /\ Goto(c, "register")
    /\ Disturb(c)
    /\ UNCHANGED <<megakernel, hostVars, sessions, inject, deviceVars>>

\* KV pool exhausted: Unavailable.
BeginRefused(c) ==
    /\ pc[c] = "idle"
    /\ Cardinality(Running) < MaxActive
    /\ BlocksFor(PromptLen[c]) > Len(freeList)
    /\ Goto(c, "done")
    /\ UNCHANGED <<allocVars, megakernel, hostVars, sessions, inject, deviceVars,
                   disturbed>>

\* register_active_session, then run_scoring_pass, which may drop tokens.
Register(c) ==
    /\ pc[c] = "register"
    /\ sessions' = [sessions EXCEPT ![c] = 0]
    /\ \E n \in 1 .. PromptLen[c] : kept' = [kept EXCEPT ![c] = n]
    /\ pos' = [pos EXCEPT ![c] = IF megakernel THEN BlockSize ELSE 0]
    /\ Goto(c, IF megakernel THEN "mkExtend" ELSE "extend")
    /\ UNCHANGED <<allocVars, megakernel, made, inject, deviceVars, disturbed>>

Release(c) ==
    /\ pc[c] = "release"
    /\ Free(c)
    /\ Goto(c, "unregister")
    /\ UNCHANGED <<megakernel, hostVars, sessions, inject, deviceVars, disturbed>>

\* The session guard, on the way out.
Unregister(c) ==
    /\ pc[c] = "unregister"
    /\ sessions' = [sessions EXCEPT ![c] = NoSession]
    /\ Goto(c, "done")
    /\ UNCHANGED <<allocVars, megakernel, hostVars, inject, deviceVars, disturbed>>

\* A CUDA error is thrown out of the forward pass: the session guard runs, nothing
\* frees the sequence, and its blocks are lost to every later call.
Throw(c) ==
    /\ pc[c] \in {"length", "embed", "attend", "logits", "mkUpload", "mkLaunch",
                  "mkLogits"}
    /\ sessions' = [sessions EXCEPT ![c] = NoSession]
    /\ Goto(c, "thrown")
    /\ UNCHANGED <<allocVars, megakernel, hostVars, inject, deviceVars, disturbed>>

-----------------------------------------------------------------------------
(* Blocks for the prompt and for each block boundary *)

ForwardStart == IF megakernel THEN "mkUpload" ELSE "slots"

Prefilling(c) == pos[c] < kept[c]

\* Bug: the answer does not extend.
BugAtBoundary(c) == pos[c] % BlockSize = 0 /\ Prefilling(c) /\ pos[c] > 0

\* Prefill reserves its blocks again, although Begin took them.
AtBoundary(c) == pos[c] % BlockSize = 0 /\ (Prefilling(c) => pos[c] > 0)

\* Bug: out of blocks, the call tries again until some are free.
BugExtendWait(c) ==
    /\ pc[c] = "extend"
    /\ IF ~AtBoundary(c)
       THEN UNCHANGED allocVars /\ Goto(c, ForwardStart)
       ELSE \/ Extend(c) /\ Goto(c, ForwardStart)
            \/ freeList = <<>> /\ UNCHANGED <<allocVars, pc>>
    /\ UNCHANGED <<megakernel, hostVars, sessions, inject, deviceVars, disturbed>>

\* Before the forward pass of one token; out of blocks, the answer ends here.
ExtendAtBoundary(c) ==
    /\ pc[c] = "extend"
    /\ IF ~AtBoundary(c)
       THEN UNCHANGED allocVars /\ Goto(c, ForwardStart)
       ELSE \/ Extend(c) /\ Goto(c, ForwardStart)
            \/ freeList = <<>> /\ UNCHANGED allocVars /\ Goto(c, "release")
    /\ UNCHANGED <<megakernel, hostVars, sessions, inject, deviceVars, disturbed>>

\* Megakernel prefill: the blocks of the whole prompt.
MkExtend(c) ==
    /\ pc[c] = "mkExtend"
    /\ \/ /\ pos[c] < kept[c]
          /\ Extend(c)
          /\ pos' = [pos EXCEPT ![c] = @ + BlockSize]
          /\ UNCHANGED pc
       \/ /\ pos[c] < kept[c] /\ freeList = <<>>
          /\ Goto(c, "release")
          /\ UNCHANGED <<allocVars, pos>>
       \/ /\ pos[c] >= kept[c]
          /\ pos' = [pos EXCEPT ![c] = kept[c] - 1]
          /\ Goto(c, ForwardStart)
          /\ UNCHANGED allocVars
    /\ UNCHANGED <<megakernel, kept, made, sessions, inject, deviceVars, disturbed>>

-----------------------------------------------------------------------------
(* run_forward: one token, through the block table *)

\* get_device_slot_mapping, on the staging buffer of the allocator.
UploadSlots(c) ==
    /\ pc[c] = "slots"
    /\ smBuf' = SlotOf(tables[c], pos[c])
    /\ Goto(c, "table")
    /\ UNCHANGED <<allocVars, megakernel, hostVars, sessions, inject, btBuf, seqLen,
                   residual, mkInput, argmax, logits, kv, disturbed>>

\* get_device_block_table.
UploadTable(c) ==
    /\ pc[c] = "table"
    /\ btBuf' = tables[c]
    /\ Goto(c, "length")
    /\ UNCHANGED <<allocVars, megakernel, hostVars, sessions, inject, smBuf, seqLen,
                   residual, mkInput, argmax, logits, kv, disturbed>>

\* Bug: the length excludes the token itself.
BugUploadLength(c) ==
    /\ pc[c] = "length"
    /\ seqLen' = pos[c]
    /\ Goto(c, "embed")
    /\ UNCHANGED <<allocVars, megakernel, hostVars, sessions, inject, smBuf, btBuf,
                   residual, mkInput, argmax, logits, kv, disturbed>>

UploadLength(c) ==
    /\ pc[c] = "length"
    /\ seqLen' = pos[c] + 1
    /\ Goto(c, "embed")
    /\ UNCHANGED <<allocVars, megakernel, hostVars, sessions, inject, smBuf, btBuf,
                   residual, mkInput, argmax, logits, kv, disturbed>>

Embed(c) ==
    /\ pc[c] = "embed"
    /\ residual' = [call |-> c, at |-> pos[c], exact |-> FALSE]
    /\ Goto(c, "attend")
    /\ UNCHANGED <<allocVars, megakernel, hostVars, sessions, inject, smBuf, btBuf,
                   seqLen, mkInput, argmax, logits, kv, disturbed>>

\* Attention over cache reads the token of out and every token before it.
ReadsHistory(cache, out) ==
    /\ seqLen = out.at + 1
    /\ \A p \in 0 .. out.at :
           LET s == SlotOf(btBuf, p)
           IN  s # NoSlot /\ cache[s] = <<out.call, p>>

\* The layers: reshape_and_cache writes K and V of the activations through the
\* slot buffer, paged_attention reads through the table buffer.
Attend(c) ==
    /\ pc[c] = "attend"
    /\ kv' = IF smBuf = NoSlot THEN kv
             ELSE [kv EXCEPT ![smBuf] = <<residual.call, residual.at>>]
    /\ residual' = [residual EXCEPT !.exact = ReadsHistory(kv', residual)]
    /\ Goto(c, "logits")
    /\ UNCHANGED <<allocVars, megakernel, hostVars, sessions, inject, smBuf, btBuf,
                   seqLen, mkInput, argmax, logits, disturbed>>

\* lm_head; in prefill the loop goes on with the next prompt token.
Logits(c) ==
    /\ pc[c] = "logits"
    /\ logits' = residual
    /\ IF pos[c] + 1 < kept[c]
       THEN Goto(c, "extend") /\ pos' = [pos EXCEPT ![c] = @ + 1]
       ELSE Goto(c, "sample") /\ UNCHANGED pos
    /\ UNCHANGED <<allocVars, megakernel, kept, made, sessions, inject, smBuf, btBuf,
                   seqLen, residual, mkInput, argmax, kv, disturbed>>

-----------------------------------------------------------------------------
(* run_forward_megakernel: slots are positions in the pool, whatever the     *)
(* block table says.  n tokens from position from on.                        *)

\* K and V of the tokens in the input buffer, written to n slots from start on.
MegakernelCache(start, n) ==
    [s \in Slots |-> IF s \in start .. start + n - 1
                     THEN <<mkInput.call, mkInput.from + s - start>>
                     ELSE kv[s]]

MkHistory(c, cache, last) == \A p \in 0 .. last : cache[p] = <<c, p>>

\* A prompt is written from position 0 on, then one token at a time.
MkFrom(c) == IF Prefilling(c) THEN 0 ELSE pos[c]

MkUpload(c) ==
    /\ pc[c] = "mkUpload"
    /\ mkInput' = [call |-> c, from |-> MkFrom(c)]
    /\ Goto(c, "mkLaunch")
    /\ UNCHANGED <<allocVars, megakernel, hostVars, sessions, inject, smBuf, btBuf,
                   seqLen, residual, argmax, logits, kv, disturbed>>

MkLaunch(c) ==
    /\ pc[c] = "mkLaunch"
    /\ kv' = MegakernelCache(MkFrom(c), pos[c] + 1 - MkFrom(c))
    /\ argmax' = [call |-> mkInput.call, at |-> pos[c],
                  exact |-> MkHistory(mkInput.call, kv', pos[c])]
    /\ Goto(c, "mkLogits")
    /\ UNCHANGED <<allocVars, megakernel, hostVars, sessions, inject, smBuf, btBuf,
                   seqLen, residual, mkInput, logits, disturbed>>

MkLogits(c) ==
    /\ pc[c] = "mkLogits"
    /\ logits' = argmax
    /\ Goto(c, IF Prefilling(c) THEN "mkNote" ELSE "sample")
    /\ UNCHANGED <<allocVars, megakernel, hostVars, sessions, inject, smBuf, btBuf,
                   seqLen, residual, mkInput, argmax, kv, disturbed>>

\* Bug: a session that is gone comes back.
BugUpdateLen(c, n) == sessions' = [sessions EXCEPT ![c] = n]

\* update_session_kv_len: nothing happens once the session is gone.
UpdateLen(c, n) ==
    sessions' = IF sessions[c] = NoSession THEN sessions
                ELSE [sessions EXCEPT ![c] = n]

MkNote(c) ==
    /\ pc[c] = "mkNote"
    /\ UpdateLen(c, kept[c])
    /\ Goto(c, "sample")
    /\ UNCHANGED <<allocVars, megakernel, hostVars, inject, deviceVars, disturbed>>

-----------------------------------------------------------------------------
(* Sampling and the decode loop *)

Sample(c) ==
    /\ pc[c] = "sample"
    /\ IF Prefilling(c)
       THEN Goto(c, "decide") /\ pos' = [pos EXCEPT ![c] = kept[c]]
       ELSE Goto(c, "note") /\ UNCHANGED pos
    /\ UNCHANGED <<allocVars, megakernel, kept, made, sessions, inject, deviceVars,
                   disturbed>>

Note(c) ==
    /\ pc[c] = "note"
    /\ pos' = [pos EXCEPT ![c] = @ + 1]
    /\ UpdateLen(c, pos[c] + 1)
    /\ Goto(c, "decide")
    /\ UNCHANGED <<allocVars, megakernel, kept, made, inject, deviceVars, disturbed>>

\* max_tokens, end of generation or a stop token end the answer; any other
\* token is streamed and fed back.
Decide(c) ==
    /\ pc[c] = "decide"
    /\ \/ /\ made[c] < MaxNew[c]
          /\ made' = [made EXCEPT ![c] = @ + 1]
          /\ Goto(c, "extend")
       \/ /\ Goto(c, "release")
          /\ UNCHANGED made
    /\ UNCHANGED <<allocVars, megakernel, kept, pos, sessions, inject, deviceVars,
                   disturbed>>

-----------------------------------------------------------------------------
(* inject_tokens naming the request of call c, from a plugin's thread; at    *)
(* most one per call.  Its caller passes the end of the cache as position.   *)

\* The session is read under its lock and used after it.
InjectStart(c) ==
    /\ megakernel
    /\ inject[c].at = "off"
    /\ Cardinality({d \in Seqs : inject[d].at # "off"}) < MaxInject
    /\ sessions[c] # NoSession
    /\ inject' = [inject EXCEPT ![c] = [at |-> "extend", from |-> sessions[c],
                                        next |-> sessions[c]]]
    /\ Disturb(c)
    /\ UNCHANGED <<allocVars, megakernel, pc, hostVars, sessions, deviceVars>>

InjectGoto(c, where) == inject' = [inject EXCEPT ![c].at = where]

InjectEnd(c) == inject[c].from + InjectLen

\* One position of the append: a block at each boundary it crosses.
InjectExtend(c) ==
    LET p == inject[c].next IN
    /\ inject[c].at = "extend"
    /\ IF p = InjectEnd(c)
       THEN InjectGoto(c, "upload") /\ UNCHANGED allocVars
       ELSE IF p > 0 /\ p % BlockSize = 0
       THEN \/ Extend(c) /\ inject' = [inject EXCEPT ![c].next = p + 1]
            \/ /\ freeList = <<>> \/ c \notin live
               /\ InjectGoto(c, "over")
               /\ UNCHANGED allocVars
       ELSE inject' = [inject EXCEPT ![c].next = p + 1] /\ UNCHANGED allocVars
    /\ UNCHANGED <<megakernel, pc, hostVars, sessions, deviceVars, disturbed>>

\* Injected tokens have no position in the call: -1 and below stand for them.
InjectUpload(c) ==
    /\ inject[c].at = "upload"
    /\ mkInput' = [call |-> c, from |-> -InjectLen]
    /\ InjectGoto(c, "launch")
    /\ UNCHANGED <<allocVars, megakernel, pc, hostVars, sessions, smBuf, btBuf, seqLen,
                   residual, argmax, logits, kv, disturbed>>

InjectLaunch(c) ==
    /\ inject[c].at = "launch"
    /\ kv' = MegakernelCache(inject[c].from, InjectLen)
    /\ argmax' = [call |-> mkInput.call, at |-> InjectEnd(c) - 1, exact |-> FALSE]
    /\ InjectGoto(c, "logits")
    /\ UNCHANGED <<allocVars, megakernel, pc, hostVars, sessions, smBuf, btBuf, seqLen,
                   residual, mkInput, logits, disturbed>>

InjectLogits(c) ==
    /\ inject[c].at = "logits"
    /\ logits' = argmax
    /\ InjectGoto(c, "note")
    /\ UNCHANGED <<allocVars, megakernel, pc, hostVars, sessions, smBuf, btBuf, seqLen,
                   residual, mkInput, argmax, kv, disturbed>>

InjectNote(c) ==
    /\ inject[c].at = "note"
    /\ UpdateLen(c, InjectEnd(c))
    /\ InjectGoto(c, "over")
    /\ UNCHANGED <<allocVars, megakernel, pc, hostVars, deviceVars, disturbed>>

\* A CUDA error: the plugin's call fails, the session keeps its length.
InjectThrow(c) ==
    /\ inject[c].at \in {"upload", "launch", "logits"}
    /\ InjectGoto(c, "over")
    /\ UNCHANGED <<allocVars, megakernel, pc, hostVars, sessions, deviceVars, disturbed>>

-----------------------------------------------------------------------------

\* What the thread of call c does once the request is in.
Generate(c) ==
    \/ Register(c) \/ Release(c) \/ Unregister(c) \/ Throw(c)
    \/ ExtendAtBoundary(c) \/ MkExtend(c)
    \/ UploadSlots(c) \/ UploadTable(c) \/ UploadLength(c)
    \/ Embed(c) \/ Attend(c) \/ Logits(c)
    \/ MkUpload(c) \/ MkLaunch(c) \/ MkLogits(c) \/ MkNote(c)
    \/ Sample(c) \/ Note(c) \/ Decide(c)

Inject(c) ==
    \/ InjectStart(c) \/ InjectExtend(c) \/ InjectUpload(c) \/ InjectLaunch(c)
    \/ InjectLogits(c) \/ InjectNote(c) \/ InjectThrow(c)

\* No request is left: the server waits.
Quiet ==
    /\ \A c \in Seqs : pc[c] \in {"done", "thrown"}
    /\ UNCHANGED vars

Next ==
    \/ \E c \in Seqs : Begin(c) \/ BeginRefused(c) \/ Generate(c) \/ Inject(c)
    \/ Quiet

Spec == Init /\ [][Next]_vars

\* Every HTTP thread inside generate() is scheduled.
FairSpec == Spec /\ \A c \in Seqs : WF_vars(Generate(c))

-----------------------------------------------------------------------------
(* Properties *)

TypeOK ==
    /\ AllocTypeOK
    /\ megakernel \in BOOLEAN
    /\ pc \in [Seqs -> {"idle", "register", "mkExtend", "extend", "slots", "table",
                        "length", "embed", "attend", "logits", "mkUpload", "mkLaunch",
                        "mkLogits", "mkNote", "sample", "note", "decide", "release",
                        "unregister", "done", "thrown"}]
    /\ kept \in [Seqs -> Nat]
    /\ pos \in [Seqs -> Nat]
    /\ made \in [Seqs -> Nat]
    /\ sessions \in [Seqs -> Nat \cup {NoSession}]
    /\ inject \in [Seqs -> [at : {"off", "extend", "upload", "launch", "logits", "note",
                                  "over"}, from : Nat, next : Nat]]
    /\ smBuf \in Slots \cup {NoSlot}
    /\ btBuf \in Seq(Blocks)
    /\ seqLen \in Nat
    /\ residual \in Output \cup {None}
    /\ mkInput \in [call : Seqs, from : Int] \cup {None}
    /\ argmax \in Output \cup {None}
    /\ logits \in Output \cup {None}
    /\ kv \in [Slots -> (Seqs \X Int) \cup {None}]
    /\ disturbed \subseteq Seqs

OwnOutput(c) == logits = [call |-> c, at |-> pos[c], exact |-> TRUE]

\* "one inference at a time" (docs/architecture.md, Thread Safety): a token is
\* sampled from the logits of the call's own last token, and attention read
\* that call's tokens 0 .. pos and nothing else.
SamplesOwnOutput == \A c \in Seqs : pc[c] = "sample" => OwnOutput(c)

\* The same for a call that no other inference ran alongside, whatever calls
\* before it left in the pool, in the staging buffers and in the free list.
AloneSamplesOwnOutput ==
    \A c \in Seqs \ disturbed : pc[c] = "sample" => OwnOutput(c)

\* assert(blk_idx < bt.size()) in get_device_slot_mapping, compiled out of a
\* release build: each position forwarded has a block.
SlotInTable ==
    \A c \in Seqs : pc[c] = "slots" => SlotOf(tables[c], pos[c]) # NoSlot

\* However the calls interleave and end, a block is on the free list, in the table
\* of one call that still runs, or leaked: in the table of one call that a CUDA
\* error ended, which nothing frees (Throw).  No block has two owners, and only a
\* CUDA error loses one.
BlocksConserved ==
    \A b \in Blocks :
        IF b \in Range(freeList) THEN Users(b) = {}
        ELSE \E c \in Seqs : Users(b) = {c} /\ (c \in Running \/ pc[c] = "thrown")

\* A call that returned, on any path but a CUDA error, left no session behind, and
\* its sequence holds no block: not even when an injection naming it is running.
ReturnsClean ==
    \A c \in Seqs :
        pc[c] = "done" => sessions[c] = NoSession /\ tables[c] = <<>>

\* A request out of blocks is answered, not parked: no call waits for another
\* one to give blocks back.
EveryCallEnds ==
    \A c \in Seqs : pc[c] # "idle" ~> pc[c] \in {"done", "thrown"}

\* bt_dev_buf_ has max_blocks_per_seq_ entries, and "2048 blocks is more than
\* enough for 32768 tokens with block_size=16" (constructor): the block table
\* of a prompt of at most max_blocks_per_seq_ blocks fits.
TableFitsStaging ==
    \A c \in Seqs :
        /\ pc[c] = "table"
        /\ PromptLen[c] + MaxNew[c] <= MaxBlocksPerSeq * BlockSize
        => Len(tables[c]) <= MaxBlocksPerSeq
=============================================================================
