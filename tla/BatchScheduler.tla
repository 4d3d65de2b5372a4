--------------------------- MODULE BatchScheduler ---------------------------
(***************************************************************************)
(* ContinuousBatchScheduler (src/inference/scheduler/batch_scheduler.cpp): *)
(* callers submit requests under queue_mu_; one worker thread admits them  *)
(* into slots, packs the pending tokens of every busy slot in one batch,   *)
(* decodes the batch chunk by chunk, samples one token per slot and        *)
(* completes slots.  A slot of a session stays warm after a clean answer   *)
(* and its KV cells are reused by a later request with the same prefix.    *)
(*                                                                         *)
(* Every loop of the worker takes one step per element, so callers         *)
(* interleave with it wherever it does not hold queue_mu_.  Tokens are     *)
(* members of a small set; KV cells are <<position, token>> pairs.         *)
(***************************************************************************)
EXTENDS Integers, Sequences, FiniteSets

CONSTANTS
    Requests,   \* the requests submitted, each once
    Tokens,     \* tokens other than the end-of-generation token
    Sessions,   \* session ids a request may carry
    Eog,        \* the end-of-generation token
    None,       \* the empty session id; no request, no sampled token
    Prompt,     \* the tokens of each request
    Session,    \* the session id of each request, or None
    MaxNew,     \* max_tokens of each request
    MaxSeqs,    \* number of slots, max_seqs_
    MaxQueue,   \* max_queue_
    NCtx,       \* llama_n_ctx
    NBatch,     \* llama_n_batch: tokens of one llama_decode call
    MinReuse    \* kMinReusePrefixToks (64 in the code)

ASSUME SchedulerAssumption ==
    /\ None \notin Requests \cup Tokens \cup Sessions
    /\ Eog \notin Tokens
    /\ Prompt \in [Requests -> Seq(Tokens)]
    /\ Session \in [Requests -> Sessions \cup {None}]
    /\ MaxNew \in [Requests -> Nat \ {0}]
    /\ MaxSeqs \in Nat \ {0}
    /\ MaxQueue \in Nat \ {0}
    /\ NCtx \in Nat \ {0}
    /\ NBatch \in Nat \ {0}
    /\ MinReuse \in Nat \ {0}

VARIABLES
    queue,       \* queue_: requests not yet admitted
    reply,       \* per request: "new", "pending", or what its promise was set to
    slots,       \* slots_
    kv,          \* per sequence id, the cells the llama context holds
    batch,       \* the batch under construction or being decoded
    cursor,      \* loop variable over slots_ while the batch is built
    chunkStart,  \* chunk_start, 0-based index in batch
    chunkLen,    \* n_tokens of the chunk just decoded
    nBatch,      \* n_batch: current limit on a chunk
    pc,          \* where the worker is
    running,     \* running_
    clock        \* stamps cached_at_us; advances once per slot kept warm

vars == <<queue, reply, slots, kv, batch, cursor, chunkStart, chunkLen, nBatch,
          pc, running, clock>>

SlotIds == 0 .. MaxSeqs - 1
NoSeq == -1

Answers == {"stop", "length", "InternalError", "InvalidArgument", "Unavailable"}

Slot == [seq : SlotIds \cup {NoSeq},      \* seq_id
         warm : BOOLEAN,
         req : Requests \cup {None},      \* whose promise the slot holds
         session : Sessions \cup {None},  \* cached_session_id
         cached : Seq(Tokens),            \* cached_tokens
         cachedAt : Nat,                  \* cached_at_us
         pending : Seq(Tokens),           \* pending_prompt
         prefilled : BOOLEAN,
         nPast : Nat,                     \* n_past
         sampled : Tokens \cup {Eog, None},
         iBatch : Nat \cup {-1},          \* i_batch
         nDecoded : Nat]                  \* n_decoded

Entry == [seq : SlotIds, pos : Nat, tok : Tokens]

\* A slot without a request: only its sequence and its session cache matter.
IdleSlot(seq, warm, session, cached, cachedAt, nPast, sampled) ==
    [seq |-> seq, warm |-> warm, req |-> None, session |-> session,
     cached |-> cached, cachedAt |-> cachedAt, pending |-> <<>>,
     prefilled |-> FALSE, nPast |-> nPast, sampled |-> sampled, iBatch |-> -1,
     nDecoded |-> 0]

FreeSlot(sampled) == IdleSlot(NoSeq, FALSE, None, <<>>, 0, 0, sampled)

IsFree(s) == slots[s].seq = NoSeq
IsWarm(s) == slots[s].seq # NoSeq /\ slots[s].warm
IsBusy(s) == slots[s].seq # NoSeq /\ ~slots[s].warm

\* The loops over slots_ visit them by increasing id.
IsFirst(s, P(_)) == P(s) /\ \A t \in SlotIds : t < s => ~P(t)

\* llama_memory_seq_rm(mem, s, p, -1); p = 0 drops the whole sequence.
SeqRm(s, p) == {c \in kv[s] : c[1] < p}

\* queue_mu_ is held by the worker while it admits and while it drains queue_.
MutexFree == pc \notin {"admit", "drainQueue"}

-----------------------------------------------------------------------------

Init ==
    /\ queue = <<>>
    /\ reply = [r \in Requests |-> "new"]
    /\ slots = [s \in SlotIds |-> FreeSlot(None)]
    /\ kv = [s \in SlotIds |-> {}]
    /\ batch = <<>>
    /\ cursor = 0
    /\ chunkStart = 0
    /\ chunkLen = 0
    /\ nBatch = NBatch
    /\ pc = "top"
    /\ running = TRUE
    /\ clock = 0

-----------------------------------------------------------------------------
(* Callers and owner *)

\* submit on a full queue answers at once.
SubmitRefused(r) ==
    /\ running /\ MutexFree
    /\ reply[r] = "new"
    /\ Len(queue) >= MaxQueue
    /\ reply' = [reply EXCEPT ![r] = "Unavailable"]
    /\ UNCHANGED <<queue, slots, kv, batch, cursor, chunkStart, chunkLen, nBatch,
                   pc, running, clock>>

\* Bug: one request more than max_queue_ is let in.
BugSubmitLate(r) ==
    /\ running /\ MutexFree
    /\ reply[r] = "new"
    /\ Len(queue) <= MaxQueue
    /\ queue' = Append(queue, r)
    /\ reply' = [reply EXCEPT ![r] = "pending"]
    /\ UNCHANGED <<slots, kv, batch, cursor, chunkStart, chunkLen, nBatch, pc,
                   running, clock>>

SubmitQueued(r) ==
    /\ running /\ MutexFree
    /\ reply[r] = "new"
    /\ Len(queue) < MaxQueue
    /\ queue' = Append(queue, r)
    /\ reply' = [reply EXCEPT ![r] = "pending"]
    /\ UNCHANGED <<slots, kv, batch, cursor, chunkStart, chunkLen, nBatch, pc,
                   running, clock>>

\* The destructor clears running_ and joins the worker.  Its owner calls it
\* once no caller can reach submit any more.
Shutdown ==
    /\ running
    /\ running' = FALSE
    /\ UNCHANGED <<queue, reply, slots, kv, batch, cursor, chunkStart, chunkLen,
                   nBatch, pc, clock>>

-----------------------------------------------------------------------------
(* complete_slot: answer the request of slot s, keep the slot warm after a  *)
(* clean answer to a session request, free it and its KV cells otherwise.   *)
(* history is cached_tokens at that moment, last the token just sampled.    *)

Complete(s, answer, history, last) ==
    LET keepWarm == answer \in {"stop", "length"} /\ slots[s].session # None
    IN  /\ reply' = [reply EXCEPT ![slots[s].req] = answer]
        /\ IF keepWarm
           THEN /\ slots' = [slots EXCEPT ![s] =
                       IdleSlot(slots[s].seq, TRUE, slots[s].session, history,
                                clock + 1, Len(history), last)]
                /\ clock' = clock + 1
                /\ UNCHANGED kv
           ELSE /\ slots' = [slots EXCEPT ![s] = FreeSlot(last)]
                /\ kv' = [kv EXCEPT ![s] = SeqRm(s, 0)]
                /\ UNCHANGED clock

-----------------------------------------------------------------------------
(* try_admit_pending, under queue_mu_ *)

StartAdmit ==
    /\ pc = "top" /\ running
    /\ pc' = "admit"
    /\ UNCHANGED <<queue, reply, slots, kv, batch, cursor, chunkStart, chunkLen,
                   nBatch, running, clock>>

Inadmissible(r) == Prompt[r] = <<>> \/ Len(Prompt[r]) >= NCtx

\* Bug: the request turned down is not popped.
BugRejectKept ==
    /\ pc = "admit" /\ queue # <<>>
    /\ Inadmissible(Head(queue))
    /\ reply' = [reply EXCEPT ![Head(queue)] = "InvalidArgument"]
    /\ UNCHANGED <<queue, slots, kv, batch, cursor, chunkStart, chunkLen, nBatch, pc,
                   running, clock>>

RejectHead ==
    /\ pc = "admit" /\ queue # <<>>
    /\ Inadmissible(Head(queue))
    /\ reply' = [reply EXCEPT ![Head(queue)] = "InvalidArgument"]
    /\ queue' = Tail(queue)
    /\ UNCHANGED <<slots, kv, batch, cursor, chunkStart, chunkLen, nBatch, pc,
                   running, clock>>

IsCommonPrefix(n, x, y) ==
    /\ n <= Len(x) /\ n <= Len(y)
    /\ \A i \in 1 .. n : x[i] = y[i]

IsLongestCommonPrefix(n, x, y) ==
    /\ IsCommonPrefix(n, x, y)
    /\ ~IsCommonPrefix(n + 1, x, y)

\* The search stops at the first warm slot of the session, long prefix or not.
SessionSlot(s, r) ==
    /\ Session[r] # None
    /\ IsFirst(s, LAMBDA t : IsWarm(t) /\ slots[t].session = Session[r])

Reusable(s, n, r) ==
    /\ SessionSlot(s, r)
    /\ IsLongestCommonPrefix(n, slots[s].cached, Prompt[r])

CanReuse(r) == \E s \in SlotIds, n \in MinReuse .. NCtx : Reusable(s, n, r)

\* Bug: the request admitted is not popped.
BugOccupyKept(s, n) ==
    LET r == Head(queue) IN
    /\ slots' = [slots EXCEPT ![s] =
           [seq |-> s, warm |-> FALSE, req |-> r, session |-> Session[r],
            cached |-> Prompt[r],
            cachedAt |-> IF n = 0 THEN 0 ELSE slots[s].cachedAt,
            pending |-> SubSeq(Prompt[r], n + 1, Len(Prompt[r])),
            prefilled |-> FALSE, nPast |-> n, sampled |-> slots[s].sampled,
            iBatch |-> -1, nDecoded |-> 0]]
    /\ UNCHANGED <<queue, reply, batch, cursor, chunkStart, chunkLen, nBatch, pc,
                   running, clock>>

\* Bug: a request that reuses nothing goes on at the position of the slot's last one.
BugOccupyOnward(s, n) ==
    LET r == Head(queue) IN
    /\ slots' = [slots EXCEPT ![s] =
           [seq |-> s, warm |-> FALSE, req |-> r, session |-> Session[r],
            cached |-> Prompt[r],
            cachedAt |-> IF n = 0 THEN 0 ELSE slots[s].cachedAt,
            pending |-> SubSeq(Prompt[r], n + 1, Len(Prompt[r])),
            prefilled |-> FALSE, nPast |-> IF n = 0 THEN slots[s].nPast ELSE n,
            sampled |-> slots[s].sampled, iBatch |-> -1, nDecoded |-> 0]]
    /\ queue' = Tail(queue)
    /\ UNCHANGED <<reply, batch, cursor, chunkStart, chunkLen, nBatch, pc, running,
                   clock>>

\* The head of the queue takes slot s; n tokens of its prompt are in the KV
\* cache already, the others are pending.
Occupy(s, n) ==
    LET r == Head(queue) IN
    /\ slots' = [slots EXCEPT ![s] =
           [seq |-> s, warm |-> FALSE, req |-> r, session |-> Session[r],
            cached |-> Prompt[r],
            cachedAt |-> IF n = 0 THEN 0 ELSE slots[s].cachedAt,
            pending |-> SubSeq(Prompt[r], n + 1, Len(Prompt[r])),
            prefilled |-> FALSE, nPast |-> n, sampled |-> slots[s].sampled,
            iBatch |-> -1, nDecoded |-> 0]]
    /\ queue' = Tail(queue)
    /\ UNCHANGED <<reply, batch, cursor, chunkStart, chunkLen, nBatch, pc, running,
                   clock>>

HeadAdmissible == pc = "admit" /\ queue # <<>> /\ ~Inadmissible(Head(queue))

\* Bug: the cells after the common prefix are left in the sequence.
BugReuseUntrimmed(s) ==
    /\ HeadAdmissible
    /\ \E n \in MinReuse .. NCtx :
           /\ Reusable(s, n, Head(queue))
           /\ Occupy(s, n)
           /\ UNCHANGED kv

AdmitReuse(s) ==
    /\ HeadAdmissible
    /\ \E n \in MinReuse .. NCtx :
           /\ Reusable(s, n, Head(queue))
           /\ Occupy(s, n)
           /\ kv' = [kv EXCEPT ![s] = SeqRm(s, n)]

AdmitFree(s) ==
    /\ HeadAdmissible
    /\ ~CanReuse(Head(queue))
    /\ IsFirst(s, IsFree)
    /\ Occupy(s, 0)
    /\ UNCHANGED kv

\* No free slot: the least recently used warm one loses its cache.
AdmitEvict(s) ==
    /\ HeadAdmissible
    /\ ~CanReuse(Head(queue))
    /\ \A t \in SlotIds : ~IsFree(t)
    /\ IsWarm(s)
    /\ \A t \in SlotIds : IsWarm(t) => slots[s].cachedAt <= slots[t].cachedAt
    /\ Occupy(s, 0)
    /\ kv' = [kv EXCEPT ![s] = SeqRm(s, 0)]

\* The queue is empty or every slot is busy.  With nothing to run the worker
\* waits on queue_cv_ and starts over.
AdmitDone ==
    /\ pc = "admit"
    /\ \/ queue = <<>>
       \/ HeadAdmissible /\ \A s \in SlotIds : IsBusy(s)
    /\ pc' = IF \E s \in SlotIds : IsBusy(s) THEN "build" ELSE "top"
    /\ batch' = <<>>
    /\ cursor' = 0
    /\ UNCHANGED <<queue, reply, slots, kv, chunkStart, chunkLen, nBatch, running,
                   clock>>

-----------------------------------------------------------------------------
(* Building the batch, one slot of slots_ per step *)

\* batch_add of toks for slot s at consecutive positions from pos on.
AddTokens(s, toks, pos) ==
    /\ batch' = batch \o [i \in 1 .. Len(toks) |->
                             [seq |-> slots[s].seq, pos |-> pos + i - 1, tok |-> toks[i]]]
    /\ slots' = [slots EXCEPT ![s].iBatch = Len(batch) + Len(toks) - 1,
                              ![s].nPast = pos + Len(toks)]

BuildPrefill(s) ==
    /\ IsBusy(s) /\ ~slots[s].prefilled /\ slots[s].pending # <<>>
    /\ AddTokens(s, slots[s].pending, slots[s].nPast)
    /\ UNCHANGED kv

\* The whole prompt is cached: evaluate its last token again for its logits.
BuildLastAgain(s) ==
    LET last == slots[s].nPast - 1 IN
    /\ IsBusy(s) /\ ~slots[s].prefilled /\ slots[s].pending = <<>>
    /\ slots[s].nPast > 0
    /\ AddTokens(s, <<slots[s].cached[last + 1]>>, last)
    /\ kv' = [kv EXCEPT ![s] = SeqRm(s, last)]

BuildDecode(s) ==
    /\ IsBusy(s) /\ slots[s].prefilled
    /\ AddTokens(s, <<slots[s].sampled>>, slots[s].nPast)
    /\ UNCHANGED kv

BuildSkip(s) ==
    /\ ~IsBusy(s)
    /\ UNCHANGED <<batch, slots, kv>>

Build ==
    /\ pc = "build" /\ cursor < MaxSeqs
    /\ \/ BuildPrefill(cursor)
       \/ BuildLastAgain(cursor)
       \/ BuildDecode(cursor)
       \/ BuildSkip(cursor)
    /\ cursor' = cursor + 1
    /\ UNCHANGED <<queue, reply, chunkStart, chunkLen, nBatch, pc, running, clock>>

BuildDone ==
    /\ pc = "build" /\ cursor = MaxSeqs
    /\ pc' = IF batch = <<>> THEN "top" ELSE "decode"
    /\ chunkStart' = 0
    /\ nBatch' = NBatch
    /\ UNCHANGED <<queue, reply, slots, kv, batch, cursor, chunkLen, running, clock>>

-----------------------------------------------------------------------------
(* Decoding chunk by chunk.  llama_decode is external: it may fail at any   *)
(* call, and must return a positive code when the cells do not fit.         *)

ChunkSize == IF nBatch < Len(batch) - chunkStart THEN nBatch ELSE Len(batch) - chunkStart

ChunkCells(s) ==
    {<<batch[i].pos, batch[i].tok>> :
        i \in {j \in chunkStart + 1 .. chunkStart + ChunkSize : batch[j].seq = s}}

CellsInUse == UNION {{s} \X kv[s] : s \in SlotIds}

CellsFit == Cardinality(CellsInUse) + ChunkSize <= NCtx

DecodeOk ==
    /\ pc = "decode"
    /\ CellsFit
    /\ kv' = [s \in SlotIds |-> kv[s] \cup ChunkCells(s)]
    /\ chunkLen' = ChunkSize
    /\ nBatch' = NBatch
    /\ pc' = "sample"
    /\ UNCHANGED <<queue, reply, slots, batch, cursor, chunkStart, running, clock>>

\* Bug: a chunk of one token is halved too.
BugRetryAtOne ==
    /\ pc = "decode"
    /\ nBatch' = nBatch \div 2
    /\ UNCHANGED <<queue, reply, slots, kv, batch, cursor, chunkStart, chunkLen, pc,
                   running, clock>>

\* ret > 0: the same chunk again, at half the size.
DecodeRetry ==
    /\ pc = "decode"
    /\ nBatch # 1
    /\ nBatch' = nBatch \div 2
    /\ UNCHANGED <<queue, reply, slots, kv, batch, cursor, chunkStart, chunkLen, pc,
                   running, clock>>

\* ret < 0, or ret > 0 with nothing left to halve.
DecodeFail ==
    /\ pc = "decode"
    /\ pc' = "fail"
    /\ UNCHANGED <<queue, reply, slots, kv, batch, cursor, chunkStart, chunkLen,
                   nBatch, running, clock>>

\* Bug: slots of later chunks stay busy, with n_past already advanced.
BugFailChunkOnly(s) ==
    /\ IsBusy(s)
    /\ slots[s].iBatch \in chunkStart .. chunkStart + ChunkSize - 1

\* Every slot whose last token is in this chunk or a later one fails.
Failed(s) == IsBusy(s) /\ slots[s].iBatch >= chunkStart

FailSlot(s) ==
    /\ pc = "fail"
    /\ IsFirst(s, Failed)
    /\ Complete(s, "InternalError", slots[s].cached, slots[s].sampled)
    /\ UNCHANGED <<queue, batch, cursor, chunkStart, chunkLen, nBatch, pc, running>>

FailDone ==
    /\ pc = "fail"
    /\ \A s \in SlotIds : ~Failed(s)
    /\ pc' = "top"
    /\ UNCHANGED <<queue, reply, slots, kv, batch, cursor, chunkStart, chunkLen,
                   nBatch, running, clock>>

-----------------------------------------------------------------------------
(* Sampling: one token for every slot whose last token is in the chunk *)

InChunk(s) ==
    /\ IsBusy(s)
    /\ slots[s].iBatch >= chunkStart
    /\ slots[s].iBatch < chunkStart + chunkLen

\* End of generation: neither counted nor streamed.
SampleEog(s) ==
    /\ pc = "sample"
    /\ IsFirst(s, InChunk)
    /\ Complete(s, "stop", slots[s].cached, Eog)
    /\ UNCHANGED <<queue, batch, cursor, chunkStart, chunkLen, nBatch, pc, running>>

\* Token t, streamed to the caller; stop says whether a stop string or a stop
\* token ends the answer here.
SampleToken(s, t, stop) ==
    /\ pc = "sample"
    /\ IsFirst(s, InChunk)
    /\ LET history == Append(slots[s].cached, t)
           maxHit  == slots[s].nDecoded + 1 >= MaxNew[slots[s].req]
       IN  IF stop \/ maxHit
           THEN Complete(s, IF maxHit THEN "length" ELSE "stop", history, t)
           ELSE /\ slots' = [slots EXCEPT ![s].cached = history,
                                          ![s].nDecoded = @ + 1,
                                          ![s].sampled = t,
                                          ![s].pending = <<>>,
                                          ![s].prefilled = TRUE,
                                          ![s].iBatch = -1]
                /\ UNCHANGED <<reply, kv, clock>>
    /\ UNCHANGED <<queue, batch, cursor, chunkStart, chunkLen, nBatch, pc, running>>

\* Bug: the loop advances by the restored limit, not by what was decoded.
BugChunkByLimit ==
    /\ pc = "sample"
    /\ \A s \in SlotIds : ~InChunk(s)
    /\ chunkStart' = chunkStart + nBatch
    /\ pc' = IF chunkStart + nBatch < Len(batch) THEN "decode" ELSE "top"
    /\ UNCHANGED <<queue, reply, slots, kv, batch, cursor, chunkLen, nBatch, running,
                   clock>>

ChunkDone ==
    /\ pc = "sample"
    /\ \A s \in SlotIds : ~InChunk(s)
    /\ chunkStart' = chunkStart + chunkLen
    /\ pc' = IF chunkStart + chunkLen < Len(batch) THEN "decode" ELSE "top"
    /\ UNCHANGED <<queue, reply, slots, kv, batch, cursor, chunkLen, nBatch, running,
                   clock>>

-----------------------------------------------------------------------------
(* Shutdown: the worker leaves its loop and answers whatever is left *)

\* Bug: busy slots are forgotten at shutdown.
BugLeaveBusy ==
    /\ pc = "top" /\ ~running
    /\ pc' = "drainQueue"
    /\ UNCHANGED <<queue, reply, slots, kv, batch, cursor, chunkStart, chunkLen,
                   nBatch, running, clock>>

LeaveLoop ==
    /\ pc = "top" /\ ~running
    /\ pc' = "drainSlots"
    /\ UNCHANGED <<queue, reply, slots, kv, batch, cursor, chunkStart, chunkLen,
                   nBatch, running, clock>>

Occupied(s) == ~IsFree(s)

DrainBusy(s) ==
    /\ pc = "drainSlots"
    /\ IsFirst(s, Occupied) /\ IsBusy(s)
    /\ Complete(s, "Unavailable", slots[s].cached, slots[s].sampled)
    /\ UNCHANGED <<queue, batch, cursor, chunkStart, chunkLen, nBatch, pc, running>>

DrainWarm(s) ==
    /\ pc = "drainSlots"
    /\ IsFirst(s, Occupied) /\ IsWarm(s)
    /\ slots' = [slots EXCEPT ![s] =
           IdleSlot(NoSeq, FALSE, None, <<>>, slots[s].cachedAt, slots[s].nPast,
                    slots[s].sampled)]
    /\ kv' = [kv EXCEPT ![s] = SeqRm(s, 0)]
    /\ UNCHANGED <<queue, reply, batch, cursor, chunkStart, chunkLen, nBatch, pc,
                   running, clock>>

DrainSlotsDone ==
    /\ pc = "drainSlots"
    /\ \A s \in SlotIds : IsFree(s)
    /\ pc' = "drainQueue"
    /\ UNCHANGED <<queue, reply, slots, kv, batch, cursor, chunkStart, chunkLen,
                   nBatch, running, clock>>

DrainQueue ==
    /\ pc = "drainQueue" /\ queue # <<>>
    /\ reply' = [reply EXCEPT ![Head(queue)] = "Unavailable"]
    /\ queue' = Tail(queue)
    /\ UNCHANGED <<slots, kv, batch, cursor, chunkStart, chunkLen, nBatch, pc,
                   running, clock>>

DrainQueueDone ==
    /\ pc = "drainQueue" /\ queue = <<>>
    /\ pc' = "done"
    /\ UNCHANGED <<queue, reply, slots, kv, batch, cursor, chunkStart, chunkLen,
                   nBatch, running, clock>>

\* The worker thread has ended and was joined.
Terminated ==
    /\ pc = "done"
    /\ UNCHANGED vars

-----------------------------------------------------------------------------

Admit ==
    \/ StartAdmit
    \/ RejectHead
    \/ \E s \in SlotIds : AdmitReuse(s) \/ AdmitFree(s) \/ AdmitEvict(s)
    \/ AdmitDone

Decode ==
    \/ DecodeOk
    \/ DecodeRetry
    \/ DecodeFail
    \/ \E s \in SlotIds : FailSlot(s)
    \/ FailDone

Sample ==
    \/ \E s \in SlotIds : \/ SampleEog(s)
                          \/ \E t \in Tokens, stop \in BOOLEAN : SampleToken(s, t, stop)
    \/ ChunkDone

Drain ==
    \/ LeaveLoop
    \/ \E s \in SlotIds : DrainBusy(s) \/ DrainWarm(s)
    \/ DrainSlotsDone
    \/ DrainQueue
    \/ DrainQueueDone

Worker == Admit \/ Build \/ BuildDone \/ Decode \/ Sample \/ Drain

Next ==
    \/ \E r \in Requests : SubmitRefused(r) \/ SubmitQueued(r)
    \/ Shutdown
    \/ Worker
    \/ Terminated

Spec == Init /\ [][Next]_vars

\* The worker thread is scheduled: whenever it can take a step it takes one.
\* Nothing is assumed of callers, of the owner or of llama_decode.
FairSpec == Spec /\ WF_vars(Worker)

-----------------------------------------------------------------------------
(* Properties *)

TypeOK ==
    /\ queue \in Seq(Requests)
    /\ reply \in [Requests -> {"new", "pending"} \cup Answers]
    /\ slots \in [SlotIds -> Slot]
    /\ kv \in [SlotIds -> SUBSET (Nat \X Tokens)]
    /\ batch \in Seq(Entry)
    /\ cursor \in 0 .. MaxSeqs
    /\ chunkStart \in Nat
    /\ chunkLen \in Nat
    /\ nBatch \in 1 .. NBatch
    /\ pc \in {"top", "admit", "build", "decode", "fail", "sample", "drainSlots",
               "drainQueue", "done"}
    /\ running \in BOOLEAN
    /\ clock \in Nat

InQueue(r) == \E i \in 1 .. Len(queue) : queue[i] = r
InSlot(r) == \E s \in SlotIds : IsBusy(s) /\ slots[s].req = r

\* A promise moves from submit to queue_ to one slot and is set there: a
\* request whose promise is not set is in the queue or in a busy slot, once,
\* and nothing in the queue or in a busy slot has its promise set already
\* (set_value would throw and end the worker thread).
OneOwner ==
    /\ \A r \in Requests : reply[r] = "pending" <=> InQueue(r) \/ InSlot(r)
    /\ \A i, j \in 1 .. Len(queue) : queue[i] = queue[j] => i = j
    /\ \A s, t \in SlotIds :
           IsBusy(s) /\ IsBusy(t) /\ slots[s].req = slots[t].req => s = t
    /\ \A r \in Requests : ~(InQueue(r) /\ InSlot(r))

\* Whatever is reused, evicted, halved, failed or drained, a KV cell of a
\* sequence holds the token its slot remembers at that position: no answer is
\* computed from another request's tokens, nor from tokens at shifted
\* positions, and a free slot has no cells.
KVMatchesTokens ==
    \A s \in SlotIds : \A c \in kv[s] :
        /\ c[1] < Len(slots[s].cached)
        /\ c[2] = slots[s].cached[c[1] + 1]

\* When a token is sampled for a slot, the sequence has a cell for every token
\* of the prompt and of the answer so far: reuse gives what a full prefill
\* would give.
SamplesSeeHistory ==
    pc = "sample" =>
        \A s \in SlotIds : InChunk(s) =>
            {c[1] : c \in kv[s]} = 0 .. Len(slots[s].cached) - 1

\* A request that reused no cells: its slot has no time stamp of a warm one.
Fresh(s) == IsBusy(s) /\ slots[s].cachedAt = 0

\* The same among sessions, for the requests that reuse nothing: a slot that was
\* warm for another session, evicted, failed or freed leaves the next request
\* neither a cell nor a position of its own.
FreshSeesHistory ==
    pc = "sample" =>
        \A s \in SlotIds : InChunk(s) /\ Fresh(s) =>
            {c[1] : c \in kv[s]} = 0 .. Len(slots[s].cached) - 1

\* The batch buffer has llama_n_ctx entries and "handles large prompts and the
\* decode tokens all in one pass" (constructor).
BatchFitsBuffer == Len(batch) <= NCtx

Service == INSTANCE GenerateService WITH
               waiting <- queue,
               active <- {slots[s].req : s \in {t \in SlotIds : IsBusy(t)}},
               open <- running

\* The scheduler is a bounded FIFO service: see GenerateService.
ImplementsService == Service!Spec

\* Every accepted request is answered.
EveryRequestAnswered == Service!Answered

=============================================================================
