----------------------- MODULE BatchScheduler_proofs -----------------------
(***************************************************************************)
(* Theorems about BatchScheduler for every number of slots, requests and   *)
(* tokens, every queue, batch and context size.                            *)
(***************************************************************************)
EXTENDS BatchScheduler, SequenceTheorems, FiniteSetTheorems, TLAPS

-----------------------------------------------------------------------------
(* The inductive invariant *)

\* A slot not in the batch: its pending tokens continue its history at n_past,
\* or its sampled token is the last of its history and not yet in the cache.
Ready(s) ==
    LET sl == slots[s] IN
    IF sl.prefilled
    THEN /\ sl.nPast + 1 = Len(sl.cached)
         /\ sl.sampled = sl.cached[Len(sl.cached)]
    ELSE /\ sl.nPast + Len(sl.pending) = Len(sl.cached)
         /\ \A i \in 1 .. Len(sl.pending) : sl.pending[i] = sl.cached[sl.nPast + i]

SlotShape ==
    \A s \in SlotIds :
        /\ slots[s].seq \in {NoSeq, s}
        /\ IsFree(s) => slots[s].cached = <<>>
        /\ IsBusy(s) => slots[s].req \in Requests
        /\ IsBusy(s) =>
               IF slots[s].iBatch = -1 THEN Ready(s) ELSE slots[s].nPast = Len(slots[s].cached)
        /\ ~IsBusy(s) => slots[s].iBatch = -1

\* Which slots still wait for logits of the batch, by the worker's place.
BatchPhase ==
    /\ pc \in {"top", "admit", "drainSlots", "drainQueue", "done"} =>
           \A s \in SlotIds : slots[s].iBatch = -1
    /\ pc = "build" => \A s \in SlotIds : s >= cursor => slots[s].iBatch = -1
    /\ pc \in {"build", "decode", "fail", "sample"} =>
           \A s \in SlotIds : slots[s].iBatch < Len(batch)
    /\ pc \in {"decode", "fail", "sample"} =>
           \A s \in SlotIds : slots[s].iBatch = -1 \/ slots[s].iBatch >= chunkStart
    /\ pc = "decode" => chunkStart < Len(batch)

\* The first index of the batch not decoded yet.
Undecoded ==
    CASE pc = "build"  -> 0
      [] pc = "decode" -> chunkStart
      [] pc = "sample" -> chunkStart + chunkLen
      [] OTHER         -> Len(batch)

\* Each entry still to be decoded belongs to a busy slot waiting for it and
\* is the token of the slot's history at its position.
BatchShape ==
    \A i \in 1 .. Len(batch) : i > Undecoded =>
        LET e == batch[i] IN
        /\ IsBusy(e.seq)
        /\ slots[e.seq].iBatch >= i - 1
        /\ e.pos < Len(slots[e.seq].cached)
        /\ e.tok = slots[e.seq].cached[e.pos + 1]

IInv == TypeOK /\ SlotShape /\ BatchPhase /\ BatchShape /\ KVMatchesTokens

-----------------------------------------------------------------------------

LEMMA TypeFacts ==
  ASSUME TypeOK
  PROVE  /\ slots \in [SlotIds -> Slot]
         /\ kv \in [SlotIds -> SUBSET (Nat \X Tokens)]
         /\ batch \in Seq(Entry)
         /\ \A i \in 1 .. Len(batch) : batch[i] \in Entry
         /\ \A s \in SlotIds : slots[s] \in Slot
         /\ cursor \in 0 .. MaxSeqs
         /\ chunkStart \in Nat /\ chunkLen \in Nat /\ nBatch \in 1 .. NBatch
         /\ clock \in Nat
         /\ Undecoded \in Nat
<1>1. batch \in Seq(Entry)
  BY Zenon DEF TypeOK
<1>2. \A i \in 1 .. Len(batch) : batch[i] \in Entry
  BY <1>1
<1>3. Undecoded \in Nat
  BY <1>1 DEF TypeOK, Undecoded
<1> QED
  BY <1>1, <1>2, <1>3, Zenon DEF TypeOK

LEMMA InitIInv == Init => IInv
<1> SUFFICES ASSUME Init PROVE IInv
  OBVIOUS
<1> USE SchedulerAssumption
<1>1. FreeSlot(None) \in Slot
  BY DEF FreeSlot, IdleSlot, Slot, SlotIds, NoSeq
<1>2. TypeOK
  BY <1>1 DEF Init, TypeOK
<1>3. SlotShape
  BY DEF Init, SlotShape, IsFree, IsBusy, FreeSlot, IdleSlot, NoSeq
<1>4. BatchPhase
  BY DEF Init, BatchPhase, FreeSlot, IdleSlot
<1>5. BatchShape /\ KVMatchesTokens
  BY DEF Init, BatchShape, KVMatchesTokens
<1> QED
  BY <1>2, <1>3, <1>4, <1>5 DEF IInv

\* Steps that leave slots, cells and the batch alone and keep the worker where
\* it is: those of callers and of the owner, and answers to queued requests.
LEMMA QueueStep ==
  ASSUME IInv, TypeOK', UNCHANGED <<slots, kv, batch, cursor, chunkStart, chunkLen, pc>>
  PROVE  IInv'
BY DEF IInv, SlotShape, BatchPhase, BatchShape, KVMatchesTokens, Undecoded, Ready,
       IsBusy, IsFree

LEMMA SubmitRefusedIInv ==
  ASSUME IInv, NEW r \in Requests, SubmitRefused(r)
  PROVE  IInv'
<1>1. TypeOK'
  BY DEF IInv, TypeOK, SubmitRefused, Answers
<1> QED
  BY <1>1, QueueStep DEF SubmitRefused

LEMMA SubmitQueuedIInv ==
  ASSUME IInv, NEW r \in Requests, SubmitQueued(r)
  PROVE  IInv'
<1>1. TypeOK'
  BY DEF IInv, TypeOK, SubmitQueued
<1> QED
  BY <1>1, QueueStep DEF SubmitQueued

LEMMA ShutdownIInv ==
  ASSUME IInv, Shutdown
  PROVE  IInv'
<1>1. TypeOK'
  BY DEF IInv, TypeOK, Shutdown
<1> QED
  BY <1>1, QueueStep DEF Shutdown

LEMMA RejectHeadIInv ==
  ASSUME IInv, RejectHead
  PROVE  IInv'
<1>1. TypeOK'
  BY DEF IInv, TypeOK, RejectHead, Answers
<1> QED
  BY <1>1, QueueStep DEF RejectHead

LEMMA DrainQueueIInv ==
  ASSUME IInv, DrainQueue
  PROVE  IInv'
<1>1. TypeOK'
  BY DEF IInv, TypeOK, DrainQueue, Answers
<1> QED
  BY <1>1, QueueStep DEF DrainQueue

-----------------------------------------------------------------------------
(* Completing a slot *)

\* complete_slot preserves the invariant when the history kept covers the
\* cells of the sequence and no entry still to be decoded is the slot's.
LEMMA CompleteIInv ==
  ASSUME IInv,
         NEW s \in SlotIds, IsBusy(s),
         NEW answer \in Answers,
         NEW history \in Seq(Tokens),
         NEW last \in Tokens \cup {Eog, None},
         Complete(s, answer, history, last),
         UNCHANGED <<queue, batch, cursor, chunkStart, chunkLen, nBatch, pc, running>>,
         slots[s].iBatch < Undecoded,
         \A c \in kv[s] : c[1] < Len(history) /\ c[2] = history[c[1] + 1]
  PROVE  IInv'
<1> DEFINE Warm == IdleSlot(slots[s].seq, TRUE, slots[s].session, history, clock + 1,
                            Len(history), last)
           Freed == FreeSlot(last)
<1>1. slots[s] \in Slot /\ slots \in [SlotIds -> Slot] /\ kv \in [SlotIds -> SUBSET (Nat \X Tokens)]
  BY DEF IInv, TypeOK
<1>2. slots[s].req \in Requests /\ slots[s].seq = s
  BY DEF IInv, SlotShape, IsBusy, NoSeq
<1>3. Warm \in Slot /\ Freed \in Slot
  <2>1. clock + 1 \in Nat /\ Len(history) \in Nat /\ slots[s].session \in Sessions \cup {None}
    BY <1>1, TypeFacts DEF Slot, IInv
  <2> QED
    BY <1>2, <2>1 DEF Slot, FreeSlot, IdleSlot
<1>4. \/ slots' = [slots EXCEPT ![s] = Warm] /\ kv' = kv
      \/ slots' = [slots EXCEPT ![s] = Freed] /\ kv' = [kv EXCEPT ![s] = {}]
  <2>1. SeqRm(s, 0) = {}
    BY <1>1 DEF SeqRm
  <2> QED
    BY <2>1, Zenon DEF Complete
<1>5. reply' \in [Requests -> {"new", "pending"} \cup Answers] /\ clock' \in Nat
  <2>1. reply' = [reply EXCEPT ![slots[s].req] = answer] /\ clock' \in {clock, clock + 1}
    BY Zenon DEF Complete
  <2> QED
    BY <2>1, <1>2 DEF IInv, TypeOK
<1>6. slots' \in [SlotIds -> Slot] /\ kv' \in [SlotIds -> SUBSET (Nat \X Tokens)]
  BY <1>1, <1>3, <1>4
<1>7. TypeOK'
  BY <1>5, <1>6, Zenon DEF IInv, TypeOK
<1>8. \A t \in SlotIds \ {s} : slots'[t] = slots[t] /\ kv'[t] = kv[t]
  BY <1>1, <1>4
<1>9. /\ slots'[s].iBatch = -1
      /\ \/ slots'[s].seq = s /\ slots'[s].warm /\ slots'[s].cached = history /\ kv'[s] = kv[s]
         \/ slots'[s].seq = NoSeq /\ slots'[s].cached = <<>> /\ kv'[s] = {}
  <2>1. Warm.iBatch = -1 /\ Warm.seq = s /\ Warm.warm /\ Warm.cached = history
    BY <1>2 DEF IdleSlot
  <2>2. Freed.iBatch = -1 /\ Freed.seq = NoSeq /\ Freed.cached = <<>>
    BY DEF FreeSlot, IdleSlot
  <2>3. \/ slots'[s] = Warm /\ kv'[s] = kv[s]
        \/ slots'[s] = Freed /\ kv'[s] = {}
    BY <1>1, <1>4, Zenon
  <2> HIDE DEF Warm, Freed
  <2> QED
    BY <2>1, <2>2, <2>3, Zenon
<1>10. SlotShape'
  <2>1. ASSUME NEW t \in SlotIds, t # s
        PROVE  slots'[t] = slots[t]
    BY <1>8, <2>1
  <2>2. ASSUME NEW t \in SlotIds PROVE slots'[t] = slots[t] \/ t = s
    BY <2>1, <2>2
  <2>3. /\ slots'[s].seq \in {NoSeq, s} /\ slots'[s].iBatch = -1
        /\ ~(IsBusy(s))'
        /\ (IsFree(s))' => slots'[s].cached = <<>>
    <3>1. s # NoSeq
      BY DEF SlotIds, NoSeq
    <3> QED
      BY <1>9, <3>1 DEF IsBusy, IsFree
  <2>4. ASSUME NEW t \in SlotIds, slots'[t] = slots[t]
        PROVE  /\ slots'[t].seq \in {NoSeq, t}
               /\ (IsFree(t))' => slots'[t].cached = <<>>
               /\ (IsBusy(t))' => slots'[t].req \in Requests
               /\ (IsBusy(t))' =>
                      IF slots'[t].iBatch = -1 THEN (Ready(t))' ELSE slots'[t].nPast = Len(slots'[t].cached)
               /\ (~IsBusy(t))' => slots'[t].iBatch = -1
    BY <2>4 DEF IInv, SlotShape, IsBusy, IsFree, Ready
  <2> QED
    BY <2>2, <2>3, <2>4, Zenon DEF SlotShape
<1>11. BatchPhase'
  <2>1. \A t \in SlotIds : slots'[t].iBatch \in {slots[t].iBatch, -1}
    BY <1>8, <1>9
  <2>2. Len(batch) \in Nat /\ cursor \in Nat
    BY TypeFacts DEF IInv
  <2> QED
    BY <2>1, <2>2 DEF IInv, BatchPhase, SlotIds
<1>12. BatchShape'
  <2> SUFFICES ASSUME NEW i \in 1 .. Len(batch), i > Undecoded
               PROVE  LET e == batch[i] IN
                      /\ IsBusy(e.seq)'
                      /\ slots'[e.seq].iBatch >= i - 1
                      /\ e.pos < Len(slots'[e.seq].cached)
                      /\ e.tok = slots'[e.seq].cached[e.pos + 1]
    BY DEF BatchShape, Undecoded, IsBusy
  <2>1. batch[i] \in Entry /\ batch[i].seq \in SlotIds
    BY TypeFacts DEF IInv, Entry
  <2>2. Undecoded \in Nat
    BY TypeFacts DEF IInv
  <2>3. batch[i].seq # s
    BY <2>1, <2>2, <1>1 DEF IInv, BatchShape, Slot
  <2>4. /\ IsBusy(batch[i].seq)
        /\ slots[batch[i].seq].iBatch >= i - 1
        /\ batch[i].pos < Len(slots[batch[i].seq].cached)
        /\ batch[i].tok = slots[batch[i].seq].cached[batch[i].pos + 1]
    BY Zenon DEF IInv, BatchShape
  <2>5. slots'[batch[i].seq] = slots[batch[i].seq]
    BY <2>1, <2>3, <1>8
  <2>6. IsBusy(batch[i].seq)'
    BY <2>4, <2>5 DEF IsBusy
  <2> QED
    BY ONLY <2>4, <2>5, <2>6
<1>13. KVMatchesTokens'
  <2>1. ASSUME NEW t \in SlotIds, NEW c \in kv'[t]
        PROVE  c[1] < Len(slots'[t].cached) /\ c[2] = slots'[t].cached[c[1] + 1]
    <3>1. CASE t # s
      <4>1. slots'[t] = slots[t] /\ c \in kv[t]
        BY <3>1, <2>1, <1>8
      <4> QED
        BY <4>1, Zenon DEF IInv, KVMatchesTokens
    <3>2. CASE t = s
      <4>1. slots'[t].cached = history /\ c \in kv[s]
        BY <3>2, <2>1, <1>9
      <4> QED
        BY <4>1
    <3> QED
      BY <3>1, <3>2
  <2> QED
    BY <2>1, Zenon DEF KVMatchesTokens
<1> QED
  BY <1>7, <1>10, <1>11, <1>12, <1>13 DEF IInv

LEMMA FailSlotIInv ==
  ASSUME IInv, NEW s \in SlotIds, FailSlot(s)
  PROVE  IInv'
<1>1. slots[s] \in Slot /\ slots[s].iBatch < Undecoded /\ IsBusy(s)
  BY DEF IInv, TypeOK, BatchPhase, Undecoded, FailSlot, IsFirst, Failed
<1>2. \A c \in kv[s] : c[1] < Len(slots[s].cached) /\ c[2] = slots[s].cached[c[1] + 1]
  BY DEF IInv, KVMatchesTokens
<1> QED
  BY <1>1, <1>2, CompleteIInv DEF FailSlot, Slot, Answers

LEMMA DrainBusyIInv ==
  ASSUME IInv, NEW s \in SlotIds, DrainBusy(s)
  PROVE  IInv'
<1>1. slots[s] \in Slot /\ slots[s].iBatch < Undecoded /\ IsBusy(s)
  BY DEF IInv, TypeOK, BatchPhase, Undecoded, DrainBusy
<1>2. \A c \in kv[s] : c[1] < Len(slots[s].cached) /\ c[2] = slots[s].cached[c[1] + 1]
  BY DEF IInv, KVMatchesTokens
<1> QED
  BY <1>1, <1>2, CompleteIInv DEF DrainBusy, Slot, Answers

LEMMA SampleEogIInv ==
  ASSUME IInv, NEW s \in SlotIds, SampleEog(s)
  PROVE  IInv'
<1>1. slots[s] \in Slot /\ slots[s].iBatch < Undecoded /\ IsBusy(s)
  BY DEF IInv, TypeOK, Undecoded, SampleEog, IsFirst, InChunk
<1>2. \A c \in kv[s] : c[1] < Len(slots[s].cached) /\ c[2] = slots[s].cached[c[1] + 1]
  BY DEF IInv, KVMatchesTokens
<1> QED
  BY <1>1, <1>2, CompleteIInv DEF SampleEog, Slot, Answers

-----------------------------------------------------------------------------
(* Steps that only move the worker on *)

LEMMA SlotsUnchanged ==
  ASSUME SlotShape, KVMatchesTokens, UNCHANGED <<slots, kv>>
  PROVE  SlotShape' /\ KVMatchesTokens'
BY DEF SlotShape, KVMatchesTokens, Ready, IsBusy, IsFree

LEMMA StartAdmitIInv ==
  ASSUME IInv, StartAdmit
  PROVE  IInv'
<1>1. TypeOK'
  BY DEF IInv, TypeOK, StartAdmit
<1>2. BatchPhase' /\ BatchShape'
  BY TypeFacts DEF IInv, BatchPhase, BatchShape, Undecoded, StartAdmit
<1> QED
  BY <1>1, <1>2, SlotsUnchanged DEF IInv, StartAdmit

LEMMA AdmitDoneIInv ==
  ASSUME IInv, AdmitDone
  PROVE  IInv'
<1>1. TypeOK'
  BY SchedulerAssumption DEF IInv, TypeOK, AdmitDone
<1>2. \A s \in SlotIds : slots[s].iBatch = -1 /\ s >= 0
  BY DEF IInv, BatchPhase, AdmitDone, SlotIds
<1>3. BatchPhase' /\ BatchShape'
  BY <1>2 DEF IInv, BatchPhase, BatchShape, AdmitDone
<1> QED
  BY <1>1, <1>3, SlotsUnchanged DEF IInv, AdmitDone

LEMMA BuildDoneIInv ==
  ASSUME IInv, BuildDone
  PROVE  IInv'
<1>1. TypeOK'
  BY SchedulerAssumption DEF IInv, TypeOK, BuildDone
<1>2. \A s \in SlotIds : slots[s].iBatch \in Nat \cup {-1} /\ slots[s].iBatch < Len(batch)
  BY TypeFacts DEF IInv, Slot, BatchPhase, BuildDone
<1>3. BatchPhase'
  BY <1>2 DEF IInv, BatchPhase, BuildDone
<1>4. BatchShape'
  BY TypeFacts DEF IInv, BatchShape, Undecoded, BuildDone, IsBusy
<1> QED
  BY <1>1, <1>3, <1>4, SlotsUnchanged DEF IInv, BuildDone

LEMMA DecodeRetryIInv ==
  ASSUME IInv, DecodeRetry
  PROVE  IInv'
<1>1. nBatch' \in 1 .. NBatch
  BY TypeFacts, SchedulerAssumption DEF IInv, DecodeRetry
<1>2. TypeOK'
  BY <1>1, Zenon DEF IInv, TypeOK, DecodeRetry
<1>3. BatchPhase' /\ BatchShape'
  BY DEF IInv, BatchPhase, BatchShape, Undecoded, DecodeRetry, IsBusy
<1> QED
  BY <1>2, <1>3, SlotsUnchanged DEF IInv, DecodeRetry

LEMMA DecodeFailIInv ==
  ASSUME IInv, DecodeFail
  PROVE  IInv'
<1>1. TypeOK'
  BY DEF IInv, TypeOK, DecodeFail
<1>2. BatchPhase'
  BY DEF IInv, BatchPhase, DecodeFail
<1>3. BatchShape'
  BY DEF BatchShape, Undecoded, DecodeFail
<1> QED
  BY <1>1, <1>2, <1>3, SlotsUnchanged DEF IInv, DecodeFail

LEMMA FailDoneIInv ==
  ASSUME IInv, FailDone
  PROVE  IInv'
<1>1. TypeOK'
  BY DEF IInv, TypeOK, FailDone
<1>2. \A s \in SlotIds : slots[s].iBatch = -1
  BY TypeFacts DEF IInv, FailDone, Failed, SlotShape, BatchPhase, Slot
<1>3. BatchPhase' /\ BatchShape'
  BY <1>2 DEF IInv, BatchPhase, BatchShape, Undecoded, FailDone
<1> QED
  BY <1>1, <1>3, SlotsUnchanged DEF IInv, FailDone

LEMMA ChunkDoneIInv ==
  ASSUME IInv, ChunkDone
  PROVE  IInv'
<1>1. TypeOK'
  BY DEF IInv, TypeOK, ChunkDone
<1>2. \A s \in SlotIds : /\ slots[s].iBatch \in Nat \cup {-1}
                         /\ slots[s].iBatch < Len(batch)
                         /\ slots[s].iBatch = -1 \/ slots[s].iBatch >= chunkStart + chunkLen
  <2>1. pc = "sample" /\ ~(\E s \in SlotIds : InChunk(s))
    BY DEF ChunkDone
  <2>2. TAKE s \in SlotIds
  <2>3. slots[s].iBatch \in Nat \cup {-1} /\ chunkStart \in Nat /\ chunkLen \in Nat
    BY TypeFacts DEF IInv, Slot
  <2>4. /\ slots[s].iBatch < Len(batch)
        /\ slots[s].iBatch = -1 \/ slots[s].iBatch >= chunkStart
        /\ ~IsBusy(s) => slots[s].iBatch = -1
    BY <2>1 DEF IInv, BatchPhase, SlotShape
  <2> QED
    BY <2>1, <2>3, <2>4 DEF InChunk
<1>3. BatchPhase'
  BY <1>2, TypeFacts DEF IInv, BatchPhase, ChunkDone
<1>4. BatchShape'
  BY TypeFacts DEF IInv, BatchShape, Undecoded, ChunkDone, IsBusy
<1> QED
  BY <1>1, <1>3, <1>4, SlotsUnchanged DEF IInv, ChunkDone

LEMMA LeaveLoopIInv ==
  ASSUME IInv, LeaveLoop
  PROVE  IInv'
<1>1. TypeOK'
  BY DEF IInv, TypeOK, LeaveLoop
<1>2. BatchPhase' /\ BatchShape'
  BY DEF IInv, BatchPhase, BatchShape, Undecoded, LeaveLoop
<1> QED
  BY <1>1, <1>2, SlotsUnchanged DEF IInv, LeaveLoop

LEMMA DrainSlotsDoneIInv ==
  ASSUME IInv, DrainSlotsDone
  PROVE  IInv'
<1>1. TypeOK'
  BY DEF IInv, TypeOK, DrainSlotsDone
<1>2. BatchPhase' /\ BatchShape'
  BY DEF IInv, BatchPhase, BatchShape, Undecoded, DrainSlotsDone
<1> QED
  BY <1>1, <1>2, SlotsUnchanged DEF IInv, DrainSlotsDone

LEMMA DrainQueueDoneIInv ==
  ASSUME IInv, DrainQueueDone
  PROVE  IInv'
<1>1. TypeOK'
  BY DEF IInv, TypeOK, DrainQueueDone
<1>2. BatchPhase' /\ BatchShape'
  BY DEF IInv, BatchPhase, BatchShape, Undecoded, DrainQueueDone
<1> QED
  BY <1>1, <1>2, SlotsUnchanged DEF IInv, DrainQueueDone

-----------------------------------------------------------------------------
(* Admission *)

\* A slot that is not busy takes a request whose first n tokens its cells hold.
\* The tokens of a prompt that are not cached.
LEMMA TailFacts ==
  ASSUME NEW p \in Seq(Tokens), NEW n \in Nat, n <= Len(p)
  PROVE  LET tail == SubSeq(p, n + 1, Len(p)) IN
         /\ tail \in Seq(Tokens)
         /\ Len(tail) = Len(p) - n
         /\ \A i \in 1 .. Len(tail) : tail[i] = p[n + i]
  OBVIOUS

LEMMA OccupyIInv ==
  ASSUME IInv, pc = "admit",
         NEW s \in SlotIds, ~IsBusy(s),
         NEW r \in Requests, NEW n \in Nat, n <= Len(Prompt[r]),
         queue' \in Seq(Requests),
         slots' = [slots EXCEPT ![s] =
             [seq |-> s, warm |-> FALSE, req |-> r, session |-> Session[r],
              cached |-> Prompt[r], cachedAt |-> IF n = 0 THEN 0 ELSE slots[s].cachedAt,
              pending |-> SubSeq(Prompt[r], n + 1, Len(Prompt[r])),
              prefilled |-> FALSE, nPast |-> n, sampled |-> slots[s].sampled,
              iBatch |-> -1, nDecoded |-> 0]],
         NEW cells \in SUBSET kv[s],
         kv' = [kv EXCEPT ![s] = cells],
         \A c \in cells : c[1] < Len(Prompt[r]) /\ c[2] = Prompt[r][c[1] + 1],
         UNCHANGED <<reply, batch, cursor, chunkStart, chunkLen, nBatch, pc, running,
                     clock>>
  PROVE  IInv'
<1> DEFINE sl == slots'[s]
           tail == SubSeq(Prompt[r], n + 1, Len(Prompt[r]))
<1>1. slots[s] \in Slot /\ slots \in [SlotIds -> Slot] /\ kv \in [SlotIds -> SUBSET (Nat \X Tokens)]
  BY TypeFacts DEF IInv
<1>2. Prompt[r] \in Seq(Tokens) /\ Session[r] \in Sessions \cup {None}
  BY SchedulerAssumption
<1>3. /\ tail \in Seq(Tokens)
      /\ Len(tail) = Len(Prompt[r]) - n
      /\ \A i \in 1 .. Len(tail) : tail[i] = Prompt[r][n + i]
  BY <1>2, TailFacts
<1>4. /\ sl.seq = s /\ ~sl.warm /\ sl.req = r /\ sl.cached = Prompt[r]
      /\ sl.pending = tail /\ ~sl.prefilled /\ sl.nPast = n /\ sl.iBatch = -1
  BY <1>1
<1>5. \A t \in SlotIds \ {s} : slots'[t] = slots[t] /\ kv'[t] = kv[t]
  BY <1>1
<1>6. slots' \in [SlotIds -> Slot]
  <2> HIDE DEF tail
  <2>1. [seq |-> s, warm |-> FALSE, req |-> r, session |-> Session[r],
         cached |-> Prompt[r], cachedAt |-> IF n = 0 THEN 0 ELSE slots[s].cachedAt, pending |-> tail,
         prefilled |-> FALSE, nPast |-> n, sampled |-> slots[s].sampled,
         iBatch |-> -1, nDecoded |-> 0] \in Slot
    BY <1>1, <1>2, <1>3 DEF Slot
  <2> QED
    BY <1>1, <2>1 DEF tail
<1>7. kv' \in [SlotIds -> SUBSET (Nat \X Tokens)]
  BY <1>1
<1>8. TypeOK'
  BY <1>6, <1>7, Zenon DEF IInv, TypeOK
<1>9. SlotShape'
  <2>1. s # NoSeq
    BY DEF SlotIds, NoSeq
  <2>2. Ready(s)'
    <3>1. n + Len(tail) = Len(Prompt[r])
      BY <1>2, <1>3
    <3>2. Ready(s)' <=> /\ sl.nPast + Len(sl.pending) = Len(sl.cached)
                        /\ \A i \in 1 .. Len(sl.pending) :
                               sl.pending[i] = sl.cached[sl.nPast + i]
      BY <1>4 DEF Ready
    <3> HIDE DEF sl, tail
    <3> QED
      BY <3>1, <3>2, <1>3, <1>4
  <2> QED
    <3>1. IsBusy(s)' /\ ~IsFree(s)'
      BY <2>1, <1>4 DEF IsBusy, IsFree
    <3>2. \A t \in SlotIds \ {s} : /\ IsBusy(t)' = IsBusy(t) /\ IsFree(t)' = IsFree(t)
                                   /\ Ready(t)' = Ready(t)
      BY <1>5 DEF IsBusy, IsFree, Ready
    <3>3. slots'[s].seq = s /\ slots'[s].req \in Requests /\ slots'[s].iBatch = -1
      BY <1>4
    <3>4. \A t \in SlotIds \ {s} : slots'[t] = slots[t]
      BY <1>5
    <3> HIDE DEF sl, tail
    <3>5. \A t \in SlotIds \ {s} :
             /\ slots[t].seq \in {NoSeq, t}
             /\ IsFree(t) => slots[t].cached = <<>>
             /\ IsBusy(t) => slots[t].req \in Requests
             /\ IsBusy(t) =>
                    IF slots[t].iBatch = -1 THEN Ready(t) ELSE slots[t].nPast = Len(slots[t].cached)
             /\ ~IsBusy(t) => slots[t].iBatch = -1
      BY DEF IInv, SlotShape
    <3> QED
      BY ONLY <3>1, <3>2, <3>3, <3>4, <3>5, <2>2 DEF SlotShape
<1>10. BatchPhase' /\ BatchShape'
  BY <1>4, <1>5, TypeFacts DEF IInv, BatchPhase, BatchShape, Undecoded
<1>11. KVMatchesTokens'
  <2>1. kv'[s] = cells
    BY <1>1
  <2> QED
    BY <2>1, <1>4, <1>5 DEF IInv, KVMatchesTokens
<1> QED
  BY <1>8, <1>9, <1>10, <1>11 DEF IInv

LEMMA HeadFacts ==
  ASSUME TypeOK, queue # <<>>
  PROVE  Head(queue) \in Requests /\ Tail(queue) \in Seq(Requests)
BY DEF TypeOK

LEMMA AdmitReuseIInv ==
  ASSUME IInv, NEW s \in SlotIds, AdmitReuse(s)
  PROVE  IInv'
<1> DEFINE r == Head(queue)
<1>1. PICK n \in MinReuse .. NCtx : /\ Reusable(s, n, r)
                                    /\ Occupy(s, n)
                                    /\ kv' = [kv EXCEPT ![s] = SeqRm(s, n)]
  BY Zenon DEF AdmitReuse
<1>2. pc = "admit" /\ queue # <<>>
  BY DEF AdmitReuse, HeadAdmissible
<1>3. r \in Requests /\ Tail(queue) \in Seq(Requests)
  BY <1>2, HeadFacts DEF IInv
<1>4. n \in Nat /\ n <= Len(Prompt[r]) /\ n <= Len(slots[s].cached)
      /\ \A i \in 1 .. n : slots[s].cached[i] = Prompt[r][i]
  BY <1>1, SchedulerAssumption DEF Reusable, IsLongestCommonPrefix, IsCommonPrefix
<1>5. IsWarm(s)
  BY <1>1 DEF Reusable, SessionSlot, IsFirst
<1>6. kv[s] \in SUBSET (Nat \X Tokens) /\ SeqRm(s, n) \in SUBSET kv[s]
  BY TypeFacts DEF IInv, SeqRm
<1>7. \A c \in SeqRm(s, n) : c[1] < Len(Prompt[r]) /\ c[2] = Prompt[r][c[1] + 1]
  <2> SUFFICES ASSUME NEW c \in SeqRm(s, n)
               PROVE  c[1] < Len(Prompt[r]) /\ c[2] = Prompt[r][c[1] + 1]
    OBVIOUS
  <2>1. c \in kv[s] /\ c[1] < n /\ c[1] \in Nat
    BY <1>6 DEF SeqRm
  <2>2. c[2] = slots[s].cached[c[1] + 1]
    BY <2>1 DEF IInv, KVMatchesTokens
  <2>3. Len(Prompt[r]) \in Nat
    BY <1>3, SchedulerAssumption
  <2>4. c[1] < Len(Prompt[r]) /\ c[1] + 1 \in 1 .. n
    BY <2>1, <2>3, <1>4
  <2> HIDE DEF r
  <2> QED
    BY <2>2, <2>4, <1>4
<1> HIDE DEF r
<1> QED
  BY <1>1, <1>2, <1>3, <1>4, <1>5, <1>6, <1>7, OccupyIInv DEF Occupy, IsWarm, IsBusy, r

LEMMA AdmitFreeIInv ==
  ASSUME IInv, NEW s \in SlotIds, AdmitFree(s)
  PROVE  IInv'
<1>1. pc = "admit" /\ queue # <<>> /\ IsFree(s) /\ Occupy(s, 0) /\ kv' = kv
  BY DEF AdmitFree, HeadAdmissible, IsFirst
<1>2. Head(queue) \in Requests /\ Tail(queue) \in Seq(Requests)
  BY <1>1, HeadFacts DEF IInv
<1>3. Prompt[Head(queue)] \in Seq(Tokens)
  BY <1>2, SchedulerAssumption
<1>4. kv[s] = {} /\ kv \in [SlotIds -> SUBSET (Nat \X Tokens)]
  BY <1>1, TypeFacts DEF IInv, SlotShape, KVMatchesTokens
<1>5. kv' = [kv EXCEPT ![s] = {}] /\ {} \in SUBSET kv[s]
  BY <1>1, <1>4
<1>6. ~IsBusy(s) /\ 0 <= Len(Prompt[Head(queue)])
  BY <1>1, <1>3 DEF IsFree, IsBusy
<1> QED
  BY <1>1, <1>2, <1>5, <1>6, OccupyIInv DEF Occupy

LEMMA AdmitEvictIInv ==
  ASSUME IInv, NEW s \in SlotIds, AdmitEvict(s)
  PROVE  IInv'
<1>1. pc = "admit" /\ queue # <<>> /\ IsWarm(s) /\ Occupy(s, 0)
      /\ kv' = [kv EXCEPT ![s] = SeqRm(s, 0)]
  BY DEF AdmitEvict, HeadAdmissible
<1>2. Head(queue) \in Requests /\ Tail(queue) \in Seq(Requests)
  BY <1>1, HeadFacts DEF IInv
<1>3. Prompt[Head(queue)] \in Seq(Tokens)
  BY <1>2, SchedulerAssumption
<1>4. SeqRm(s, 0) = {} /\ {} \in SUBSET kv[s]
  BY TypeFacts DEF IInv, SeqRm
<1>5. ~IsBusy(s) /\ 0 <= Len(Prompt[Head(queue)])
  BY <1>1, <1>3 DEF IsWarm, IsBusy
<1> QED
  BY <1>1, <1>2, <1>4, <1>5, OccupyIInv DEF Occupy

-----------------------------------------------------------------------------
(* Building the batch *)

LEMMA FunctionIsSequence ==
  ASSUME NEW S, NEW n \in Nat, NEW f \in [1 .. n -> S]
  PROVE  f \in Seq(S) /\ Len(f) = n
OBVIOUS

LEMMA Concat ==
  ASSUME NEW S, NEW x \in Seq(S), NEW y \in Seq(S)
  PROVE  /\ x \o y \in Seq(S)
         /\ Len(x \o y) = Len(x) + Len(y)
         /\ \A i \in 1 .. Len(x) : (x \o y)[i] = x[i]
         /\ \A i \in Len(x) + 1 .. Len(x) + Len(y) : (x \o y)[i] = y[i - Len(x)]
OBVIOUS

\* Slot s adds entries that continue its history up to n_past; nothing else of
\* it changes and its cells only shrink.
AddStep(s, toks, pos, cells) ==
    /\ pc = "build" /\ cursor < MaxSeqs /\ s = cursor /\ IsBusy(s)
    /\ toks # <<>>
    /\ pos + Len(toks) = Len(slots[s].cached)
    /\ \A i \in 1 .. Len(toks) : toks[i] = slots[s].cached[pos + i]
    /\ AddTokens(s, toks, pos)
    /\ kv' = [kv EXCEPT ![s] = cells]
    /\ cursor' = cursor + 1
    /\ UNCHANGED <<queue, reply, chunkStart, chunkLen, nBatch, pc, running, clock>>

\* What AddTokens does to the slots.
LEMMA AddSlots ==
  ASSUME slots \in [SlotIds -> Slot], batch \in Seq(Entry),
         NEW s \in SlotIds, NEW toks \in Seq(Tokens), toks # <<>>, NEW pos \in Nat,
         AddTokens(s, toks, pos)
  PROVE  /\ slots' \in [SlotIds -> Slot]
         /\ slots'[s].iBatch = Len(batch) + Len(toks) - 1
         /\ slots'[s].nPast = pos + Len(toks)
         /\ slots'[s].seq = slots[s].seq /\ slots'[s].warm = slots[s].warm
         /\ slots'[s].req = slots[s].req /\ slots'[s].cached = slots[s].cached
         /\ slots'[s].cachedAt = slots[s].cachedAt
         /\ \A t \in SlotIds \ {s} : slots'[t] = slots[t]
<1> DEFINE i == Len(batch) + Len(toks) - 1
           p == pos + Len(toks)
           new == [slots[s] EXCEPT !.iBatch = i, !.nPast = p]
<1>1. i \in Nat /\ p \in Nat
  OBVIOUS
<1>2. slots' = [slots EXCEPT ![s].iBatch = i, ![s].nPast = p]
  BY Zenon DEF AddTokens
<1> HIDE DEF i, p
<1>3. slots[s] \in Slot /\ slots' = [slots EXCEPT ![s] = new]
  BY <1>2
<1>4. /\ new \in Slot /\ new.iBatch = i /\ new.nPast = p
      /\ new.seq = slots[s].seq /\ new.warm = slots[s].warm
      /\ new.req = slots[s].req /\ new.cached = slots[s].cached
      /\ new.cachedAt = slots[s].cachedAt
  BY <1>1, <1>3 DEF Slot
<1> HIDE DEF new
<1>5. slots' \in [SlotIds -> Slot] /\ slots'[s] = new
      /\ \A t \in SlotIds \ {s} : slots'[t] = slots[t]
  BY <1>3, <1>4
<1> QED
  BY <1>4, <1>5, Zenon DEF i, p

\* What AddTokens does to the batch.
LEMMA AddBatch ==
  ASSUME batch \in Seq(Entry),
         NEW s \in SlotIds, slots[s].seq = s,
         NEW toks \in Seq(Tokens), NEW pos \in Nat,
         AddTokens(s, toks, pos)
  PROVE  /\ batch' \in Seq(Entry)
         /\ Len(batch') = Len(batch) + Len(toks)
         /\ \A i \in 1 .. Len(batch) : batch'[i] = batch[i]
         /\ \A i \in 1 .. Len(batch') : i > Len(batch) =>
                /\ i - Len(batch) \in 1 .. Len(toks)
                /\ batch'[i].seq = s
                /\ batch'[i].pos = pos + (i - Len(batch)) - 1
                /\ batch'[i].tok = toks[i - Len(batch)]
<1> DEFINE new == [i \in 1 .. Len(toks) |->
                      [seq |-> slots[s].seq, pos |-> pos + i - 1, tok |-> toks[i]]]
<1>1. Len(toks) \in Nat /\ Len(batch) \in Nat
  OBVIOUS
<1>2. \A i \in 1 .. Len(toks) : new[i] \in Entry
  BY DEF Entry
<1>3. \A i \in 1 .. Len(toks) :
          new[i].seq = s /\ new[i].pos = pos + i - 1 /\ new[i].tok = toks[i]
  OBVIOUS
<1>4. new \in [1 .. Len(toks) -> Entry]
  BY <1>2
<1>5. batch' = batch \o new
  BY Zenon DEF AddTokens
<1> HIDE DEF new
<1>6. new \in Seq(Entry) /\ Len(new) = Len(toks)
  BY <1>1, <1>4, FunctionIsSequence, Zenon
<1>7. /\ batch' \in Seq(Entry)
      /\ Len(batch') = Len(batch) + Len(new)
      /\ \A i \in 1 .. Len(batch) : batch'[i] = batch[i]
      /\ \A i \in Len(batch) + 1 .. Len(batch) + Len(new) : batch'[i] = new[i - Len(batch)]
  <2>1. \A x, y \in Seq(Entry) :
           /\ x \o y \in Seq(Entry)
           /\ Len(x \o y) = Len(x) + Len(y)
           /\ \A i \in 1 .. Len(x) : (x \o y)[i] = x[i]
           /\ \A i \in Len(x) + 1 .. Len(x) + Len(y) : (x \o y)[i] = y[i - Len(x)]
    BY Concat
  <2> QED
    BY <2>1, <1>5, <1>6, Zenon
<1>8. \A i \in Len(batch) + 1 .. Len(batch) + Len(toks) : batch'[i] = new[i - Len(batch)]
  BY <1>6, <1>7, Zenon
<1>9. Len(batch') = Len(batch) + Len(toks)
  BY <1>6, <1>7, Zenon
<1>10. ASSUME NEW i \in 1 .. Len(batch'), i > Len(batch)
       PROVE  /\ i - Len(batch) \in 1 .. Len(toks)
              /\ batch'[i].seq = s
              /\ batch'[i].pos = pos + (i - Len(batch)) - 1
              /\ batch'[i].tok = toks[i - Len(batch)]
  <2>1. /\ i \in Len(batch) + 1 .. Len(batch) + Len(toks)
        /\ i - Len(batch) \in 1 .. Len(toks)
    BY <1>1, <1>9, <1>10
  <2>2. batch'[i] = new[i - Len(batch)]
    BY <2>1, <1>8, Zenon
  <2> QED
    BY <2>1, <2>2, <1>3, Zenon
<1> QED
  BY <1>7, <1>9, <1>10, Zenon

LEMMA AddIInv ==
  ASSUME IInv,
         NEW s \in SlotIds, NEW toks \in Seq(Tokens), NEW pos \in Nat,
         NEW cells \in SUBSET kv[s],
         AddStep(s, toks, pos, cells)
  PROVE  IInv'
<1>0. /\ pc = "build" /\ cursor < MaxSeqs /\ s = cursor /\ IsBusy(s) /\ toks # <<>>
      /\ pc' = pc /\ cursor' = cursor + 1 /\ chunkStart' = chunkStart
  BY DEF AddStep
<1>1. /\ slots[s] \in Slot /\ slots \in [SlotIds -> Slot] /\ batch \in Seq(Entry)
      /\ kv \in [SlotIds -> SUBSET (Nat \X Tokens)] /\ cursor \in Nat
  BY TypeFacts DEF IInv
<1>2. slots[s].seq = s
  BY <1>0 DEF IInv, SlotShape, IsBusy, NoSeq
<1>3. Len(toks) \in Nat /\ Len(toks) > 0 /\ Len(batch) \in Nat
  BY <1>0, <1>1
<1>6. /\ batch' \in Seq(Entry)
      /\ Len(batch') = Len(batch) + Len(toks)
      /\ \A i \in 1 .. Len(batch) : batch'[i] = batch[i]
      /\ \A i \in 1 .. Len(batch') : i > Len(batch) =>
             /\ i - Len(batch) \in 1 .. Len(toks)
             /\ batch'[i].seq = s
             /\ batch'[i].pos = pos + (i - Len(batch)) - 1
             /\ batch'[i].tok = toks[i - Len(batch)]
  <2>1. AddTokens(s, toks, pos)
    BY DEF AddStep
  <2> QED
    BY <2>1, <1>1, <1>2, AddBatch
<1>17. /\ slots' \in [SlotIds -> Slot]
       /\ slots'[s].iBatch = Len(batch) + Len(toks) - 1 /\ slots'[s].nPast = pos + Len(toks)
       /\ slots'[s].seq = slots[s].seq /\ slots'[s].warm = slots[s].warm
       /\ slots'[s].req = slots[s].req /\ slots'[s].cached = slots[s].cached
       /\ \A t \in SlotIds \ {s} : slots'[t] = slots[t]
  BY <1>0, <1>1, AddSlots, Zenon DEF AddStep
<1> DEFINE L == Len(batch)
<1>7. /\ slots'[s].iBatch = L + Len(toks) - 1 /\ slots'[s].nPast = pos + Len(toks)
      /\ slots'[s].seq = s /\ slots'[s].warm = slots[s].warm /\ slots'[s].req = slots[s].req
      /\ slots'[s].cached = slots[s].cached
      /\ slots' \in [SlotIds -> Slot]
  BY <1>2, <1>17
<1>8. \A t \in SlotIds \ {s} : slots'[t] = slots[t]
  BY <1>17
<1>9. kv' \in [SlotIds -> SUBSET (Nat \X Tokens)] /\ kv'[s] = cells
      /\ \A t \in SlotIds \ {s} : kv'[t] = kv[t]
  <2>1. kv' = [kv EXCEPT ![s] = cells]
    BY DEF AddStep
  <2> QED
    BY <1>1, <2>1
<1>10. TypeOK'
  <2>1. cursor' \in 0 .. MaxSeqs
    BY <1>0, <1>1, SchedulerAssumption
  <2> QED
    BY <2>1, <1>6, <1>7, <1>9, Zenon DEF IInv, TypeOK, AddStep
<1>15. pos + Len(toks) = Len(slots[s].cached)
       /\ \A i \in 1 .. Len(toks) : toks[i] = slots[s].cached[pos + i]
  BY DEF AddStep
<1>11. SlotShape'
  <2>1. L + Len(toks) - 1 # -1
    BY <1>3, <1>6
  <2> QED
    <3>1. /\ IsBusy(s)' /\ ~IsFree(s)'
          /\ slots'[s].nPast = Len(slots'[s].cached) /\ slots'[s].iBatch # -1
          /\ slots'[s].req \in Requests /\ slots'[s].seq = s
      BY <2>1, <1>0, <1>2, <1>7, <1>15 DEF IInv, SlotShape, IsBusy, IsFree
    <3>2. \A t \in SlotIds \ {s} : /\ IsBusy(t)' = IsBusy(t) /\ IsFree(t)' = IsFree(t)
                                   /\ Ready(t)' = Ready(t)
      BY <1>8 DEF IsBusy, IsFree, Ready
    <3>3. \A t \in SlotIds \ {s} : slots'[t] = slots[t]
      BY <1>8
    <3>4. \A t \in SlotIds \ {s} :
             /\ slots[t].seq \in {NoSeq, t}
             /\ IsFree(t) => slots[t].cached = <<>>
             /\ IsBusy(t) => slots[t].req \in Requests
             /\ IsBusy(t) =>
                    IF slots[t].iBatch = -1 THEN Ready(t) ELSE slots[t].nPast = Len(slots[t].cached)
             /\ ~IsBusy(t) => slots[t].iBatch = -1
      BY DEF IInv, SlotShape
    <3> QED
      BY ONLY <3>1, <3>2, <3>3, <3>4 DEF SlotShape
<1>12. BatchPhase'
  <2>1. \A t \in SlotIds : slots[t].iBatch \in Nat \cup {-1} /\ slots[t].iBatch < L /\ t \in Nat
    BY <1>0, TypeFacts DEF IInv, BatchPhase, Slot, SlotIds
  <2>2. \A t \in SlotIds : t >= cursor + 1 => t # s /\ t >= cursor
    BY <1>0, <1>1, <2>1
  <2>3. \A t \in SlotIds : slots'[t].iBatch < Len(batch')
    <3>1. slots'[s].iBatch = L + Len(toks) - 1 /\ Len(batch') = L + Len(toks)
          /\ L \in Nat /\ Len(toks) \in Nat /\ Len(toks) > 0
      BY <1>3, <1>6, <1>7
    <3>2. \A t \in SlotIds \ {s} : slots'[t].iBatch = slots[t].iBatch
      BY <1>8
    <3> HIDE DEF L
    <3> QED
      BY ONLY <2>1, <3>1, <3>2
  <2>4. \A t \in SlotIds : t >= cursor' => slots'[t].iBatch = -1
    BY <2>2, <1>0, <1>8 DEF IInv, BatchPhase
  <2> QED
    BY <2>3, <2>4, <1>0 DEF BatchPhase
<1>13. BatchShape'
  <2> SUFFICES ASSUME NEW i \in 1 .. Len(batch')
               PROVE  LET e == batch'[i] IN
                      /\ slots'[e.seq].seq # NoSeq /\ ~slots'[e.seq].warm
                      /\ slots'[e.seq].iBatch >= i - 1
                      /\ e.pos < Len(slots'[e.seq].cached)
                      /\ e.tok = slots'[e.seq].cached[e.pos + 1]
    BY <1>0 DEF BatchShape, IsBusy
  <2>1. CASE i <= L
    <3>0. i \in 1 .. Len(batch)
      BY <2>1, <1>3
    <3>5. batch[i] \in Entry
      BY <3>0, <1>1
    <3>1. i \in 1 .. Len(batch) /\ batch'[i] = batch[i] /\ batch[i].seq \in SlotIds
      BY <3>0, <3>5, <1>6 DEF Entry
    <3>2. /\ IsBusy(batch[i].seq) /\ slots[batch[i].seq].iBatch >= i - 1
          /\ batch[i].pos < Len(slots[batch[i].seq].cached)
          /\ batch[i].tok = slots[batch[i].seq].cached[batch[i].pos + 1]
      BY <1>0, <3>1 DEF IInv, BatchShape, Undecoded
    <3>3. slots[s].iBatch = -1
      BY <1>0, <1>1 DEF IInv, BatchPhase, SlotIds
    <3>4. batch[i].seq # s
      BY <3>1, <3>2, <3>3
    <3> QED
      BY <3>1, <3>2, <3>4, <1>8 DEF IsBusy
  <2>2. CASE i > L
    <3> DEFINE k == i - L
    <3>1. /\ k \in 1 .. Len(toks) /\ batch'[i].seq = s
          /\ batch'[i].pos = pos + k - 1 /\ batch'[i].tok = toks[k]
      BY <2>2, <1>6
    <3>2. slots'[s].seq # NoSeq /\ ~slots'[s].warm
      BY <1>0, <1>2, <1>7 DEF IsBusy, NoSeq, SlotIds
    <3>3. slots'[s].iBatch >= i - 1
      BY <1>3, <1>6, <1>7
    <3>4. toks[k] = slots[s].cached[pos + k]
      BY <3>1, <1>15
    <3>5. pos + k - 1 < Len(slots[s].cached) /\ pos + k - 1 + 1 = pos + k
      BY <3>1, <1>3, <1>15
    <3> HIDE DEF k
    <3> QED
      BY <3>1, <3>2, <3>3, <3>4, <3>5, <1>7, Zenon
  <2> QED
    BY <2>1, <2>2, <1>6
<1>14. KVMatchesTokens'
  BY <1>7, <1>8, <1>9 DEF IInv, KVMatchesTokens
<1> QED
  BY <1>10, <1>11, <1>12, <1>13, <1>14 DEF IInv

LEMMA BuildIInv ==
  ASSUME IInv, Build
  PROVE  IInv'
<1> DEFINE s == cursor
<1>1. s \in SlotIds /\ pc = "build" /\ cursor < MaxSeqs /\ cursor' = cursor + 1
  BY TypeFacts, SchedulerAssumption DEF IInv, Build, SlotIds
<1>2. slots[s] \in Slot /\ kv \in [SlotIds -> SUBSET (Nat \X Tokens)]
  BY <1>1, TypeFacts DEF IInv
<1>3. slots[s].iBatch = -1
  BY <1>1 DEF IInv, BatchPhase, SlotIds
<1>4. IsBusy(s) => Ready(s)
  BY <1>1, <1>3 DEF IInv, SlotShape
<1>5. kv = [kv EXCEPT ![s] = kv[s]] /\ kv[s] \in SUBSET kv[s]
  BY <1>2
<1>6. UNCHANGED <<queue, reply, chunkStart, chunkLen, nBatch, pc, running, clock>>
  BY DEF Build
<1>7. CASE BuildPrefill(s)
  <2>1. slots[s].pending \in Seq(Tokens) /\ slots[s].nPast \in Nat
    BY <1>2 DEF Slot
  <2>2. /\ slots[s].nPast + Len(slots[s].pending) = Len(slots[s].cached)
        /\ \A i \in 1 .. Len(slots[s].pending) :
               slots[s].pending[i] = slots[s].cached[slots[s].nPast + i]
    BY <1>4, <1>7 DEF Ready, BuildPrefill
  <2>3. AddStep(s, slots[s].pending, slots[s].nPast, kv[s])
    BY <2>2, <1>1, <1>5, <1>6, <1>7 DEF AddStep, BuildPrefill
  <2> QED
    BY <2>1, <2>3, <1>1, <1>5, AddIInv
<1>8. CASE BuildLastAgain(s)
  <2> DEFINE last == slots[s].nPast - 1
             toks == <<slots[s].cached[last + 1]>>
  <2>1. slots[s].pending = <<>> /\ slots[s].nPast > 0 /\ IsBusy(s) /\ ~slots[s].prefilled
    BY <1>8 DEF BuildLastAgain
  <2>2. slots[s].cached \in Seq(Tokens) /\ slots[s].nPast \in Nat
    BY <1>2 DEF Slot
  <2>3. slots[s].nPast = Len(slots[s].cached)
    BY <1>4, <2>1, <2>2 DEF Ready
  <2>4. last \in Nat /\ slots[s].cached[last + 1] \in Tokens
    BY <2>1, <2>2, <2>3
  <2>5. /\ toks \in Seq(Tokens) /\ toks # <<>> /\ last + Len(toks) = Len(slots[s].cached)
        /\ \A i \in 1 .. Len(toks) : toks[i] = slots[s].cached[last + i]
    BY <2>1, <2>2, <2>3, <2>4
  <2>6. AddTokens(s, toks, last) /\ kv' = [kv EXCEPT ![s] = SeqRm(s, last)]
    BY <1>8 DEF BuildLastAgain
  <2>7. SeqRm(s, last) \in SUBSET kv[s]
    BY DEF SeqRm
  <2> HIDE DEF last, toks
  <2>8. AddStep(s, toks, last, SeqRm(s, last))
    BY <2>1, <2>5, <2>6, <1>1, <1>6 DEF AddStep
  <2> QED
    BY <2>4, <2>5, <2>7, <2>8, <1>1, AddIInv
<1>9. CASE BuildDecode(s)
  <2> DEFINE toks == <<slots[s].sampled>>
  <2>1. IsBusy(s) /\ slots[s].prefilled /\ kv' = kv /\ AddTokens(s, toks, slots[s].nPast)
    BY <1>9 DEF BuildDecode
  <2>2. slots[s].cached \in Seq(Tokens) /\ slots[s].nPast \in Nat
    BY <1>2 DEF Slot
  <2>3. slots[s].nPast + 1 = Len(slots[s].cached)
        /\ slots[s].sampled = slots[s].cached[Len(slots[s].cached)]
    BY <1>4, <2>1 DEF Ready
  <2>4. slots[s].sampled \in Tokens
    BY <2>2, <2>3
  <2>5. /\ toks \in Seq(Tokens) /\ toks # <<>> /\ slots[s].nPast + Len(toks) = Len(slots[s].cached)
        /\ \A i \in 1 .. Len(toks) : toks[i] = slots[s].cached[slots[s].nPast + i]
    BY <2>2, <2>3, <2>4
  <2> HIDE DEF toks
  <2>6. AddStep(s, toks, slots[s].nPast, kv[s])
    BY <2>1, <2>5, <1>1, <1>5, <1>6 DEF AddStep
  <2> QED
    BY <2>2, <2>5, <2>6, <1>1, <1>5, AddIInv
<1>10. CASE BuildSkip(s)
  <2>1. UNCHANGED <<batch, slots, kv>> /\ ~IsBusy(s)
    BY <1>10 DEF BuildSkip
  <2>2. TypeOK'
    <3>1. cursor' \in 0 .. MaxSeqs
      BY <1>1, TypeFacts, SchedulerAssumption DEF IInv
    <3> QED
      BY <2>1, <3>1, <1>6, Zenon DEF IInv, TypeOK
  <2>3. BatchPhase'
    BY <1>1, <1>6, <2>1, TypeFacts DEF IInv, BatchPhase, SlotIds
  <2>4. BatchShape'
    BY <1>6, <2>1 DEF IInv, BatchShape, Undecoded, IsBusy
  <2> QED
    BY <2>1, <2>2, <2>3, <2>4, SlotsUnchanged DEF IInv
<1> QED
  BY <1>7, <1>8, <1>9, <1>10 DEF Build

-----------------------------------------------------------------------------
(* Decoding, sampling and the end *)

LEMMA ChunkFacts ==
  ASSUME IInv, pc = "decode"
  PROVE  /\ ChunkSize \in Nat
         /\ chunkStart + ChunkSize \in Nat
         /\ chunkStart + ChunkSize <= Len(batch)
<1>1. chunkStart < Len(batch)
  BY DEF IInv, BatchPhase
<1>2. chunkStart \in Nat /\ nBatch \in Nat /\ Len(batch) \in Nat
  BY TypeFacts, SchedulerAssumption DEF IInv
<1> QED
  BY <1>1, <1>2 DEF ChunkSize

\* The cells a chunk adds are tokens of the slot's history at their positions.
LEMMA ChunkCellsMatch ==
  ASSUME IInv, pc = "decode", NEW s \in SlotIds, NEW c \in ChunkCells(s)
  PROVE  /\ c \in Nat \X Tokens
         /\ c[1] < Len(slots[s].cached)
         /\ c[2] = slots[s].cached[c[1] + 1]
<1>1. PICK i \in chunkStart + 1 .. chunkStart + ChunkSize :
          batch[i].seq = s /\ c = <<batch[i].pos, batch[i].tok>>
  BY DEF ChunkCells
<1>2. i \in 1 .. Len(batch) /\ i > chunkStart
  <2>1. chunkStart \in Nat /\ Len(batch) \in Nat
    BY TypeFacts DEF IInv
  <2> QED
    BY <2>1, ChunkFacts
<1>3. batch[i] \in Entry
  BY <1>2, TypeFacts DEF IInv
<1>4. batch[i].pos \in Nat /\ batch[i].tok \in Tokens
  BY <1>3 DEF Entry
<1>5. /\ batch[i].pos < Len(slots[s].cached)
      /\ batch[i].tok = slots[s].cached[batch[i].pos + 1]
  BY <1>1, <1>2 DEF IInv, BatchShape, Undecoded
<1> QED
  BY <1>1, <1>4, <1>5

LEMMA DecodeOkIInv ==
  ASSUME IInv, DecodeOk
  PROVE  IInv'
<1>1. /\ pc = "decode" /\ pc' = "sample"
      /\ kv' = [s \in SlotIds |-> kv[s] \cup ChunkCells(s)]
      /\ chunkLen' = ChunkSize
      /\ nBatch' = NBatch
      /\ UNCHANGED <<queue, reply, slots, batch, cursor, chunkStart, running, clock>>
  BY DEF DecodeOk
<1>2. kv \in [SlotIds -> SUBSET (Nat \X Tokens)]
  BY TypeFacts DEF IInv
<1>3. \A s \in SlotIds : kv'[s] = kv[s] \cup ChunkCells(s)
  BY <1>1
<1>4. kv' \in [SlotIds -> SUBSET (Nat \X Tokens)]
  <2>1. \A s \in SlotIds : kv[s] \cup ChunkCells(s) \in SUBSET (Nat \X Tokens)
    BY <1>1, <1>2, ChunkCellsMatch
  <2> QED
    BY <1>1, <2>1
<1>5. TypeOK'
  <2>1. chunkLen' \in Nat /\ nBatch' \in 1 .. NBatch
    BY <1>1, ChunkFacts, SchedulerAssumption
  <2>2. pc' \in {"top", "admit", "build", "decode", "fail", "sample", "drainSlots",
                 "drainQueue", "done"}
    BY <1>1
  <2> QED
    BY <2>1, <2>2, <1>1, <1>4, Zenon DEF IInv, TypeOK
<1>6. SlotShape'
  BY <1>1 DEF IInv, SlotShape, Ready, IsBusy, IsFree
<1>7. BatchPhase'
  BY <1>1 DEF IInv, BatchPhase
<1>8. BatchShape'
  <2>1. chunkStart + ChunkSize >= chunkStart
    BY <1>1, ChunkFacts, TypeFacts DEF IInv
  <2>2. Undecoded = chunkStart /\ Undecoded' = chunkStart + ChunkSize
    BY <1>1 DEF Undecoded
  <2>3. \A i \in 1 .. Len(batch) : i > chunkStart + ChunkSize => i > chunkStart
    BY <1>1, <2>1, ChunkFacts, TypeFacts DEF IInv
  <2> QED
    BY <1>1, <2>2, <2>3 DEF IInv, BatchShape, IsBusy
<1>9. KVMatchesTokens'
  <2> SUFFICES ASSUME NEW s \in SlotIds, NEW c \in kv'[s]
               PROVE  /\ c[1] < Len(slots[s].cached)
                      /\ c[2] = slots[s].cached[c[1] + 1]
    BY <1>1 DEF KVMatchesTokens
  <2>1. CASE c \in kv[s]
    BY <2>1 DEF IInv, KVMatchesTokens
  <2>2. CASE c \in ChunkCells(s)
    BY <2>2, <1>1, ChunkCellsMatch
  <2> QED
    BY <2>1, <2>2, <1>3
<1> QED
  BY <1>5, <1>6, <1>7, <1>8, <1>9 DEF IInv

LEMMA SampleTokenIInv ==
  ASSUME IInv, NEW s \in SlotIds, NEW t \in Tokens, NEW stop \in BOOLEAN,
         SampleToken(s, t, stop)
  PROVE  IInv'
<1> DEFINE history == Append(slots[s].cached, t)
           maxHit  == slots[s].nDecoded + 1 >= MaxNew[slots[s].req]
           new == [slots[s] EXCEPT !.cached = history, !.nDecoded = @ + 1,
                                   !.sampled = t, !.pending = <<>>,
                                   !.prefilled = TRUE, !.iBatch = -1]
<1>1. /\ slots[s] \in Slot /\ slots \in [SlotIds -> Slot]
      /\ kv \in [SlotIds -> SUBSET (Nat \X Tokens)]
      /\ chunkStart \in Nat /\ chunkLen \in Nat
  BY TypeFacts DEF IInv
<1>2. /\ pc = "sample" /\ IsBusy(s)
      /\ slots[s].iBatch >= chunkStart /\ slots[s].iBatch < chunkStart + chunkLen
  BY Zenon DEF SampleToken, IsFirst, InChunk
<1>3. /\ Undecoded = chunkStart + chunkLen
      /\ slots[s].iBatch < Undecoded
      /\ slots[s].iBatch # -1
  BY <1>1, <1>2 DEF Undecoded
<1>4. /\ slots[s].cached \in Seq(Tokens) /\ slots[s].nPast \in Nat
      /\ slots[s].nDecoded \in Nat
  BY <1>1 DEF Slot
<1>5. /\ history \in Seq(Tokens)
      /\ Len(history) = Len(slots[s].cached) + 1
      /\ history[Len(history)] = t
      /\ \A i \in 1 .. Len(slots[s].cached) : history[i] = slots[s].cached[i]
  BY <1>4
<1> HIDE DEF history
<1>6. \A c \in kv[s] : c[1] < Len(history) /\ c[2] = history[c[1] + 1]
  <2> SUFFICES ASSUME NEW c \in kv[s]
               PROVE  c[1] < Len(history) /\ c[2] = history[c[1] + 1]
    OBVIOUS
  <2>1. c[1] \in Nat /\ Len(slots[s].cached) \in Nat
    BY <1>1, <1>4
  <2>2. c[1] < Len(slots[s].cached) /\ c[2] = slots[s].cached[c[1] + 1]
    BY DEF IInv, KVMatchesTokens
  <2>3. c[1] + 1 \in 1 .. Len(slots[s].cached)
    BY <2>1, <2>2
  <2>4. history[c[1] + 1] = slots[s].cached[c[1] + 1]
    BY <2>3, <1>5, Zenon
  <2>5. Len(history) = Len(slots[s].cached) + 1
    BY <1>5
  <2>6. c[1] < Len(history)
    BY <2>1, <2>2, <2>5
  <2> QED
    BY <2>2, <2>4, <2>6
<1>7. UNCHANGED <<queue, batch, cursor, chunkStart, chunkLen, nBatch, pc, running>>
  BY Zenon DEF SampleToken
<1>8. CASE stop \/ maxHit
  <2>1. Complete(s, IF maxHit THEN "length" ELSE "stop", history, t)
    BY <1>8, Zenon DEF SampleToken, history
  <2>2. (IF maxHit THEN "length" ELSE "stop") \in Answers
    BY DEF Answers
  <2> QED
    BY <2>1, <2>2, <1>2, <1>3, <1>5, <1>6, <1>7, CompleteIInv
<1>9. CASE ~(stop \/ maxHit)
  <2>1. /\ slots' = [slots EXCEPT ![s].cached = history, ![s].nDecoded = @ + 1,
                                  ![s].sampled = t, ![s].pending = <<>>,
                                  ![s].prefilled = TRUE, ![s].iBatch = -1]
        /\ UNCHANGED <<reply, kv, clock>>
    BY <1>9, Zenon DEF SampleToken, history
  <2>2. slots' = [slots EXCEPT ![s] = new]
    BY <2>1, <1>1
  <2>3. /\ new \in Slot /\ new.cached = history /\ new.sampled = t /\ new.prefilled
        /\ new.iBatch = -1 /\ new.nPast = slots[s].nPast /\ new.seq = slots[s].seq
        /\ new.warm = slots[s].warm /\ new.req = slots[s].req
    <3>1. slots[s].nDecoded + 1 \in Nat /\ history \in Seq(Tokens) /\ <<>> \in Seq(Tokens)
      BY <1>4, <1>5
    <3>2. new \in Slot
      BY <3>1, <1>1, Zenon DEF Slot
    <3>3. slots[s] = [seq |-> slots[s].seq, warm |-> slots[s].warm, req |-> slots[s].req,
                      session |-> slots[s].session, cached |-> slots[s].cached,
                      cachedAt |-> slots[s].cachedAt, pending |-> slots[s].pending,
                      prefilled |-> slots[s].prefilled, nPast |-> slots[s].nPast,
                      sampled |-> slots[s].sampled, iBatch |-> slots[s].iBatch,
                      nDecoded |-> slots[s].nDecoded]
      BY <1>1 DEF Slot
    <3> QED
      BY <3>2, <3>3
  <2> HIDE DEF new
  <2>4. slots' \in [SlotIds -> Slot] /\ slots'[s] = new
        /\ \A u \in SlotIds \ {s} : slots'[u] = slots[u]
    BY <2>2, <2>3, <1>1
  <2>5. TypeOK'
    BY <2>1, <2>4, <1>7, Zenon DEF IInv, TypeOK
  <2>6. SlotShape'
    <3>1. /\ slots[s].nPast = Len(slots[s].cached) /\ slots[s].req \in Requests
          /\ slots[s].seq = s
      BY <1>2, <1>3 DEF IInv, SlotShape, IsBusy, NoSeq
    <3>2. Ready(s)'
      BY <3>1, <2>3, <2>4, <1>5 DEF Ready
    <3>3. /\ IsBusy(s)' /\ ~IsFree(s)' /\ slots'[s].iBatch = -1
          /\ slots'[s].req \in Requests /\ slots'[s].seq = s
      BY <3>1, <2>3, <2>4, <1>2 DEF IsBusy, IsFree
    <3>4. \A u \in SlotIds \ {s} : /\ IsBusy(u)' = IsBusy(u) /\ IsFree(u)' = IsFree(u)
                                   /\ Ready(u)' = Ready(u)
      BY <2>4 DEF IsBusy, IsFree, Ready
    <3> QED
      BY <3>2, <3>3, <3>4, <2>4 DEF IInv, SlotShape
  <2>7. BatchPhase'
    <3>1. \A u \in SlotIds : slots'[u].iBatch \in {slots[u].iBatch, -1}
      BY <2>3, <2>4
    <3>2. Len(batch) \in Nat
      BY TypeFacts DEF IInv
    <3> QED
      BY <3>1, <3>2, <1>2, <1>7 DEF IInv, BatchPhase
  <2>8. BatchShape'
    <3> SUFFICES ASSUME NEW i \in 1 .. Len(batch), i > chunkStart + chunkLen
                 PROVE  LET e == batch[i] IN
                        /\ slots'[e.seq].seq # NoSeq /\ ~slots'[e.seq].warm
                        /\ slots'[e.seq].iBatch >= i - 1
                        /\ e.pos < Len(slots'[e.seq].cached)
                        /\ e.tok = slots'[e.seq].cached[e.pos + 1]
      BY <1>2, <1>7 DEF BatchShape, Undecoded, IsBusy
    <3>1. batch[i].seq \in SlotIds
      BY TypeFacts DEF IInv, Entry
    <3>2. /\ IsBusy(batch[i].seq) /\ slots[batch[i].seq].iBatch >= i - 1
          /\ batch[i].pos < Len(slots[batch[i].seq].cached)
          /\ batch[i].tok = slots[batch[i].seq].cached[batch[i].pos + 1]
      BY <1>3 DEF IInv, BatchShape
    <3>3. batch[i].seq # s
      BY <3>2, <1>1, <1>2 DEF Slot
    <3> QED
      BY <3>1, <3>2, <3>3, <2>4 DEF IsBusy
  <2>9. KVMatchesTokens'
    BY <2>1, <2>3, <2>4, <1>6 DEF IInv, KVMatchesTokens
  <2> QED
    BY <2>5, <2>6, <2>7, <2>8, <2>9 DEF IInv
<1> QED
  BY <1>8, <1>9

LEMMA DrainWarmIInv ==
  ASSUME IInv, NEW s \in SlotIds, DrainWarm(s)
  PROVE  IInv'
<1> DEFINE new == IdleSlot(NoSeq, FALSE, None, <<>>, slots[s].cachedAt, slots[s].nPast,
                           slots[s].sampled)
<1>1. /\ slots[s] \in Slot /\ slots \in [SlotIds -> Slot]
      /\ kv \in [SlotIds -> SUBSET (Nat \X Tokens)]
  BY TypeFacts DEF IInv
<1>2. /\ pc = "drainSlots" /\ slots' = [slots EXCEPT ![s] = new]
      /\ kv' = [kv EXCEPT ![s] = SeqRm(s, 0)]
      /\ UNCHANGED <<queue, reply, batch, cursor, chunkStart, chunkLen, nBatch, pc,
                     running, clock>>
  BY DEF DrainWarm
<1>3. SeqRm(s, 0) = {}
  BY <1>1 DEF SeqRm
<1>4. new \in Slot /\ new.seq = NoSeq /\ new.cached = <<>> /\ new.iBatch = -1
  BY <1>1 DEF Slot, IdleSlot
<1> HIDE DEF new
<1>5. /\ slots' \in [SlotIds -> Slot] /\ slots'[s] = new
      /\ kv' \in [SlotIds -> SUBSET (Nat \X Tokens)] /\ kv'[s] = {}
      /\ \A t \in SlotIds \ {s} : slots'[t] = slots[t] /\ kv'[t] = kv[t]
  BY <1>1, <1>2, <1>3, <1>4
<1>6. TypeOK'
  BY <1>2, <1>5, Zenon DEF IInv, TypeOK
<1>7. SlotShape'
  <2>1. /\ slots'[s].seq = NoSeq /\ slots'[s].iBatch = -1 /\ slots'[s].cached = <<>>
        /\ ~(IsBusy(s))'
    BY <1>4, <1>5 DEF IsBusy
  <2>2. \A t \in SlotIds \ {s} : slots'[t] = slots[t]
    BY <1>5
  <2>3. \A t \in SlotIds \ {s} : /\ IsBusy(t)' = IsBusy(t) /\ IsFree(t)' = IsFree(t)
                                 /\ Ready(t)' = Ready(t)
    BY <2>2 DEF IsBusy, IsFree, Ready
  <2> QED
    BY ONLY IInv, <2>1, <2>2, <2>3 DEF IInv, SlotShape
<1>8. BatchPhase'
  BY <1>2, <1>4, <1>5 DEF IInv, BatchPhase
<1>9. BatchShape'
  BY <1>2, TypeFacts DEF IInv, BatchShape, Undecoded
<1>10. KVMatchesTokens'
  BY <1>5 DEF IInv, KVMatchesTokens
<1> QED
  BY <1>6, <1>7, <1>8, <1>9, <1>10 DEF IInv

LEMMA StutterIInv ==
  ASSUME IInv, UNCHANGED vars
  PROVE  IInv'
<1>1. TypeOK'
  BY Zenon DEF IInv, TypeOK, vars
<1> QED
  BY <1>1, QueueStep DEF vars

-----------------------------------------------------------------------------
(* Every step *)

LEMMA NextIInv == IInv /\ [Next]_vars => IInv'
<1> SUFFICES ASSUME IInv, [Next]_vars PROVE IInv'
  OBVIOUS
<1>1. CASE \E r \in Requests : SubmitRefused(r) \/ SubmitQueued(r)
  BY <1>1, SubmitRefusedIInv, SubmitQueuedIInv, Zenon
<1>2. CASE Shutdown
  BY <1>2, ShutdownIInv, Zenon
<1>3. CASE Admit
  BY <1>3, StartAdmitIInv, RejectHeadIInv, AdmitReuseIInv, AdmitFreeIInv, AdmitEvictIInv,
     AdmitDoneIInv, Zenon DEF Admit
<1>4. CASE Build \/ BuildDone
  BY <1>4, BuildIInv, BuildDoneIInv, Zenon
<1>5. CASE Decode
  BY <1>5, DecodeOkIInv, DecodeRetryIInv, DecodeFailIInv, FailSlotIInv, FailDoneIInv,
     Zenon DEF Decode
<1>6. CASE Sample
  BY <1>6, SampleEogIInv, SampleTokenIInv, ChunkDoneIInv, Zenon DEF Sample
<1>7. CASE Drain
  BY <1>7, LeaveLoopIInv, DrainBusyIInv, DrainWarmIInv, DrainSlotsDoneIInv, DrainQueueIInv,
     DrainQueueDoneIInv, Zenon DEF Drain
<1>8. CASE Terminated \/ UNCHANGED vars
  BY <1>8, StutterIInv, Zenon DEF Terminated
<1> QED
  BY <1>1, <1>2, <1>3, <1>4, <1>5, <1>6, <1>7, <1>8, Zenon DEF Next, Worker

\* Every reachable state has the types of slots_, queue_, the batch and the
\* worker's variables.
THEOREM TypeCorrect == Spec => []TypeOK
<1>1. IInv => TypeOK
  BY DEF IInv
<1> QED
  BY <1>1, InitIInv, NextIInv, PTL DEF Spec

\* try_admit_pending, complete_slot and run keep the KV cache of a sequence in
\* step with cached_tokens: see KVMatchesTokens.
THEOREM CellsCorrect == Spec => []KVMatchesTokens
<1>1. IInv => KVMatchesTokens
  BY DEF IInv
<1> QED
  BY <1>1, InitIInv, NextIInv, PTL DEF Spec

-----------------------------------------------------------------------------
(* One owner per promise *)

NoneTwice == \A i, j \in 1 .. Len(queue) : queue[i] = queue[j] => i = j

LEMMA QueueTail ==
  ASSUME queue \in Seq(Requests), queue # <<>>, NoneTwice, queue' = Tail(queue)
  PROVE  /\ NoneTwice'
         /\ \A r : InQueue(r)' <=> InQueue(r) /\ r # Head(queue)
         /\ InQueue(Head(queue)) /\ Head(queue) \in Requests
<1> DEFINE n == Len(queue)
<1>1. n \in Nat /\ n > 0 /\ Head(queue) = queue[1] /\ Head(queue) \in Requests
  OBVIOUS
<1>2. Len(queue') = n - 1 /\ \A i \in 1 .. n - 1 : queue'[i] = queue[i + 1]
  OBVIOUS
<1> HIDE DEF n
<1>3. NoneTwice'
  BY <1>1, <1>2 DEF NoneTwice, n
<1>4. ASSUME NEW r, InQueue(r)'
      PROVE  InQueue(r) /\ r # Head(queue)
  <2>1. PICK i \in 1 .. n - 1 : queue[i + 1] = r
    BY <1>1, <1>2, <1>4 DEF InQueue
  <2>2. i + 1 \in 1 .. n /\ i + 1 # 1 /\ 1 \in 1 .. n
    BY <1>1, <2>1
  <2> QED
    BY <1>1, <2>1, <2>2, Zenon DEF InQueue, NoneTwice, n
<1>5. ASSUME NEW r, InQueue(r), r # Head(queue)
      PROVE  InQueue(r)'
  <2>1. PICK i \in 1 .. n : queue[i] = r
    BY <1>5, Zenon DEF InQueue, n
  <2>2. i # 1
    BY <1>1, <1>5, <2>1
  <2>3. i - 1 \in 1 .. n - 1 /\ (i - 1) + 1 = i
    BY <1>1, <2>1, <2>2
  <2>4. queue'[i - 1] = r
    BY <1>2, <2>1, <2>3
  <2> QED
    BY <1>2, <2>3, <2>4 DEF InQueue
<1>6. InQueue(Head(queue))
  BY <1>1 DEF InQueue, n
<1> QED
  BY <1>1, <1>3, <1>4, <1>5, <1>6, Zenon

LEMMA QueueAppend ==
  ASSUME queue \in Seq(Requests), NoneTwice,
         NEW r \in Requests, ~InQueue(r), queue' = Append(queue, r)
  PROVE  /\ NoneTwice'
         /\ \A x : InQueue(x)' <=> InQueue(x) \/ x = r
<1> DEFINE n == Len(queue)
<1>1. n \in Nat /\ Len(queue') = n + 1 /\ queue'[n + 1] = r
      /\ \A i \in 1 .. n : queue'[i] = queue[i]
  OBVIOUS
<1> HIDE DEF n
<1>2. \A i \in 1 .. n : queue[i] # r
  BY DEF InQueue, n
<1>3. \A i \in 1 .. n + 1 : i \in 1 .. n \/ i = n + 1
  BY <1>1
<1>4. 1 .. Len(queue') = 1 .. n + 1 /\ 1 .. n \subseteq 1 .. n + 1 /\ n + 1 \in 1 .. n + 1
  BY <1>1
<1>5. NoneTwice'
  BY <1>1, <1>2, <1>3, <1>4 DEF NoneTwice, n
<1>6. \A x : InQueue(x)' <=> InQueue(x) \/ x = r
  BY <1>1, <1>3, <1>4 DEF InQueue, n
<1> QED
  BY <1>5, <1>6

\* OneOwner in the terms of the three lemmas above.
LEMMA OneOwnerParts ==
  OneOwner <=>
    /\ \A r \in Requests : reply[r] = "pending" <=> InQueue(r) \/ InSlot(r)
    /\ NoneTwice
    /\ \A s, t \in SlotIds :
           IsBusy(s) /\ IsBusy(t) /\ slots[s].req = slots[t].req => s = t
    /\ \A r \in Requests : ~(InQueue(r) /\ InSlot(r))
BY DEF OneOwner, NoneTwice

\* Steps that neither answer nor move a request.
LEMMA OwnersSame ==
  ASSUME OneOwner, UNCHANGED <<queue, reply>>,
         \A s \in SlotIds : /\ IsBusy(s)' <=> IsBusy(s)
                            /\ IsBusy(s) => slots'[s].req = slots[s].req
  PROVE  OneOwner'
<1>1. \A r : (InQueue(r)' <=> InQueue(r)) /\ (InSlot(r)' <=> InSlot(r))
  BY DEF InQueue, InSlot
<1> QED
  BY <1>1 DEF OneOwner

LEMMA SlotsSame ==
  ASSUME slots' = slots
  PROVE  /\ \A r : InSlot(r)' <=> InSlot(r)
         /\ \A s \in SlotIds : IsBusy(s)' <=> IsBusy(s)
BY DEF InSlot, IsBusy

\* The head of the queue is answered: too long, or the worker stops.
LEMMA HeadAnsweredOwner ==
  ASSUME TypeOK, OneOwner, queue # <<>>, queue' = Tail(queue),
         NEW answer \in Answers, reply' = [reply EXCEPT ![Head(queue)] = answer],
         slots' = slots
  PROVE  OneOwner'
<1>1. queue \in Seq(Requests) /\ reply \in [Requests -> {"new", "pending"} \cup Answers]
  BY DEF TypeOK
<1>2. /\ NoneTwice'
      /\ \A r : InQueue(r)' <=> InQueue(r) /\ r # Head(queue)
      /\ InQueue(Head(queue)) /\ Head(queue) \in Requests
  BY <1>1, OneOwnerParts, QueueTail
<1>3. answer # "pending"
  BY DEF Answers
<1>4. reply'[Head(queue)] = answer
      /\ \A r \in Requests \ {Head(queue)} : reply'[r] = reply[r]
  BY <1>1, <1>2
<1> DEFINE h == Head(queue)
<1> HIDE DEF h
<1> QED
  BY <1>2, <1>3, <1>4, SlotsSame, OneOwnerParts DEF OneOwner, NoneTwice

\* A busy slot answers its request and is busy no longer.
LEMMA CompleteOwner ==
  ASSUME TypeOK, OneOwner, queue' = queue,
         NEW s \in SlotIds, IsBusy(s), slots[s].req \in Requests,
         NEW answer \in Answers, NEW history, NEW last,
         Complete(s, answer, history, last)
  PROVE  OneOwner'
<1>1. reply \in [Requests -> {"new", "pending"} \cup Answers] /\ slots \in [SlotIds -> Slot]
  BY DEF TypeOK
<1>2. reply' = [reply EXCEPT ![slots[s].req] = answer]
  BY Zenon DEF Complete
<1>3. /\ \A t \in SlotIds \ {s} : slots'[t] = slots[t]
      /\ ~IsBusy(s)'
  <2>1. \/ slots' = [slots EXCEPT ![s] = IdleSlot(slots[s].seq, TRUE, slots[s].session,
                                         history, clock + 1, Len(history), last)]
        \/ slots' = [slots EXCEPT ![s] = FreeSlot(last)]
    BY Zenon DEF Complete
  <2> QED
    BY <2>1, <1>1 DEF IsBusy, FreeSlot, IdleSlot, NoSeq
<1>4. \A t \in SlotIds \ {s} : IsBusy(t)' <=> IsBusy(t)
  BY <1>3 DEF IsBusy
<1>5. \A r \in Requests : InQueue(r)' <=> InQueue(r)
  BY DEF InQueue
<1>6. \A r \in Requests : InSlot(r)' <=> InSlot(r) /\ r # slots[s].req
  BY <1>3, <1>4 DEF InSlot, OneOwner
<1>7. InSlot(slots[s].req)
  BY DEF InSlot
<1>8. reply'[slots[s].req] = answer /\ answer # "pending"
      /\ \A r \in Requests \ {slots[s].req} : reply'[r] = reply[r]
  BY <1>1, <1>2 DEF Answers
<1>9. NoneTwice'
  BY OneOwnerParts DEF NoneTwice
<1>10. \A r \in Requests : reply'[r] = "pending" <=> InQueue(r)' \/ InSlot(r)'
  BY <1>5, <1>6, <1>7, <1>8 DEF OneOwner
<1>11. \A t, u \in SlotIds :
          IsBusy(t)' /\ IsBusy(u)' /\ slots'[t].req = slots'[u].req => t = u
  BY <1>3, <1>4 DEF OneOwner
<1>12. \A r \in Requests : ~(InQueue(r)' /\ InSlot(r)')
  BY <1>5, <1>6 DEF OneOwner
<1> QED
  BY <1>9, <1>10, <1>11, <1>12, OneOwnerParts DEF OneOwner, NoneTwice

\* The head of the queue moves to a slot.
LEMMA OccupyOwner ==
  ASSUME TypeOK, OneOwner, queue # <<>>,
         NEW s \in SlotIds, ~IsBusy(s), NEW n, Occupy(s, n)
  PROVE  OneOwner'
<1> DEFINE h == Head(queue)
<1>1. queue \in Seq(Requests) /\ slots \in [SlotIds -> Slot]
  BY DEF TypeOK
<1>2. queue' = Tail(queue) /\ reply' = reply
  BY DEF Occupy
<1>3. /\ NoneTwice'
      /\ \A r : InQueue(r)' <=> InQueue(r) /\ r # h
      /\ InQueue(h) /\ h \in Requests
  BY <1>1, <1>2, OneOwnerParts, QueueTail
<1>4. /\ \A t \in SlotIds \ {s} : slots'[t] = slots[t]
      /\ slots'[s].seq = s /\ ~slots'[s].warm /\ slots'[s].req = h
  BY <1>1, Zenon DEF Occupy
<1> HIDE DEF h
<1>5. IsBusy(s)' /\ \A t \in SlotIds \ {s} : IsBusy(t)' <=> IsBusy(t)
  BY <1>4 DEF IsBusy, SlotIds, NoSeq
<1>6. \A r \in Requests : InSlot(r)' <=> InSlot(r) \/ r = h
  BY <1>4, <1>5 DEF InSlot
<1>7. ~InSlot(h)
  BY <1>3 DEF OneOwner
<1>8. \A r \in Requests : reply'[r] = "pending" <=> InQueue(r)' \/ InSlot(r)'
  BY <1>2, <1>3, <1>6 DEF OneOwner
<1>9. \A t, u \in SlotIds :
          IsBusy(t)' /\ IsBusy(u)' /\ slots'[t].req = slots'[u].req => t = u
  BY <1>4, <1>5, <1>7 DEF OneOwner, InSlot
<1>10. \A r \in Requests : ~(InQueue(r)' /\ InSlot(r)')
  BY <1>3, <1>6 DEF OneOwner
<1> QED
  BY <1>3, <1>8, <1>9, <1>10 DEF OneOwner, NoneTwice

LEMMA SubmitOwner ==
  ASSUME TypeOK, OneOwner, NEW r \in Requests, SubmitRefused(r) \/ SubmitQueued(r)
  PROVE  OneOwner'
<1>1. /\ queue \in Seq(Requests) /\ reply \in [Requests -> {"new", "pending"} \cup Answers]
  BY DEF TypeOK
<1>2. reply[r] = "new" /\ slots' = slots
  BY DEF SubmitRefused, SubmitQueued
<1>3. ~InQueue(r) /\ ~InSlot(r)
  BY <1>2 DEF OneOwner
<1>4. CASE SubmitRefused(r)
  <2>1. queue' = queue /\ reply' = [reply EXCEPT ![r] = "Unavailable"]
    BY <1>4 DEF SubmitRefused
  <2>2. \A x : InQueue(x)' <=> InQueue(x)
    BY <2>1 DEF InQueue
  <2> QED
    BY <2>1, <2>2, <1>1, <1>2, <1>3, SlotsSame DEF OneOwner
<1>5. CASE SubmitQueued(r)
  <2>1. queue' = Append(queue, r) /\ reply' = [reply EXCEPT ![r] = "pending"]
    BY <1>5 DEF SubmitQueued
  <2>2. NoneTwice' /\ \A x : InQueue(x)' <=> InQueue(x) \/ x = r
    BY <2>1, <1>1, <1>3, QueueAppend, OneOwnerParts
  <2>3. \A x \in Requests : reply'[x] = "pending" <=> InQueue(x)' \/ InSlot(x)'
    BY <2>1, <2>2, <1>1, <1>2, SlotsSame DEF OneOwner
  <2> QED
    BY <2>2, <2>3, <1>2, <1>3, SlotsSame DEF OneOwner, NoneTwice
<1> QED
  BY <1>4, <1>5

LEMMA BuildOwner ==
  ASSUME TypeOK, OneOwner, Build
  PROVE  OneOwner'
<1>1. cursor \in SlotIds /\ slots \in [SlotIds -> Slot] /\ UNCHANGED <<queue, reply>>
  BY SchedulerAssumption, TypeFacts DEF Build, SlotIds
<1>2. \A s \in SlotIds : /\ slots'[s].seq = slots[s].seq /\ slots'[s].warm = slots[s].warm
                         /\ slots'[s].req = slots[s].req
  <2>1. CASE slots' = slots
    BY <2>1
  <2>2. ASSUME NEW i, NEW p, slots' = [slots EXCEPT ![cursor].iBatch = i, ![cursor].nPast = p]
        PROVE  \A s \in SlotIds : /\ slots'[s].seq = slots[s].seq
                                  /\ slots'[s].warm = slots[s].warm
                                  /\ slots'[s].req = slots[s].req
    BY <2>2, <1>1 DEF Slot
  <2> QED
    BY <2>1, <2>2, Zenon DEF Build, BuildPrefill, BuildLastAgain, BuildDecode, BuildSkip,
       AddTokens
<1> QED
  BY <1>1, <1>2, OwnersSame DEF IsBusy

LEMMA SampleTokenOwner ==
  ASSUME IInv, OneOwner, NEW s \in SlotIds, NEW t \in Tokens, NEW stop \in BOOLEAN,
         SampleToken(s, t, stop)
  PROVE  OneOwner'
<1> DEFINE maxHit  == slots[s].nDecoded + 1 >= MaxNew[slots[s].req]
<1>1. /\ IsBusy(s) /\ queue' = queue
  BY Zenon DEF SampleToken, IsFirst, InChunk
<1>2. slots[s].req \in Requests /\ slots \in [SlotIds -> Slot]
  BY <1>1 DEF IInv, SlotShape, TypeOK
<1>3. CASE stop \/ maxHit
  <2>1. Complete(s, IF maxHit THEN "length" ELSE "stop", Append(slots[s].cached, t), t)
    BY <1>3, Zenon DEF SampleToken
  <2> HIDE DEF maxHit
  <2>2. (IF maxHit THEN "length" ELSE "stop") \in Answers
    BY Zenon DEF Answers
  <2> QED
    BY <2>1, <2>2, <1>1, <1>2, CompleteOwner DEF IInv
<1>4. CASE ~(stop \/ maxHit)
  <2>1. /\ slots' = [slots EXCEPT ![s].cached = Append(slots[s].cached, t),
                                  ![s].nDecoded = @ + 1,
                                  ![s].sampled = t, ![s].pending = <<>>,
                                  ![s].prefilled = TRUE, ![s].iBatch = -1]
        /\ reply' = reply
    BY <1>4, Zenon DEF SampleToken
  <2>2. \A u \in SlotIds : /\ slots'[u].seq = slots[u].seq /\ slots'[u].warm = slots[u].warm
                           /\ slots'[u].req = slots[u].req
    BY <2>1, <1>2 DEF Slot
  <2> QED
    BY <2>1, <2>2, <1>1, OwnersSame DEF IsBusy
<1> QED
  BY <1>3, <1>4

LEMMA CompletingOwner ==
  ASSUME IInv, OneOwner, NEW s \in SlotIds, FailSlot(s) \/ DrainBusy(s) \/ SampleEog(s)
  PROVE  OneOwner'
<1>1. IsBusy(s) /\ queue' = queue
  BY DEF FailSlot, DrainBusy, SampleEog, IsFirst, Failed, InChunk
<1>2. slots[s].req \in Requests /\ TypeOK
  BY <1>1 DEF IInv, SlotShape
<1>3. \E answer \in Answers : \E history, last : Complete(s, answer, history, last)
  BY Zenon DEF FailSlot, DrainBusy, SampleEog, Answers
<1> QED
  BY <1>1, <1>2, <1>3, CompleteOwner

LEMMA DrainWarmOwner ==
  ASSUME TypeOK, OneOwner, NEW s \in SlotIds, DrainWarm(s)
  PROVE  OneOwner'
<1>1. slots \in [SlotIds -> Slot] /\ ~IsBusy(s) /\ UNCHANGED <<queue, reply>>
  BY DEF TypeOK, DrainWarm, IsBusy, IsWarm
<1>2. slots' = [slots EXCEPT ![s] = IdleSlot(NoSeq, FALSE, None, <<>>, slots[s].cachedAt,
                                            slots[s].nPast, slots[s].sampled)]
  BY DEF DrainWarm
<1>3. slots'[s].seq = NoSeq /\ \A t \in SlotIds \ {s} : slots'[t] = slots[t]
  BY <1>1, <1>2 DEF IdleSlot
<1> QED
  BY <1>1, <1>3, OwnersSame DEF IsBusy

LEMMA NextOwner == IInv /\ OneOwner /\ [Next]_vars => OneOwner'
<1> SUFFICES ASSUME IInv, OneOwner, [Next]_vars PROVE OneOwner'
  OBVIOUS
<1>0. TypeOK
  BY DEF IInv
<1>1. ASSUME NEW s \in SlotIds, AdmitReuse(s) \/ AdmitFree(s) \/ AdmitEvict(s)
      PROVE  OneOwner'
  <2>1. queue # <<>> /\ ~IsBusy(s)
    BY <1>1 DEF AdmitReuse, AdmitFree, AdmitEvict, HeadAdmissible, Reusable, SessionSlot,
       IsFirst, IsWarm, IsFree, IsBusy
  <2>2. \E n : Occupy(s, n)
    BY <1>1, Zenon DEF AdmitReuse, AdmitFree, AdmitEvict
  <2> QED
    BY <2>1, <2>2, <1>0, OccupyOwner
<1>2. CASE RejectHead
  BY <1>2, <1>0, HeadAnsweredOwner DEF RejectHead, Answers
<1>3. CASE DrainQueue
  BY <1>3, <1>0, HeadAnsweredOwner DEF DrainQueue, Answers
<1>4. CASE UNCHANGED <<queue, reply, slots>>
  BY <1>4, OwnersSame, SlotsSame
<1>5. StartAdmit \/ AdmitDone => UNCHANGED <<queue, reply, slots>>
  BY Zenon DEF StartAdmit, AdmitDone
<1>6. BuildDone \/ DecodeOk \/ DecodeRetry \/ DecodeFail => UNCHANGED <<queue, reply, slots>>
  BY Zenon DEF BuildDone, DecodeOk, DecodeRetry, DecodeFail
<1>7. FailDone \/ ChunkDone \/ LeaveLoop => UNCHANGED <<queue, reply, slots>>
  BY Zenon DEF FailDone, ChunkDone, LeaveLoop
<1>8. DrainSlotsDone \/ DrainQueueDone \/ Shutdown => UNCHANGED <<queue, reply, slots>>
  BY Zenon DEF DrainSlotsDone, DrainQueueDone, Shutdown
<1>9. Terminated \/ UNCHANGED vars => UNCHANGED <<queue, reply, slots>>
  BY Zenon DEF Terminated, vars
<1>10. CASE \E r \in Requests : SubmitRefused(r) \/ SubmitQueued(r)
  BY <1>0, <1>10, SubmitOwner, Zenon
<1>11. CASE Admit
  BY <1>1, <1>2, <1>4, <1>5, <1>11, Zenon DEF Admit
<1>12. CASE Build
  BY <1>0, <1>12, BuildOwner, Zenon
<1>13. CASE Decode
  BY <1>4, <1>6, <1>7, <1>13, CompletingOwner, Zenon DEF Decode
<1>14. CASE Sample
  BY <1>4, <1>7, <1>14, CompletingOwner, SampleTokenOwner, Zenon DEF Sample
<1>15. CASE Drain
  BY <1>0, <1>3, <1>4, <1>7, <1>8, <1>15, CompletingOwner, DrainWarmOwner, Zenon DEF Drain
<1> QED
  BY <1>4, <1>6, <1>8, <1>9, <1>10, <1>11, <1>12, <1>13, <1>14, <1>15, Zenon
     DEF Next, Worker

LEMMA OwnerInit == Init => OneOwner
  BY DEF Init, OneOwner, InQueue, InSlot, IsBusy, FreeSlot, IdleSlot, NoSeq

\* No promise is lost, answered twice or held by two slots, in every reachable
\* state of submit, try_admit_pending, complete_slot and the drain: see OneOwner.
THEOREM OwnerUnique == Spec => []OneOwner
<1> QED
  BY OwnerInit, InitIInv, NextIInv, NextOwner, PTL DEF Spec

-----------------------------------------------------------------------------
(* The scheduler implements GenerateService *)

\* The requests in progress.
BusySlots == {t \in SlotIds : IsBusy(t)}
Active == {slots[s].req : s \in BusySlots}

\* submit never lets the queue outgrow max_queue_, and the worker drains only
\* after the destructor has cleared running_.
Bounded ==
    /\ Len(queue) <= MaxQueue
    /\ pc \in {"drainSlots", "drainQueue", "done"} => ~running

LEMMA BoundedNext ==
  ASSUME TypeOK, Bounded, [Next]_vars PROVE Bounded'
<1>1. queue \in Seq(Requests) /\ Len(queue) \in Nat /\ MaxQueue \in Nat /\ running \in BOOLEAN
  BY SchedulerAssumption DEF TypeOK
<1>2. /\ UNCHANGED <<queue, running>> => Len(queue') <= MaxQueue
      /\ UNCHANGED <<pc, running>> => (pc' \in {"drainSlots", "drainQueue", "done"} => ~running')
  BY DEF Bounded
<1>3. ASSUME queue # <<>>, queue' = Tail(queue) PROVE Len(queue') <= MaxQueue
  BY <1>1, <1>3 DEF Bounded
<1>4. CASE \E r \in Requests : SubmitRefused(r) \/ SubmitQueued(r)
  <2>1. UNCHANGED <<pc, running>>
    BY <1>4 DEF SubmitRefused, SubmitQueued
  <2>2. Len(queue') <= MaxQueue
    BY <1>1, <1>4 DEF SubmitRefused, SubmitQueued, Bounded
  <2> QED BY <1>2, <2>1, <2>2 DEF Bounded
<1>5. CASE Shutdown
  BY <1>5 DEF Shutdown, Bounded
<1>6. CASE Admit
  <2>1. ASSUME NEW s \in SlotIds, AdmitReuse(s) \/ AdmitFree(s) \/ AdmitEvict(s)
        PROVE  queue # <<>> /\ queue' = Tail(queue) /\ UNCHANGED <<pc, running>>
    BY <2>1, Zenon DEF AdmitReuse, AdmitFree, AdmitEvict, HeadAdmissible, Occupy
  <2>2. RejectHead => queue # <<>> /\ queue' = Tail(queue) /\ UNCHANGED <<pc, running>>
    BY DEF RejectHead
  <2>3. ASSUME StartAdmit \/ AdmitDone
        PROVE  UNCHANGED <<queue, running>> /\ pc' \in {"admit", "build", "top"}
    BY <2>3 DEF StartAdmit, AdmitDone
  <2> QED BY <1>2, <1>3, <1>6, <2>1, <2>2, <2>3 DEF Admit, Bounded
<1>7. CASE Build \/ BuildDone
  <2>1. UNCHANGED <<queue, running>> /\ pc' \in {"build", "top", "decode"}
    BY <1>7 DEF Build, BuildDone
  <2> QED BY <1>2, <2>1 DEF Bounded
<1>8. CASE Decode
  <2>1. ASSUME NEW s \in SlotIds, FailSlot(s) PROVE UNCHANGED <<queue, running>> /\ pc' = "fail"
    BY <2>1 DEF FailSlot
  <2>2. ASSUME DecodeOk \/ DecodeRetry \/ DecodeFail \/ FailDone
        PROVE  UNCHANGED <<queue, running>> /\ pc' \in {"sample", "decode", "fail", "top"}
    BY <2>2 DEF DecodeOk, DecodeRetry, DecodeFail, FailDone
  <2> QED BY <1>2, <1>8, <2>1, <2>2 DEF Bounded, Decode
<1>9. CASE Sample
  <2>1. ASSUME NEW s \in SlotIds, SampleEog(s) PROVE UNCHANGED <<queue, running>> /\ pc' = "sample"
    BY <2>1 DEF SampleEog
  <2>2. ASSUME NEW s \in SlotIds, NEW t \in Tokens, NEW stop \in BOOLEAN, SampleToken(s, t, stop)
        PROVE  UNCHANGED <<queue, running>> /\ pc' = "sample"
    BY <2>2, Zenon DEF SampleToken
  <2>3. ASSUME ChunkDone
        PROVE  UNCHANGED <<queue, running>> /\ pc' \in {"decode", "top"}
    BY <2>3 DEF ChunkDone
  <2> QED BY <1>2, <1>9, <2>1, <2>2, <2>3 DEF Bounded, Sample
<1>10. CASE Drain
  <2>1. ASSUME NEW s \in SlotIds, DrainBusy(s) \/ DrainWarm(s)
        PROVE  UNCHANGED <<queue, pc, running>>
    BY <2>1, Zenon DEF DrainBusy, DrainWarm
  <2>2. LeaveLoop => UNCHANGED <<queue, running>> /\ ~running
    BY DEF LeaveLoop
  <2>3. DrainSlotsDone \/ DrainQueueDone
           => UNCHANGED <<queue, running>> /\ pc \in {"drainSlots", "drainQueue"}
    BY DEF DrainSlotsDone, DrainQueueDone
  <2>4. DrainQueue => queue # <<>> /\ queue' = Tail(queue) /\ UNCHANGED <<pc, running>>
    BY DEF DrainQueue
  <2> QED BY <1>2, <1>3, <1>10, <2>1, <2>2, <2>3, <2>4 DEF Bounded, Drain
<1>11. CASE Terminated \/ UNCHANGED vars
  BY <1>11, <1>2 DEF Terminated, vars, Bounded
<1> QED
  BY <1>4, <1>5, <1>6, <1>7, <1>8, <1>9, <1>10, <1>11 DEF Next, Worker

LEMMA BoundedInit == Init => Bounded
  BY SchedulerAssumption DEF Init, Bounded

\* Steps of the worker that move no request are stutters of the service.
Still == UNCHANGED <<queue, reply, running>> /\ Active' = Active

LEMMA StillStutters ==
  ASSUME Still PROVE UNCHANGED Service!svars
  BY DEF Still, Service!svars, Active, BusySlots

LEMMA ActiveSame ==
  ASSUME \A s \in SlotIds : /\ IsBusy(s)' <=> IsBusy(s)
                            /\ IsBusy(s) => slots'[s].req = slots[s].req
  PROVE  Active' = Active
  BY DEF Active, BusySlots

LEMMA ActiveUnchanged ==
  ASSUME slots' = slots PROVE Active' = Active
  BY DEF Active, BusySlots, IsBusy

LEMMA SubmitImplements ==
  ASSUME TypeOK, Bounded, NEW r \in Requests, SubmitRefused(r) \/ SubmitQueued(r)
  PROVE  Service!Next
<1>1. Active' = Active
  BY ActiveUnchanged DEF SubmitRefused, SubmitQueued
<1>2. SubmitQueued(r) => Service!Accept(r)
  BY <1>1 DEF SubmitQueued, Service!Accept, Active, BusySlots
<1>3. SubmitRefused(r) => Len(queue) = MaxQueue
  BY SchedulerAssumption DEF TypeOK, Bounded, SubmitRefused
<1>4. SubmitRefused(r) => Service!Refuse(r)
  BY <1>1, <1>3 DEF SubmitRefused, Service!Refuse, Active, BusySlots
<1> QED
  BY <1>2, <1>4 DEF Service!Next

LEMMA ShutdownImplements ==
  ASSUME Shutdown PROVE Service!Next
<1>1. Active' = Active
  BY ActiveUnchanged DEF Shutdown
<1>2. Service!Stop
  BY <1>1 DEF Shutdown, Service!Stop, Active, BusySlots
<1> QED
  BY <1>2 DEF Service!Next

\* The oldest request is turned down: its prompt is empty or too long, or the
\* worker drains the queue.
LEMMA TurnDownImplements ==
  ASSUME Bounded, RejectHead \/ DrainQueue PROVE Service!Next
<1>1. Active' = Active
  BY ActiveUnchanged DEF RejectHead, DrainQueue
<1>2. RejectHead => Service!TurnDown
  BY <1>1 DEF RejectHead, Service!TurnDown, Active, BusySlots
<1>3. DrainQueue => Service!TurnDown
  BY <1>1 DEF DrainQueue, Bounded, Service!TurnDown, Active, BusySlots
<1> QED
  BY <1>2, <1>3 DEF Service!Next

\* With a slot that is not busy there are fewer than MaxSeqs requests in progress.
LEMMA RoomForOne ==
  ASSUME NEW s \in SlotIds, ~IsBusy(s)
  PROVE  Cardinality(Active) < MaxSeqs
<1>1. IsFiniteSet(SlotIds) /\ Cardinality(SlotIds) = MaxSeqs
  BY SchedulerAssumption, FS_Interval DEF SlotIds
<1>2. /\ IsFiniteSet(SlotIds \ {s})
      /\ Cardinality(SlotIds \ {s}) = MaxSeqs - 1
  BY <1>1, FS_RemoveElement
<1>3. BusySlots \in SUBSET (SlotIds \ {s})
  BY DEF BusySlots
<1>4. IsFiniteSet(BusySlots) /\ Cardinality(BusySlots) <= MaxSeqs - 1
  BY <1>2, <1>3, FS_Subset
<1>5. [t \in BusySlots |-> slots[t].req] \in Surjection(BusySlots, Active)
  BY DEF Surjection, Active
<1>6. IsFiniteSet(Active) /\ Cardinality(Active) <= Cardinality(BusySlots)
  BY <1>4, <1>5, FS_Surjection
<1> QED
  BY <1>4, <1>6, FS_CardinalityType, SchedulerAssumption

\* The instance has its own copy of FiniteSets.
LEMMA SameCardinality ==
  ASSUME NEW S PROVE Service!Cardinality(S) = Cardinality(S)
  BY Zenon DEF Service!Cardinality, Cardinality

LEMMA OccupyImplements ==
  ASSUME TypeOK, queue # <<>>, NEW s \in SlotIds, ~IsBusy(s), NEW n, Occupy(s, n)
  PROVE  Service!Next
<1> DEFINE h == Head(queue)
<1>1. slots \in [SlotIds -> Slot]
  BY DEF TypeOK
<1>2. queue' = Tail(queue) /\ reply' = reply /\ running' = running
  BY DEF Occupy
<1>3. /\ \A t \in SlotIds \ {s} : slots'[t] = slots[t]
      /\ slots'[s].seq = s /\ ~slots'[s].warm /\ slots'[s].req = h
  BY <1>1, Zenon DEF Occupy
<1> HIDE DEF h
<1>4. IsBusy(s)' /\ \A t \in SlotIds \ {s} : IsBusy(t)' <=> IsBusy(t)
  BY <1>3 DEF IsBusy, SlotIds, NoSeq
<1>5. Active' = Active \cup {h}
  BY <1>3, <1>4 DEF Active, BusySlots
<1>6. Service!Cardinality(Active) < MaxSeqs
  BY RoomForOne, SameCardinality
<1>7. Service!Start
  BY <1>2, <1>5, <1>6 DEF Service!Start, Active, BusySlots, h
<1> QED
  BY <1>7 DEF Service!Next

\* A busy slot answers its request; "Unavailable" only when the service stops.
LEMMA CompleteFinishes ==
  ASSUME TypeOK, OneOwner, NEW s \in SlotIds, IsBusy(s),
         NEW r \in Requests, slots[s].req = r,
         NEW answer \in {"stop", "length", "InternalError"}
                            \cup (IF running THEN {} ELSE {"Unavailable"}),
         NEW history, NEW last, Complete(s, answer, history, last),
         UNCHANGED <<queue, running>>
  PROVE  Service!Finish(r)
<1>1. slots \in [SlotIds -> Slot]
  BY DEF TypeOK
<1>2. reply' = [reply EXCEPT ![r] = answer]
  BY Zenon DEF Complete
<1>3. /\ \A t \in SlotIds \ {s} : slots'[t] = slots[t]
      /\ ~IsBusy(s)'
  <2>1. \/ slots' = [slots EXCEPT ![s] = IdleSlot(slots[s].seq, TRUE, slots[s].session,
                                         history, clock + 1, Len(history), last)]
        \/ slots' = [slots EXCEPT ![s] = FreeSlot(last)]
    BY Zenon DEF Complete
  <2> QED
    BY <2>1, <1>1 DEF IsBusy, FreeSlot, IdleSlot, NoSeq
<1>4. \A t \in SlotIds \ {s} : IsBusy(t)' <=> IsBusy(t)
  BY <1>3 DEF IsBusy
<1>5. \A t \in BusySlots : t # s => slots[t].req # r
  BY DEF OneOwner, BusySlots
<1>6. r \in Active
  BY DEF Active, BusySlots
<1>7. BusySlots' = BusySlots \ {s} /\ s \in BusySlots
  BY <1>3, <1>4 DEF BusySlots
<1>8. \A t \in BusySlots' : slots'[t] = slots[t]
  BY <1>3, <1>7 DEF BusySlots
<1>9. Active' = Active \ {r}
  BY <1>5, <1>7, <1>8 DEF Active
<1> QED
  BY <1>2, <1>6, <1>9 DEF Service!Finish, Active, BusySlots

LEMMA CompleteImplements ==
  ASSUME IInv, OneOwner, NEW s \in SlotIds, IsBusy(s),
         NEW answer \in {"stop", "length", "InternalError"}
                            \cup (IF running THEN {} ELSE {"Unavailable"}),
         NEW history, NEW last, Complete(s, answer, history, last),
         UNCHANGED <<queue, running>>
  PROVE  Service!Next
<1>1. PICK r \in Requests : slots[s].req = r
  BY DEF IInv, SlotShape
<1>2. Service!Finish(r)
  BY <1>1, CompleteFinishes DEF IInv
<1> QED
  BY <1>2, Zenon DEF Service!Next

LEMMA AnsweringImplements ==
  ASSUME IInv, OneOwner, Bounded, NEW s \in SlotIds,
         FailSlot(s) \/ DrainBusy(s) \/ SampleEog(s)
  PROVE  Service!Next
<1>1. IsBusy(s) /\ UNCHANGED <<queue, running>>
  BY DEF FailSlot, DrainBusy, SampleEog, IsFirst, Failed, InChunk
<1>2. DrainBusy(s) => ~running
  BY DEF DrainBusy, Bounded
<1>3. \E answer \in {"stop", "length", "InternalError"}
                      \cup (IF running THEN {} ELSE {"Unavailable"}) :
          \E history, last : Complete(s, answer, history, last)
  <2>1. CASE FailSlot(s)
    <3>1. Complete(s, "InternalError", slots[s].cached, slots[s].sampled)
      BY <2>1 DEF FailSlot
    <3> QED BY <3>1
  <2>2. CASE DrainBusy(s)
    <3>1. Complete(s, "Unavailable", slots[s].cached, slots[s].sampled)
      BY <2>2 DEF DrainBusy
    <3> QED BY <3>1, <2>2, <1>2
  <2>3. CASE SampleEog(s)
    <3>1. Complete(s, "stop", slots[s].cached, Eog)
      BY <2>3 DEF SampleEog
    <3> QED BY <3>1
  <2> QED BY <2>1, <2>2, <2>3
<1> QED
  BY <1>1, <1>3, CompleteImplements

LEMMA SampleTokenImplements ==
  ASSUME IInv, OneOwner, NEW s \in SlotIds, NEW t \in Tokens, NEW stop \in BOOLEAN,
         SampleToken(s, t, stop)
  PROVE  Service!Next \/ Still
<1> DEFINE maxHit == slots[s].nDecoded + 1 >= MaxNew[slots[s].req]
<1>1. IsBusy(s) /\ UNCHANGED <<queue, running>>
  BY Zenon DEF SampleToken, IsFirst, InChunk
<1>2. slots \in [SlotIds -> Slot]
  BY DEF IInv, TypeOK
<1>3. CASE stop \/ maxHit
  <2>1. Complete(s, IF maxHit THEN "length" ELSE "stop", Append(slots[s].cached, t), t)
    BY <1>3, Zenon DEF SampleToken
  <2>2. (IF maxHit THEN "length" ELSE "stop") \in {"stop", "length", "InternalError"}
    OBVIOUS
  <2> HIDE DEF maxHit
  <2> QED
    BY <2>1, <2>2, <1>1, CompleteImplements
<1>4. CASE ~(stop \/ maxHit)
  <2>1. /\ slots' = [slots EXCEPT ![s].cached = Append(slots[s].cached, t),
                                  ![s].nDecoded = @ + 1,
                                  ![s].sampled = t, ![s].pending = <<>>,
                                  ![s].prefilled = TRUE, ![s].iBatch = -1]
        /\ reply' = reply
    BY <1>4, Zenon DEF SampleToken
  <2>2. \A u \in SlotIds : /\ slots'[u].seq = slots[u].seq /\ slots'[u].warm = slots[u].warm
                           /\ slots'[u].req = slots[u].req
    BY <2>1, <1>2 DEF Slot
  <2>3. Active' = Active
    BY <2>2, ActiveSame DEF IsBusy
  <2> QED
    BY <2>1, <2>3, <1>1 DEF Still
<1> QED
  BY <1>3, <1>4

LEMMA BuildImplements ==
  ASSUME TypeOK, Build PROVE Still
<1>1. cursor \in SlotIds /\ slots \in [SlotIds -> Slot] /\ UNCHANGED <<queue, reply, running>>
  BY SchedulerAssumption, TypeFacts DEF Build, SlotIds
<1>2. \A s \in SlotIds : /\ slots'[s].seq = slots[s].seq /\ slots'[s].warm = slots[s].warm
                         /\ slots'[s].req = slots[s].req
  <2>1. CASE slots' = slots
    BY <2>1
  <2>2. ASSUME NEW i, NEW p, slots' = [slots EXCEPT ![cursor].iBatch = i, ![cursor].nPast = p]
        PROVE  \A s \in SlotIds : /\ slots'[s].seq = slots[s].seq
                                  /\ slots'[s].warm = slots[s].warm
                                  /\ slots'[s].req = slots[s].req
    BY <2>2, <1>1 DEF Slot
  <2> QED
    BY <2>1, <2>2, Zenon DEF Build, BuildPrefill, BuildLastAgain, BuildDecode, BuildSkip,
       AddTokens
<1>3. Active' = Active
  BY <1>2, ActiveSame DEF IsBusy
<1> QED
  BY <1>1, <1>3 DEF Still

LEMMA DrainWarmImplements ==
  ASSUME TypeOK, NEW s \in SlotIds, DrainWarm(s) PROVE Still
<1>1. slots \in [SlotIds -> Slot] /\ ~IsBusy(s) /\ UNCHANGED <<queue, reply, running>>
  BY DEF TypeOK, DrainWarm, IsBusy, IsWarm
<1>2. slots' = [slots EXCEPT ![s] = IdleSlot(NoSeq, FALSE, None, <<>>, slots[s].cachedAt,
                                            slots[s].nPast, slots[s].sampled)]
  BY DEF DrainWarm
<1>3. slots'[s].seq = NoSeq /\ \A t \in SlotIds \ {s} : slots'[t] = slots[t]
  BY <1>1, <1>2 DEF IdleSlot
<1>4. Active' = Active
  BY <1>1, <1>3, ActiveSame DEF IsBusy
<1> QED
  BY <1>1, <1>4 DEF Still

\* Every step of the scheduler is a step of the service or a stutter.
LEMMA NextImplements ==
  ASSUME IInv, OneOwner, Bounded, [Next]_vars
  PROVE  [Service!Next]_(Service!svars)
<1> SUFFICES Service!Next \/ Still
  BY StillStutters
<1>0. TypeOK
  BY DEF IInv
<1>1. ASSUME NEW s \in SlotIds, AdmitReuse(s) \/ AdmitFree(s) \/ AdmitEvict(s)
      PROVE  Service!Next
  <2>1. queue # <<>> /\ ~IsBusy(s)
    BY <1>1 DEF AdmitReuse, AdmitFree, AdmitEvict, HeadAdmissible, Reusable, SessionSlot,
       IsFirst, IsWarm, IsFree, IsBusy
  <2>2. \E n : Occupy(s, n)
    BY <1>1, Zenon DEF AdmitReuse, AdmitFree, AdmitEvict
  <2> QED
    BY <2>1, <2>2, <1>0, OccupyImplements
<1>2. UNCHANGED <<queue, reply, slots, running>> => Still
  BY ActiveUnchanged DEF Still
<1>3. StartAdmit \/ AdmitDone => Still
  BY <1>2 DEF StartAdmit, AdmitDone
<1>4. BuildDone \/ DecodeOk \/ DecodeRetry \/ DecodeFail => Still
  BY <1>2 DEF BuildDone, DecodeOk, DecodeRetry, DecodeFail
<1>5. FailDone \/ ChunkDone \/ LeaveLoop => Still
  BY <1>2 DEF FailDone, ChunkDone, LeaveLoop
<1>6. DrainSlotsDone \/ DrainQueueDone => Still
  BY <1>2 DEF DrainSlotsDone, DrainQueueDone
<1>7. Terminated \/ UNCHANGED vars => Still
  BY <1>2 DEF Terminated, vars
<1>8. CASE \E r \in Requests : SubmitRefused(r) \/ SubmitQueued(r)
  BY <1>0, <1>8, SubmitImplements, Zenon
<1>9. CASE Shutdown
  BY <1>9, ShutdownImplements
<1>10. CASE Admit
  BY <1>1, <1>3, <1>10, TurnDownImplements, Zenon DEF Admit
<1>11. CASE Build \/ BuildDone
  BY <1>0, <1>4, <1>11, BuildImplements, Zenon
<1>12. CASE Decode
  BY <1>4, <1>5, <1>12, AnsweringImplements, Zenon DEF Decode
<1>13. CASE Sample
  BY <1>5, <1>13, AnsweringImplements, SampleTokenImplements, Zenon DEF Sample
<1>14. CASE Drain
  BY <1>0, <1>5, <1>6, <1>14, AnsweringImplements, TurnDownImplements, DrainWarmImplements,
     Zenon DEF Drain
<1> QED
  BY <1>7, <1>8, <1>9, <1>10, <1>11, <1>12, <1>13, <1>14, Zenon DEF Next, Worker

LEMMA InitImplements == Init => Service!Init
<1> SUFFICES ASSUME Init PROVE Service!Init
  OBVIOUS
<1>1. \A s \in SlotIds : ~IsBusy(s)
  BY DEF Init, IsBusy, FreeSlot, IdleSlot
<1>2. Active = {}
  BY <1>1 DEF Active, BusySlots
<1> QED
  BY <1>2 DEF Init, Service!Init, Active, BusySlots

\* submit, try_admit_pending, complete_slot and the drain give every caller what
\* GenerateService promises, whatever slots, batches, chunks and KV cells do in
\* between: requests start or are turned down in the order submit accepted them,
\* max_queue_ wait and max_seqs_ run at most, a full queue refuses and an accepted
\* request never, "Unavailable" is answered only by a full queue or a stopped
\* scheduler, and a reply never changes.
THEOREM ServiceImplemented == Spec => ImplementsService
<1> DEFINE Inv == IInv /\ OneOwner /\ Bounded
<1>1. Init => Inv
  BY InitIInv, OwnerInit, BoundedInit
<1>2. Inv /\ [Next]_vars => Inv'
  BY NextIInv, NextOwner, BoundedNext DEF IInv
<1>3. Init => Service!Init
  BY InitImplements
<1>4. Inv /\ [Next]_vars => [Service!Next]_(Service!svars)
  BY NextImplements
<1> QED
  BY <1>1, <1>2, <1>3, <1>4, PTL DEF Spec, ImplementsService, Service!Spec

-----------------------------------------------------------------------------
(* Every sample sees its history, unless a session's cells were reused *)

HasCell(s, p) == \E c \in kv[s] : c[1] = p
Awaited(s, p) ==
    \E i \in 1 .. Len(batch) : i > Undecoded /\ batch[i].seq = s /\ batch[i].pos = p

\* Each position below n_past has a cell or, while the slot waits for logits,
\* a token of the batch that is still to be decoded.  A decode that failed may
\* leave gaps, in slots that fail next.
Covered(s) ==
    Fresh(s) =>
        /\ slots[s].iBatch = -1 => \A p \in 0 .. slots[s].nPast - 1 : HasCell(s, p)
        /\ slots[s].iBatch # -1 /\ pc # "fail" =>
               \A p \in 0 .. slots[s].nPast - 1 : HasCell(s, p) \/ Awaited(s, p)

Stamped(s) == IsWarm(s) => slots[s].cachedAt # 0

HistInv == \A s \in SlotIds : Covered(s) /\ Stamped(s)

LEMMA SeesCells ==
  ASSUME IInv, HistInv, pc = "sample", NEW s \in SlotIds, InChunk(s), Fresh(s)
  PROVE  \A p \in 0 .. slots[s].nPast - 1 : HasCell(s, p)
<1>1. /\ slots[s] \in Slot /\ chunkStart \in Nat /\ chunkLen \in Nat
      /\ \A i \in 1 .. Len(batch) : batch[i] \in Entry
  BY TypeFacts DEF IInv
<1>2. slots[s].iBatch \in Nat /\ slots[s].iBatch < chunkStart + chunkLen
  BY <1>1 DEF InChunk, Slot
<1>3. ASSUME NEW p, Awaited(s, p) PROVE FALSE
  <2>1. PICK i \in 1 .. Len(batch) : i > chunkStart + chunkLen /\ batch[i].seq = s
    BY <1>3 DEF Awaited, Undecoded
  <2>2. slots[s].iBatch >= i - 1
    BY <2>1 DEF IInv, BatchShape, Undecoded
  <2> QED
    BY <2>1, <2>2, <1>1, <1>2
<1>4. slots[s].iBatch # -1
  BY <1>2
<1> QED
  BY <1>3, <1>4 DEF HistInv, Covered

LEMMA SeesHistory ==
  ASSUME IInv, HistInv PROVE FreshSeesHistory
<1> SUFFICES ASSUME pc = "sample", NEW s \in SlotIds, InChunk(s), Fresh(s)
             PROVE  {c[1] : c \in kv[s]} = 0 .. Len(slots[s].cached) - 1
  BY DEF FreshSeesHistory
<1>1. /\ slots[s] \in Slot /\ kv[s] \in SUBSET (Nat \X Tokens) /\ chunkStart \in Nat
  BY TypeFacts DEF IInv
<1>2. slots[s].iBatch # -1 /\ slots[s].cached \in Seq(Tokens)
  BY <1>1 DEF InChunk, Slot
<1>3. slots[s].nPast = Len(slots[s].cached)
  BY <1>2 DEF InChunk, IInv, SlotShape
<1>4. \A c \in kv[s] : c[1] \in Nat /\ c[1] < Len(slots[s].cached)
  BY <1>1 DEF IInv, KVMatchesTokens
<1>5. \A p \in 0 .. Len(slots[s].cached) - 1 : \E c \in kv[s] : c[1] = p
  BY <1>3, SeesCells DEF HasCell
<1> QED
  BY <1>2, <1>4, <1>5

-----------------------------------------------------------------------------
(* The steps *)

\* Slots a step leaves alone.
LEMMA SlotKept ==
  ASSUME NEW s \in SlotIds, Covered(s), Stamped(s),
         slots'[s] = slots[s], kv[s] \subseteq kv'[s],
         slots[s].iBatch # -1 /\ pc' # "fail" =>
             pc # "fail" /\ \A p : Awaited(s, p) => Awaited(s, p)' \/ HasCell(s, p)'
  PROVE  Covered(s)' /\ Stamped(s)'
<1>1. (Fresh(s)' <=> Fresh(s)) /\ (IsWarm(s)' <=> IsWarm(s))
  BY DEF Fresh, IsBusy, IsWarm
<1>2. \A p : HasCell(s, p) => HasCell(s, p)'
  BY DEF HasCell
<1>3. Stamped(s)'
  BY <1>1 DEF Stamped
<1>4. CASE slots[s].iBatch = -1
  BY <1>1, <1>2, <1>3, <1>4 DEF Covered
<1>5. CASE slots[s].iBatch # -1
  BY <1>1, <1>2, <1>3, <1>5 DEF Covered
<1> QED
  BY <1>4, <1>5

\* Slots a step takes out of work.
LEMMA SlotLeft ==
  ASSUME NEW s \in SlotIds, ~IsBusy(s)', IsWarm(s)' => slots'[s].cachedAt # 0
  PROVE  Covered(s)' /\ Stamped(s)'
BY DEF Covered, Stamped, Fresh

\* The batch still waits for what it waited for.
LEMMA StillAwaited ==
  ASSUME batch' = batch, Undecoded' = Undecoded, NEW s
  PROVE  \A p : Awaited(s, p) => Awaited(s, p)'
BY DEF Awaited

LEMMA QuietHist ==
  ASSUME HistInv, UNCHANGED <<slots, kv, batch, chunkStart, chunkLen, pc>>
  PROVE  HistInv'
<1>1. Undecoded' = Undecoded
  BY DEF Undecoded
<1> QED
  BY <1>1, StillAwaited, SlotKept DEF HistInv

\* The worker moves on with no slot in the batch.
LEMMA UnloadedHist ==
  ASSUME HistInv, UNCHANGED <<slots, kv>>, \A s \in SlotIds : slots[s].iBatch = -1
  PROVE  HistInv'
BY SlotKept DEF HistInv

LEMMA CompleteHist ==
  ASSUME IInv, HistInv, NEW s \in SlotIds, NEW answer, NEW history, NEW last,
         Complete(s, answer, history, last),
         UNCHANGED <<batch, chunkStart, chunkLen, pc>>
  PROVE  HistInv'
<1>1. slots \in [SlotIds -> Slot] /\ kv \in [SlotIds -> SUBSET (Nat \X Tokens)] /\ clock \in Nat
  BY TypeFacts DEF IInv
<1>2. \/ /\ slots' = [slots EXCEPT ![s] = IdleSlot(slots[s].seq, TRUE, slots[s].session,
                                         history, clock + 1, Len(history), last)]
         /\ kv' = kv
      \/ /\ slots' = [slots EXCEPT ![s] = FreeSlot(last)]
         /\ kv' = [kv EXCEPT ![s] = SeqRm(s, 0)]
  BY Zenon DEF Complete
<1>3. /\ \A t \in SlotIds \ {s} : slots'[t] = slots[t] /\ kv'[t] = kv[t]
      /\ ~IsBusy(s)'
      /\ IsWarm(s)' => slots'[s].cachedAt = clock + 1
  BY <1>1, <1>2 DEF IsBusy, IsWarm, FreeSlot, IdleSlot, NoSeq
<1>4. clock + 1 # 0
  BY <1>1
<1>5. Covered(s)' /\ Stamped(s)'
  BY <1>3, <1>4, SlotLeft
<1>6. Undecoded' = Undecoded
  BY DEF Undecoded
<1>7. \A t \in SlotIds \ {s} : Covered(t)' /\ Stamped(t)'
  BY <1>3, <1>6, StillAwaited, SlotKept DEF HistInv
<1> QED
  BY <1>5, <1>7 DEF HistInv

LEMMA OccupyHist ==
  ASSUME IInv, HistInv, NEW s \in SlotIds, NEW n \in Nat, Occupy(s, n),
         n # 0 => IsWarm(s),
         NEW cells, kv' = [kv EXCEPT ![s] = cells]
  PROVE  HistInv'
<1>1. slots \in [SlotIds -> Slot] /\ kv \in [SlotIds -> SUBSET (Nat \X Tokens)]
  BY TypeFacts DEF IInv
<1>2. UNCHANGED <<batch, chunkStart, chunkLen, pc>>
  BY DEF Occupy
<1>3. /\ \A t \in SlotIds \ {s} : slots'[t] = slots[t] /\ kv'[t] = kv[t]
      /\ slots'[s].seq = s /\ ~slots'[s].warm /\ slots'[s].iBatch = -1
      /\ slots'[s].nPast = n
      /\ slots'[s].cachedAt = IF n = 0 THEN 0 ELSE slots[s].cachedAt
  BY <1>1, Zenon DEF Occupy
<1>4. Stamped(s)'
  BY <1>3 DEF Stamped, IsWarm
<1>5. Covered(s)'
  <2>1. CASE n = 0
    BY <2>1, <1>3 DEF Covered
  <2>2. CASE n # 0
    <3>1. slots'[s].cachedAt # 0
      BY <2>2, <1>3 DEF HistInv, Stamped
    <3> QED
      BY <3>1 DEF Covered, Fresh
  <2> QED
    BY <2>1, <2>2
<1>6. Undecoded' = Undecoded
  BY <1>2 DEF Undecoded
<1>7. \A t \in SlotIds \ {s} : Covered(t)' /\ Stamped(t)'
  BY <1>2, <1>3, <1>6, StillAwaited, SlotKept DEF HistInv
<1> QED
  BY <1>4, <1>5, <1>7 DEF HistInv

LEMMA AdmitHist ==
  ASSUME IInv, HistInv, NEW s \in SlotIds, AdmitReuse(s) \/ AdmitFree(s) \/ AdmitEvict(s)
  PROVE  HistInv'
<1>1. kv \in [SlotIds -> SUBSET (Nat \X Tokens)]
  BY TypeFacts DEF IInv
<1>2. CASE AdmitReuse(s)
  <2>1. PICK n \in MinReuse .. NCtx : /\ Reusable(s, n, Head(queue))
                                      /\ Occupy(s, n)
                                      /\ kv' = [kv EXCEPT ![s] = SeqRm(s, n)]
    BY <1>2, Zenon DEF AdmitReuse
  <2>2. n \in Nat
    BY <2>1, SchedulerAssumption
  <2>3. IsWarm(s)
    BY <2>1 DEF Reusable, SessionSlot, IsFirst
  <2> QED
    BY <2>1, <2>2, <2>3, OccupyHist
<1>3. CASE AdmitFree(s)
  <2>1. Occupy(s, 0) /\ kv' = [kv EXCEPT ![s] = kv[s]]
    BY <1>1, <1>3 DEF AdmitFree
  <2> QED
    BY <2>1, OccupyHist
<1>4. CASE AdmitEvict(s)
  <2>1. Occupy(s, 0) /\ kv' = [kv EXCEPT ![s] = SeqRm(s, 0)]
    BY <1>4 DEF AdmitEvict
  <2> QED
    BY <2>1, OccupyHist
<1> QED
  BY <1>2, <1>3, <1>4

\* A slot that adds tokens at pos keeps its cells below pos and waits for the
\* others.
LEMMA AddHist ==
  ASSUME IInv, HistInv, NEW s \in SlotIds, NEW toks \in Seq(Tokens), toks # <<>>,
         NEW pos \in Nat, pos <= slots[s].nPast, pc = "build", pc' = pc, IsBusy(s),
         slots[s].iBatch = -1,
         AddTokens(s, toks, pos),
         NEW cells, kv' = [kv EXCEPT ![s] = cells],
         \A c \in kv[s] : c[1] < pos => c \in cells
  PROVE  HistInv'
<1>1. /\ slots \in [SlotIds -> Slot] /\ kv \in [SlotIds -> SUBSET (Nat \X Tokens)]
      /\ batch \in Seq(Entry) /\ Len(batch) \in Nat /\ Len(toks) \in Nat
  BY TypeFacts DEF IInv
<1>2. slots[s].seq = s /\ slots[s].nPast \in Nat
  BY <1>1 DEF IInv, SlotShape, IsBusy, NoSeq, Slot
<1>3. /\ slots'[s].iBatch = Len(batch) + Len(toks) - 1
      /\ slots'[s].nPast = pos + Len(toks)
      /\ slots'[s].seq = slots[s].seq /\ slots'[s].warm = slots[s].warm
      /\ slots'[s].cachedAt = slots[s].cachedAt
      /\ \A t \in SlotIds \ {s} : slots'[t] = slots[t]
  BY <1>1, AddSlots
<1>4. /\ Len(batch') = Len(batch) + Len(toks)
      /\ \A i \in 1 .. Len(batch) : batch'[i] = batch[i]
      /\ \A i \in 1 .. Len(batch') : i > Len(batch) =>
             batch'[i].seq = s /\ batch'[i].pos = pos + (i - Len(batch)) - 1
  BY <1>1, <1>2, AddBatch
<1>5. Undecoded = 0 /\ Undecoded' = 0
  BY DEF Undecoded
<1>6. \A t, p : Awaited(t, p) => Awaited(t, p)'
  BY <1>1, <1>4, <1>5 DEF Awaited
<1>7. kv'[s] = cells /\ \A t \in SlotIds \ {s} : kv'[t] = kv[t]
  BY <1>1
<1>8. \A t \in SlotIds \ {s} : Covered(t)' /\ Stamped(t)'
  BY <1>3, <1>6, <1>7, SlotKept DEF HistInv
<1>9. Stamped(s)'
  BY <1>3 DEF HistInv, Stamped, IsWarm
<1>10. ASSUME Fresh(s)', NEW p \in 0 .. slots'[s].nPast - 1
       PROVE  HasCell(s, p)' \/ Awaited(s, p)'
  <2>1. Fresh(s)
    BY <1>3, <1>10 DEF Fresh, IsBusy
  <2>2. p \in Nat /\ p < pos + Len(toks)
    BY <1>1, <1>3
  <2>3. CASE p < pos
    <3>1. p \in 0 .. slots[s].nPast - 1
      BY <2>2, <2>3, <1>2
    <3>2. HasCell(s, p)
      BY <2>1, <3>1 DEF HistInv, Covered
    <3> QED
      BY <3>2, <2>3, <1>7 DEF HasCell
  <2>4. CASE p >= pos
    <3> DEFINE i == Len(batch) + (p - pos) + 1
    <3>1. i \in 1 .. Len(batch') /\ i > Len(batch) /\ i > 0 /\ pos + (i - Len(batch)) - 1 = p
      BY <2>2, <2>4, <1>1, <1>4
    <3> HIDE DEF i
    <3>2. batch'[i].seq = s /\ batch'[i].pos = p
      BY <3>1, <1>4
    <3> QED
      BY <3>1, <3>2, <1>5 DEF Awaited
  <2> QED
    BY <2>2, <2>3, <2>4
<1>11. slots'[s].iBatch # -1
  <2>1. Len(toks) # 0
    BY <1>1
  <2> QED
    BY <2>1, <1>1, <1>3
<1>12. Covered(s)'
  BY <1>10, <1>11 DEF Covered
<1> QED
  BY <1>8, <1>9, <1>12 DEF HistInv

LEMMA BuildHist ==
  ASSUME IInv, HistInv, Build PROVE HistInv'
<1> DEFINE s == cursor
<1>1. s \in SlotIds /\ pc = "build" /\ UNCHANGED <<pc, chunkStart, chunkLen>>
  BY TypeFacts, SchedulerAssumption DEF IInv, Build, SlotIds
<1>2. slots[s] \in Slot /\ kv \in [SlotIds -> SUBSET (Nat \X Tokens)]
  BY <1>1, TypeFacts DEF IInv
<1>3. slots[s].iBatch = -1
  BY <1>1 DEF IInv, BatchPhase, SlotIds
<1>4. IsBusy(s) => Ready(s)
  BY <1>1, <1>3 DEF IInv, SlotShape
<1>5. slots[s].nPast \in Nat /\ slots[s].pending \in Seq(Tokens) /\ slots[s].cached \in Seq(Tokens)
  BY <1>2 DEF Slot
<1>6. kv = [kv EXCEPT ![s] = kv[s]]
  BY <1>2
<1>7. CASE BuildPrefill(s)
  <2>1. /\ IsBusy(s) /\ slots[s].pending # <<>> /\ kv' = [kv EXCEPT ![s] = kv[s]]
        /\ AddTokens(s, slots[s].pending, slots[s].nPast)
    BY <1>6, <1>7 DEF BuildPrefill
  <2>2. /\ slots[s].nPast <= slots[s].nPast
        /\ \A c \in kv[s] : c[1] < slots[s].nPast => c \in kv[s]
    BY <1>5
  <2> QED
    BY <2>1, <2>2, <1>1, <1>3, <1>5, AddHist
<1>8. CASE BuildLastAgain(s)
  <2> DEFINE last == slots[s].nPast - 1
             toks == <<slots[s].cached[last + 1]>>
  <2>1. /\ IsBusy(s) /\ slots[s].nPast > 0 /\ ~slots[s].prefilled /\ slots[s].pending = <<>>
        /\ AddTokens(s, toks, last)
        /\ kv' = [kv EXCEPT ![s] = SeqRm(s, last)]
    BY <1>8 DEF BuildLastAgain
  <2>2. slots[s].nPast = Len(slots[s].cached)
    BY <2>1, <1>4, <1>5 DEF Ready
  <2>3. last \in Nat /\ last <= slots[s].nPast /\ toks \in Seq(Tokens) /\ toks # <<>>
    BY <2>1, <2>2, <1>5
  <2>4. \A c \in kv[s] : c[1] < last => c \in SeqRm(s, last)
    BY DEF SeqRm
  <2> HIDE DEF last, toks
  <2> QED
    BY <2>1, <2>3, <2>4, <1>1, <1>3, AddHist
<1>9. CASE BuildDecode(s)
  <2> DEFINE toks == <<slots[s].sampled>>
  <2>1. /\ IsBusy(s) /\ slots[s].prefilled /\ kv' = [kv EXCEPT ![s] = kv[s]]
        /\ AddTokens(s, toks, slots[s].nPast)
    BY <1>6, <1>9 DEF BuildDecode
  <2>2. toks \in Seq(Tokens) /\ toks # <<>>
    BY <2>1, <1>4, <1>5 DEF Ready
  <2>3. /\ slots[s].nPast <= slots[s].nPast
        /\ \A c \in kv[s] : c[1] < slots[s].nPast => c \in kv[s]
    BY <1>5
  <2> HIDE DEF toks
  <2> QED
    BY <2>1, <2>2, <2>3, <1>1, <1>3, <1>5, AddHist
<1>10. CASE BuildSkip(s)
  BY <1>1, <1>10, QuietHist DEF BuildSkip
<1> QED
  BY <1>7, <1>8, <1>9, <1>10 DEF Build

\* A decoded chunk turns what was awaited of it into cells.
LEMMA DecodeOkHist ==
  ASSUME IInv, HistInv, DecodeOk PROVE HistInv'
<1>1. /\ pc = "decode" /\ pc' = "sample"
      /\ kv' = [s \in SlotIds |-> kv[s] \cup ChunkCells(s)]
      /\ chunkLen' = ChunkSize
      /\ UNCHANGED <<slots, batch, chunkStart>>
  BY DEF DecodeOk
<1>2. Undecoded = chunkStart /\ Undecoded' = chunkStart + ChunkSize
  BY <1>1 DEF Undecoded
<1>3. /\ chunkStart \in Nat /\ ChunkSize \in Nat /\ Len(batch) \in Nat
  BY <1>1, ChunkFacts, TypeFacts DEF IInv
<1>4. ASSUME NEW s \in SlotIds, NEW p, Awaited(s, p)
      PROVE  Awaited(s, p)' \/ HasCell(s, p)'
  <2>1. PICK i \in 1 .. Len(batch) : i > chunkStart /\ batch[i].seq = s /\ batch[i].pos = p
    BY <1>2, <1>4 DEF Awaited
  <2>2. CASE i > chunkStart + ChunkSize
    BY <2>1, <2>2, <1>1, <1>2 DEF Awaited
  <2>3. CASE i <= chunkStart + ChunkSize
    <3>1. i \in chunkStart + 1 .. chunkStart + ChunkSize
      BY <2>1, <2>3, <1>3
    <3>2. <<batch[i].pos, batch[i].tok>> \in ChunkCells(s)
      BY <2>1, <3>1 DEF ChunkCells
    <3>3. <<batch[i].pos, batch[i].tok>> \in kv'[s]
      BY <3>2, <1>1
    <3> QED
      BY <2>1, <3>3 DEF HasCell
  <2> QED
    BY <2>2, <2>3, <1>3
<1>5. \A s \in SlotIds : kv[s] \subseteq kv'[s] /\ slots'[s] = slots[s]
  BY <1>1
<1> QED
  BY <1>1, <1>4, <1>5, SlotKept DEF HistInv

\* A slot that goes on has all its cells and waits for nothing.
LEMMA SampleTokenHist ==
  ASSUME IInv, HistInv, NEW s \in SlotIds, NEW t \in Tokens, NEW stop \in BOOLEAN,
         SampleToken(s, t, stop)
  PROVE  HistInv'
<1> DEFINE maxHit == slots[s].nDecoded + 1 >= MaxNew[slots[s].req]
<1>1. /\ pc = "sample" /\ InChunk(s) /\ UNCHANGED <<batch, chunkStart, chunkLen, pc>>
  BY Zenon DEF SampleToken, IsFirst
<1>2. slots \in [SlotIds -> Slot]
  BY DEF IInv, TypeOK
<1>3. CASE stop \/ maxHit
  <2>1. Complete(s, IF maxHit THEN "length" ELSE "stop", Append(slots[s].cached, t), t)
    BY <1>3, Zenon DEF SampleToken
  <2> HIDE DEF maxHit
  <2> QED
    BY <2>1, <1>1, CompleteHist
<1>4. CASE ~(stop \/ maxHit)
  <2>1. /\ slots' = [slots EXCEPT ![s].cached = Append(slots[s].cached, t),
                                  ![s].nDecoded = @ + 1,
                                  ![s].sampled = t, ![s].pending = <<>>,
                                  ![s].prefilled = TRUE, ![s].iBatch = -1]
        /\ kv' = kv
    BY <1>4, Zenon DEF SampleToken
  <2>2. /\ slots'[s].seq = slots[s].seq /\ slots'[s].warm = slots[s].warm
        /\ slots'[s].cachedAt = slots[s].cachedAt /\ slots'[s].nPast = slots[s].nPast
        /\ slots'[s].iBatch = -1
        /\ \A u \in SlotIds \ {s} : slots'[u] = slots[u]
    <3>1. \A u \in SlotIds \ {s} : slots'[u] = slots[u]
      BY <2>1, <1>2, Zenon
    <3>2. slots[s] \in Slot
      BY <1>2
    <3>3. slots'[s] = [slots[s] EXCEPT !.cached = Append(slots[s].cached, t),
                                      !.nDecoded = @ + 1,
                                      !.sampled = t, !.pending = <<>>,
                                      !.prefilled = TRUE, !.iBatch = -1]
      BY <2>1, <1>2
    <3>4. /\ slots'[s].seq = slots[s].seq /\ slots'[s].warm = slots[s].warm
          /\ slots'[s].cachedAt = slots[s].cachedAt /\ slots'[s].nPast = slots[s].nPast
          /\ slots'[s].iBatch = -1
      BY ONLY <3>2, <3>3 DEF Slot
    <3> QED
      BY <3>1, <3>4, Zenon
  <2>3. Fresh(s)' => Fresh(s)
    BY <2>2 DEF Fresh, IsBusy
  <2>4. Fresh(s)' => \A p \in 0 .. slots'[s].nPast - 1 : HasCell(s, p)'
    BY <2>1, <2>2, <2>3, <1>1, SeesCells DEF HasCell
  <2>5. Covered(s)'
    BY <2>2, <2>4 DEF Covered
  <2>6. Stamped(s)'
    BY <2>2 DEF HistInv, Stamped, IsWarm
  <2>7. Undecoded' = Undecoded
    BY <1>1 DEF Undecoded
  <2>8. ASSUME NEW u \in SlotIds \ {s} PROVE Covered(u)' /\ Stamped(u)'
    <3>1. /\ Covered(u) /\ Stamped(u) /\ slots'[u] = slots[u] /\ kv[u] \subseteq kv'[u]
          /\ pc' # "fail" => pc # "fail"
      BY <2>1, <2>2, <1>1 DEF HistInv
    <3>2. \A p : Awaited(u, p) => Awaited(u, p)'
      BY <2>7, <1>1, StillAwaited
    <3> QED
      BY <3>1, <3>2, SlotKept
  <2> QED
    BY <2>5, <2>6, <2>8 DEF HistInv
<1> QED
  BY <1>3, <1>4

LEMMA DrainWarmHist ==
  ASSUME IInv, HistInv, NEW s \in SlotIds, DrainWarm(s) PROVE HistInv'
<1>1. slots \in [SlotIds -> Slot] /\ kv \in [SlotIds -> SUBSET (Nat \X Tokens)]
  BY TypeFacts DEF IInv
<1>2. /\ slots' = [slots EXCEPT ![s] = IdleSlot(NoSeq, FALSE, None, <<>>, slots[s].cachedAt,
                                            slots[s].nPast, slots[s].sampled)]
      /\ kv' = [kv EXCEPT ![s] = SeqRm(s, 0)]
      /\ UNCHANGED <<batch, chunkStart, chunkLen, pc>>
  BY DEF DrainWarm
<1>3. /\ slots'[s].seq = NoSeq
      /\ \A t \in SlotIds \ {s} : slots'[t] = slots[t] /\ kv'[t] = kv[t]
  BY <1>1, <1>2 DEF IdleSlot
<1>4. Covered(s)' /\ Stamped(s)'
  BY <1>3, SlotLeft DEF IsBusy, IsWarm
<1>5. Undecoded' = Undecoded
  BY <1>2 DEF Undecoded
<1>6. \A t \in SlotIds \ {s} : Covered(t)' /\ Stamped(t)'
  BY <1>2, <1>3, <1>5, StillAwaited, SlotKept DEF HistInv
<1> QED
  BY <1>4, <1>6 DEF HistInv

\* The worker's steps from one loop to the next.
LEMMA TurnHist ==
  ASSUME IInv, HistInv,
         \/ StartAdmit \/ AdmitDone \/ BuildDone \/ DecodeFail \/ FailDone \/ ChunkDone
         \/ LeaveLoop \/ DrainSlotsDone \/ DrainQueueDone
  PROVE  HistInv'
<1>0. /\ \A s \in SlotIds : slots[s].iBatch \in Nat \cup {-1}
      /\ Len(batch) \in Nat /\ chunkStart \in Nat /\ chunkLen \in Nat
  BY TypeFacts DEF IInv, Slot
<1>1. CASE StartAdmit \/ AdmitDone \/ LeaveLoop \/ DrainSlotsDone \/ DrainQueueDone
  <2>1. pc \in {"top", "admit", "drainSlots", "drainQueue"} /\ UNCHANGED <<slots, kv>>
    BY <1>1 DEF StartAdmit, AdmitDone, LeaveLoop, DrainSlotsDone, DrainQueueDone
  <2> QED
    BY <2>1, UnloadedHist DEF IInv, BatchPhase
<1>2. CASE FailDone
  <2>1. pc = "fail" /\ UNCHANGED <<slots, kv>> /\ \A s \in SlotIds : ~Failed(s)
    BY <1>2 DEF FailDone
  <2>2. \A s \in SlotIds : slots[s].iBatch = -1
    BY <2>1 DEF IInv, BatchPhase, SlotShape, Failed
  <2> QED
    BY <2>1, <2>2, UnloadedHist
<1>3. CASE BuildDone
  <2>1. /\ pc = "build" /\ UNCHANGED <<slots, kv, batch>> /\ chunkStart' = 0
        /\ pc' = IF batch = <<>> THEN "top" ELSE "decode"
    BY <1>3 DEF BuildDone
  <2>2. CASE batch = <<>>
    <3>1. \A s \in SlotIds : slots[s].iBatch < 0
      BY <2>1, <2>2 DEF IInv, BatchPhase
    <3>2. \A s \in SlotIds : slots[s].iBatch = -1
      BY <3>1, <1>0
    <3> QED
      BY <2>1, <3>2, UnloadedHist
  <2>3. CASE batch # <<>>
    <3>1. Undecoded' = Undecoded
      BY <2>1, <2>3 DEF Undecoded
    <3> QED
      BY <2>1, <3>1, StillAwaited, SlotKept DEF HistInv
  <2> QED
    BY <2>2, <2>3
<1>4. CASE DecodeFail
  <2>1. pc' = "fail" /\ UNCHANGED <<slots, kv>>
    BY <1>4 DEF DecodeFail
  <2> QED
    BY <2>1, SlotKept DEF HistInv
<1>5. CASE ChunkDone
  <2>1. /\ pc = "sample" /\ UNCHANGED <<slots, kv, batch>> /\ chunkStart' = chunkStart + chunkLen
        /\ pc' = IF chunkStart + chunkLen < Len(batch) THEN "decode" ELSE "top"
        /\ \A s \in SlotIds : ~InChunk(s)
    BY <1>5 DEF ChunkDone
  <2>2. CASE chunkStart + chunkLen < Len(batch)
    <3>1. Undecoded' = Undecoded
      BY <2>1, <2>2 DEF Undecoded
    <3> QED
      BY <2>1, <3>1, StillAwaited, SlotKept DEF HistInv
  <2>3. CASE ~(chunkStart + chunkLen < Len(batch))
    <3>1. \A s \in SlotIds : slots[s].iBatch < Len(batch)
                             /\ (slots[s].iBatch = -1 \/ slots[s].iBatch >= chunkStart)
                             /\ (~IsBusy(s) => slots[s].iBatch = -1)
      BY <2>1 DEF IInv, BatchPhase, SlotShape
    <3>2. \A s \in SlotIds : slots[s].iBatch = -1
      BY <2>1, <2>3, <3>1, <1>0 DEF InChunk
    <3> QED
      BY <2>1, <3>2, UnloadedHist
  <2> QED
    BY <2>2, <2>3
<1> QED
  BY <1>1, <1>2, <1>3, <1>4, <1>5

LEMMA NextHist ==
  ASSUME IInv, HistInv, [Next]_vars PROVE HistInv'
<1>1. CASE UNCHANGED <<slots, kv, batch, chunkStart, chunkLen, pc>>
  BY <1>1, QuietHist
<1>2. ASSUME NEW r \in Requests, SubmitRefused(r) \/ SubmitQueued(r) PROVE HistInv'
  BY <1>1, <1>2 DEF SubmitRefused, SubmitQueued
<1>3. Shutdown \/ RejectHead \/ DrainQueue \/ DecodeRetry \/ Terminated \/ UNCHANGED vars
         => HistInv'
  BY <1>1 DEF Shutdown, RejectHead, DrainQueue, DecodeRetry, Terminated, vars
<1>4. ASSUME NEW s \in SlotIds, FailSlot(s) \/ SampleEog(s) \/ DrainBusy(s) PROVE HistInv'
  <2>1. UNCHANGED <<batch, chunkStart, chunkLen, pc>>
    BY <1>4 DEF FailSlot, SampleEog, DrainBusy
  <2>2. \E answer, history, last : Complete(s, answer, history, last)
    BY <1>4, Zenon DEF FailSlot, SampleEog, DrainBusy
  <2> QED
    BY <2>1, <2>2, CompleteHist
<1>5. CASE Admit
  BY <1>3, <1>5, AdmitHist, TurnHist, Zenon DEF Admit
<1>6. CASE Build \/ BuildDone
  BY <1>6, BuildHist, TurnHist, Zenon
<1>7. CASE Decode
  BY <1>3, <1>4, <1>7, DecodeOkHist, TurnHist, Zenon DEF Decode
<1>8. CASE Sample
  BY <1>4, <1>8, SampleTokenHist, TurnHist, Zenon DEF Sample
<1>9. CASE Drain
  BY <1>3, <1>4, <1>9, DrainWarmHist, TurnHist, Zenon DEF Drain
<1> QED
  BY <1>2, <1>3, <1>5, <1>6, <1>7, <1>8, <1>9, Zenon DEF Next, Worker

LEMMA InitHist == Init => HistInv
  BY DEF Init, HistInv, Covered, Stamped, Fresh, IsBusy, IsWarm, FreeSlot, IdleSlot

LEMMA HistInvariant == Spec => [](IInv /\ HistInv)
<1>1. IInv /\ HistInv /\ [Next]_vars => IInv' /\ HistInv'
  BY NextIInv, NextHist
<1> QED
  BY <1>1, InitIInv, InitHist, PTL DEF Spec

\* Whatever is admitted, reused, evicted, decoded in chunks of any size, retried
\* or failed, a slot whose request reused no cells has one for every token of its
\* prompt and of its answer so far whenever a token is sampled for it.
THEOREM FreshSamplesSeeHistory == Spec => []FreshSeesHistory
  BY HistInvariant, SeesHistory, PTL

-----------------------------------------------------------------------------
(* Without sessions nothing is reused *)

NoSessions == \A r \in Requests : Session[r] = None

NoneKept ==
    \A s \in SlotIds : /\ slots[s].session = None
                       /\ ~IsWarm(s)
                       /\ IsBusy(s) => slots[s].cachedAt = 0

\* Slots that stay as they were in what NoneKept says of them.
LEMMA KeptNone ==
  ASSUME NoneKept,
         \A s \in SlotIds : /\ slots'[s].seq = slots[s].seq /\ slots'[s].warm = slots[s].warm
                            /\ slots'[s].cachedAt = slots[s].cachedAt
                            /\ slots'[s].session = slots[s].session
  PROVE  NoneKept'
BY DEF NoneKept, IsBusy, IsWarm

LEMMA CompleteKeepsNone ==
  ASSUME TypeOK, NoneKept, NEW s \in SlotIds, NEW answer, NEW history, NEW last,
         Complete(s, answer, history, last)
  PROVE  NoneKept'
<1>1. slots \in [SlotIds -> Slot]
  BY DEF TypeOK
<1>2. slots[s].session = None
  BY DEF NoneKept, IsWarm, IsBusy
<1>3. slots' = [slots EXCEPT ![s] = FreeSlot(last)]
  BY <1>2, Zenon DEF Complete
<1>4. /\ slots'[s].seq = NoSeq /\ slots'[s].session = None
      /\ \A t \in SlotIds \ {s} : slots'[t] = slots[t]
  BY <1>1, <1>3 DEF FreeSlot, IdleSlot
<1> QED
  BY <1>4 DEF NoneKept, IsWarm, IsBusy

LEMMA OccupyKeepsNone ==
  ASSUME TypeOK, NoSessions, NoneKept, queue # <<>>, NEW s \in SlotIds, Occupy(s, 0)
  PROVE  NoneKept'
<1>1. slots \in [SlotIds -> Slot] /\ Session[Head(queue)] = None
  BY HeadFacts DEF TypeOK, NoSessions
<1>2. /\ slots'[s].seq = s /\ ~slots'[s].warm /\ slots'[s].cachedAt = 0
      /\ slots'[s].session = Session[Head(queue)]
      /\ \A t \in SlotIds \ {s} : slots'[t] = slots[t]
  BY <1>1, Zenon DEF Occupy
<1> QED
  BY <1>1, <1>2 DEF NoneKept, IsWarm, IsBusy

LEMMA NextKeepsNone ==
  ASSUME NoSessions, IInv, NoneKept, [Next]_vars PROVE NoneKept'
<1>0. TypeOK /\ slots \in [SlotIds -> Slot]
  BY DEF IInv, TypeOK
<1>1. CASE slots' = slots
  BY <1>1, KeptNone
<1>2. ASSUME NEW r \in Requests, SubmitRefused(r) \/ SubmitQueued(r) PROVE NoneKept'
  BY <1>1, <1>2 DEF SubmitRefused, SubmitQueued
<1>3. Shutdown \/ RejectHead \/ DrainQueue \/ DecodeRetry \/ Terminated \/ UNCHANGED vars
         => NoneKept'
  BY <1>1 DEF Shutdown, RejectHead, DrainQueue, DecodeRetry, Terminated, vars
<1>4. StartAdmit \/ AdmitDone \/ BuildDone \/ DecodeOk \/ DecodeFail \/ FailDone \/ ChunkDone
         => NoneKept'
  BY <1>1 DEF StartAdmit, AdmitDone, BuildDone, DecodeOk, DecodeFail, FailDone, ChunkDone
<1>5. LeaveLoop \/ DrainSlotsDone \/ DrainQueueDone => NoneKept'
  BY <1>1 DEF LeaveLoop, DrainSlotsDone, DrainQueueDone
<1>6. ASSUME NEW s \in SlotIds, FailSlot(s) \/ SampleEog(s) \/ DrainBusy(s) PROVE NoneKept'
  <2>1. \E answer, history, last : Complete(s, answer, history, last)
    BY <1>6, Zenon DEF FailSlot, SampleEog, DrainBusy
  <2> QED
    BY <2>1, <1>0, CompleteKeepsNone
<1>7. ASSUME NEW s \in SlotIds, AdmitReuse(s) \/ AdmitFree(s) \/ AdmitEvict(s) PROVE NoneKept'
  <2>1. ~IsWarm(s)
    BY DEF NoneKept, IsWarm, IsBusy
  <2>2. ~AdmitReuse(s) /\ ~AdmitEvict(s)
    BY <2>1 DEF AdmitReuse, Reusable, SessionSlot, IsFirst, AdmitEvict
  <2>3. queue # <<>> /\ Occupy(s, 0)
    BY <2>2, <1>7 DEF AdmitFree, HeadAdmissible
  <2> QED
    BY <2>3, <1>0, OccupyKeepsNone
<1>8. ASSUME NEW s \in SlotIds, DrainWarm(s) PROVE NoneKept'
  BY <1>8 DEF NoneKept, DrainWarm
<1>9. CASE Build
  <2>1. CASE slots' = slots
    BY <2>1, <1>1
  <2>2. ASSUME NEW i, NEW p, slots' = [slots EXCEPT ![cursor].iBatch = i, ![cursor].nPast = p]
        PROVE  NoneKept'
    <3>1. \A s \in SlotIds : /\ slots'[s].seq = slots[s].seq /\ slots'[s].warm = slots[s].warm
                             /\ slots'[s].cachedAt = slots[s].cachedAt
                             /\ slots'[s].session = slots[s].session
      BY <2>2, <1>0 DEF Slot
    <3> QED
      BY <3>1, KeptNone
  <2> QED
    BY <2>1, <2>2, <1>9, Zenon DEF Build, BuildPrefill, BuildLastAgain, BuildDecode, BuildSkip,
       AddTokens
<1>10. ASSUME NEW s \in SlotIds, NEW t \in Tokens, NEW stop \in BOOLEAN, SampleToken(s, t, stop)
       PROVE  NoneKept'
  <2>1. CASE \E answer, history, last : Complete(s, answer, history, last)
    BY <2>1, <1>0, CompleteKeepsNone
  <2>2. CASE slots' = [slots EXCEPT ![s].cached = Append(slots[s].cached, t),
                                    ![s].nDecoded = @ + 1,
                                    ![s].sampled = t, ![s].pending = <<>>,
                                    ![s].prefilled = TRUE, ![s].iBatch = -1]
    <3>1. ASSUME NEW u \in SlotIds
          PROVE  /\ slots'[u].seq = slots[u].seq /\ slots'[u].warm = slots[u].warm
                 /\ slots'[u].cachedAt = slots[u].cachedAt
                 /\ slots'[u].session = slots[u].session
      <4>1. CASE u = s
        BY <4>1, <2>2, <1>0 DEF Slot
      <4>2. CASE u # s
        BY <4>2, <2>2, <1>0
      <4> QED
        BY <4>1, <4>2
    <3> QED
      BY <3>1, KeptNone
  <2> QED
    BY <2>1, <2>2, <1>10, Zenon DEF SampleToken
<1>11. CASE Admit
  BY <1>3, <1>4, <1>7, <1>11, Zenon DEF Admit
<1>12. CASE Decode
  BY <1>3, <1>4, <1>6, <1>12, Zenon DEF Decode
<1>13. CASE Sample
  BY <1>4, <1>6, <1>10, <1>13, Zenon DEF Sample
<1>14. CASE Drain
  BY <1>3, <1>5, <1>6, <1>8, <1>14, Zenon DEF Drain
<1> QED
  BY <1>2, <1>3, <1>4, <1>9, <1>11, <1>12, <1>13, <1>14, Zenon DEF Next, Worker

LEMMA InitNone == Init => NoneKept
  BY DEF Init, NoneKept, IsBusy, IsWarm, FreeSlot, IdleSlot

\* When no request names a session, no slot is ever kept warm, and each token is
\* sampled from the whole prompt and the whole answer so far: continuous batching
\* gives what a full prefill of that request alone would give.  (With sessions it
\* does not: see run sched_holes.)
THEOREM SamplesSeeAll ==
  ASSUME NoSessions PROVE Spec => []SamplesSeeHistory
<1>1. Init => NoneKept
  BY InitNone
<1>2. IInv /\ NoneKept /\ [Next]_vars => NoneKept'
  BY NextKeepsNone
<1>3. IInv /\ HistInv /\ NoneKept => SamplesSeeHistory
  <2>1. IInv /\ HistInv => FreshSeesHistory
    BY SeesHistory
  <2> QED
    BY <2>1 DEF NoneKept, FreshSeesHistory, SamplesSeeHistory, Fresh, InChunk
<1> QED
  BY <1>1, <1>2, <1>3, HistInvariant, PTL DEF Spec
-----------------------------------------------------------------------------
(* How many tokens a batch holds *)

\* P bounds the prompt of every request a slot is given.
PromptsWithin(P) == \A r \in Requests : Inadmissible(r) \/ Len(Prompt[r]) <= P

\* Each slot visited has added its prompt or one token.
Within(P) ==
    /\ \A s \in SlotIds : Len(slots[s].pending) <= P
    /\ pc = "build" => Len(batch) <= cursor * P
    /\ Len(batch) <= MaxSeqs * P

LEMMA QuietWithin ==
  ASSUME NEW P, Within(P), batch' = batch,
         \A s \in SlotIds : slots'[s].pending = slots[s].pending \/ slots'[s].pending = <<>>
                            \/ Len(slots'[s].pending) <= P,
         Len(<<>>) <= P,
         pc' = "build" => pc = "build" /\ cursor' = cursor
  PROVE  Within(P)'
BY DEF Within

LEMMA CompleteWithin ==
  ASSUME TypeOK, NEW s \in SlotIds, NEW answer, NEW history, NEW last,
         Complete(s, answer, history, last)
  PROVE  \A t \in SlotIds : slots'[t].pending = slots[t].pending \/ slots'[t].pending = <<>>
<1>1. slots \in [SlotIds -> Slot]
  BY DEF TypeOK
<1>2. ASSUME NEW new, slots' = [slots EXCEPT ![s] = new], new.pending = <<>>
      PROVE  \A t \in SlotIds : slots'[t].pending = slots[t].pending \/ slots'[t].pending = <<>>
  <2>1. \A t \in SlotIds : slots'[t] = slots[t] \/ slots'[t] = new
    BY <1>1, <1>2, Zenon
  <2> QED
    BY <2>1, <1>2, Zenon
<1>3. FreeSlot(last).pending = <<>>
  BY DEF FreeSlot, IdleSlot
<1>4. IdleSlot(slots[s].seq, TRUE, slots[s].session, history, clock + 1, Len(history),
               last).pending = <<>>
  BY DEF IdleSlot
<1> QED
  BY <1>2, <1>3, <1>4, Zenon DEF Complete

LEMMA OccupyWithin ==
  ASSUME TypeOK, NEW P \in Nat, PromptsWithin(P), HeadAdmissible,
         NEW s \in SlotIds, NEW n \in Nat, Occupy(s, n)
  PROVE  \A t \in SlotIds : slots'[t].pending = slots[t].pending \/ Len(slots'[t].pending) <= P
<1>1. slots \in [SlotIds -> Slot] /\ queue # <<>> /\ Head(queue) \in Requests
  BY HeadFacts DEF TypeOK, HeadAdmissible
<1>2. Prompt[Head(queue)] \in Seq(Tokens) /\ Len(Prompt[Head(queue)]) <= P
  BY <1>1, SchedulerAssumption DEF PromptsWithin, HeadAdmissible
<1> DEFINE rest == SubSeq(Prompt[Head(queue)], n + 1, Len(Prompt[Head(queue)]))
<1>3. Len(rest) <= P
  BY <1>2
<1> HIDE DEF rest
<1>4. \A t \in SlotIds : slots'[t] = slots[t] \/ slots'[t].pending = rest
  BY <1>1, Zenon DEF Occupy, rest
<1> QED
  BY <1>3, <1>4, Zenon

\* One more slot visited.
LEMMA AddWithin ==
  ASSUME IInv, NEW P \in Nat \ {0}, Within(P), pc = "build", cursor < MaxSeqs, IsBusy(cursor),
         NEW toks \in Seq(Tokens), toks # <<>>, Len(toks) <= P, NEW pos \in Nat,
         AddTokens(cursor, toks, pos), cursor' = cursor + 1
  PROVE  Within(P)'
<1>1. /\ slots \in [SlotIds -> Slot] /\ batch \in Seq(Entry) /\ cursor \in Nat /\ cursor \in SlotIds
      /\ MaxSeqs \in Nat
  BY TypeFacts, SchedulerAssumption DEF IInv, SlotIds
<1>2. slots[cursor].seq = cursor
  BY <1>1 DEF IInv, SlotShape, IsBusy, NoSeq
<1>3. \A c \in SlotIds : slots[c].seq = c /\ AddTokens(c, toks, pos)
          => Len(batch') = Len(batch) + Len(toks)
  <2> TAKE c \in SlotIds
  <2> HAVE slots[c].seq = c /\ AddTokens(c, toks, pos)
  <2> QED
    BY <1>1, AddBatch
<1>4. Len(batch') = Len(batch) + Len(toks)
  BY <1>1, <1>2, <1>3, Zenon
<1>5. \A t \in SlotIds : slots'[t].pending = slots[t].pending
  BY <1>1 DEF AddTokens, Slot
<1> DEFINE here == cursor * P
           next == (cursor + 1) * P
           all == MaxSeqs * P
<1>6. here \in Nat /\ all \in Nat /\ next = here + P /\ next <= all
  <2>1. MaxSeqs - (cursor + 1) \in Nat
    BY <1>1
  <2>2. \A k \in Nat : k * P >= 0
    OBVIOUS
  <2>3. all = next + (MaxSeqs - (cursor + 1)) * P
    BY <1>1
  <2>4. (MaxSeqs - (cursor + 1)) * P \in Nat
    BY <2>1
  <2>5. next = here + P /\ here \in Nat /\ all \in Nat
    BY <1>1
  <2> HIDE DEF here, next, all
  <2> QED
    BY <2>3, <2>4, <2>5
<1>7. Len(batch) \in Nat /\ Len(toks) \in Nat
  BY <1>1
<1>8. Len(batch) <= here
  BY DEF Within
<1> HIDE DEF here, next, all
<1>9. Len(batch') <= next /\ Len(batch') <= all
  BY <1>4, <1>6, <1>7, <1>8
<1>10. cursor' * P = next
  BY DEF next
<1> QED
  BY <1>5, <1>9, <1>10 DEF Within, all

LEMMA BuildWithin ==
  ASSUME IInv, NEW P \in Nat \ {0}, Within(P), Build
  PROVE  Within(P)'
<1>1. /\ pc = "build" /\ cursor < MaxSeqs /\ cursor' = cursor + 1 /\ pc' = pc
      /\ slots \in [SlotIds -> Slot] /\ batch \in Seq(Entry) /\ cursor \in SlotIds
      /\ MaxSeqs \in Nat /\ cursor \in Nat /\ slots[cursor] \in Slot
  BY TypeFacts, SchedulerAssumption DEF IInv, SlotIds, Build
<1>2. ASSUME NEW tok \in Tokens PROVE <<tok>> \in Seq(Tokens) /\ <<tok>> # <<>> /\ Len(<<tok>>) <= P
  OBVIOUS
<1>3. CASE BuildPrefill(cursor)
  <2>1. /\ IsBusy(cursor) /\ slots[cursor].pending # <<>>
        /\ AddTokens(cursor, slots[cursor].pending, slots[cursor].nPast)
        /\ slots[cursor].pending \in Seq(Tokens) /\ slots[cursor].nPast \in Nat
        /\ Len(slots[cursor].pending) <= P
    BY <1>1, <1>3 DEF BuildPrefill, Slot, Within
  <2> QED
    BY <1>1, <2>1, AddWithin
<1>4. CASE BuildLastAgain(cursor)
  <2>1. PICK tok \in Tokens, pos \in Nat : IsBusy(cursor) /\ AddTokens(cursor, <<tok>>, pos)
    <3>1. /\ slots[cursor].nPast \in Nat /\ slots[cursor].nPast > 0 /\ IsBusy(cursor)
          /\ AddTokens(cursor, <<slots[cursor].cached[slots[cursor].nPast - 1 + 1]>>,
                       slots[cursor].nPast - 1)
          /\ slots[cursor].cached \in Seq(Tokens)
          /\ ~slots[cursor].prefilled /\ slots[cursor].pending = <<>>
      BY <1>1, <1>4 DEF BuildLastAgain, Slot
    <3>2. slots[cursor].nPast <= Len(slots[cursor].cached)
      <4>1. slots[cursor].iBatch = -1
        BY <1>1 DEF IInv, BatchPhase
      <4>2. Ready(cursor)
        BY <1>1, <3>1, <4>1 DEF IInv, SlotShape
      <4> QED
        BY <3>1, <4>2 DEF Ready
    <3>3. \A x \in Seq(Tokens), p \in Nat : p > 0 /\ p <= Len(x) => x[p - 1 + 1] \in Tokens
      OBVIOUS
    <3>4. slots[cursor].cached[slots[cursor].nPast - 1 + 1] \in Tokens
      BY <3>1, <3>2, <3>3, Zenon
    <3>5. slots[cursor].nPast - 1 \in Nat
      BY <3>1
    <3> QED
      BY <3>1, <3>4, <3>5, Zenon
  <2> QED
    BY <1>1, <1>2, <2>1, AddWithin
<1>5. CASE BuildDecode(cursor)
  <2>1. PICK tok \in Tokens, pos \in Nat : IsBusy(cursor) /\ AddTokens(cursor, <<tok>>, pos)
    <3>1. /\ slots[cursor].nPast \in Nat /\ IsBusy(cursor) /\ slots[cursor].prefilled
          /\ AddTokens(cursor, <<slots[cursor].sampled>>, slots[cursor].nPast)
          /\ slots[cursor].cached \in Seq(Tokens)
      BY <1>1, <1>5 DEF BuildDecode, Slot
    <3>2. slots[cursor].iBatch = -1
      BY <1>1 DEF IInv, BatchPhase
    <3>3. Ready(cursor)
      BY <1>1, <3>1, <3>2 DEF IInv, SlotShape
    <3>4. slots[cursor].sampled \in Tokens
      BY <3>1, <3>3 DEF Ready
    <3> QED
      BY <3>1, <3>4
  <2> QED
    BY <1>1, <1>2, <2>1, AddWithin
<1>6. CASE BuildSkip(cursor)
  <2> DEFINE here == cursor * P
             next == cursor' * P
  <2>1. here \in Nat /\ next = here + P
    BY <1>1
  <2>2. Len(batch) <= here /\ Len(batch) \in Nat
    BY <1>1 DEF Within
  <2> HIDE DEF here, next
  <2>3. Len(batch) <= next
    BY <2>1, <2>2
  <2> QED
    BY <2>3, <1>6 DEF Within, BuildSkip, next
<1> QED
  BY <1>3, <1>4, <1>5, <1>6, Zenon DEF Build

LEMMA NextWithin ==
  ASSUME IInv, NEW P \in Nat \ {0}, PromptsWithin(P), Within(P), [Next]_vars
  PROVE  Within(P)'
<1>0. TypeOK /\ slots \in [SlotIds -> Slot] /\ Len(<<>>) <= P /\ Len(<<>>) = 0
  BY DEF IInv, TypeOK
<1> DEFINE Fewer == \A s \in SlotIds : slots'[s].pending = slots[s].pending
                        \/ slots'[s].pending = <<>> \/ Len(slots'[s].pending) <= P
<1>1. ASSUME Fewer, batch' = batch, pc' = "build" => pc = "build" /\ cursor' = cursor
      PROVE  Within(P)'
  BY <1>0, <1>1, QuietWithin
<1>2. ASSUME NEW r \in Requests, SubmitRefused(r) \/ SubmitQueued(r) PROVE Within(P)'
  BY <1>1, <1>2 DEF SubmitRefused, SubmitQueued
<1>3. Shutdown \/ RejectHead \/ DrainQueue \/ DecodeRetry \/ Terminated \/ UNCHANGED vars
         => Within(P)'
  BY <1>1 DEF Shutdown, RejectHead, DrainQueue, DecodeRetry, Terminated, vars
<1>4. StartAdmit \/ BuildDone \/ DecodeOk \/ DecodeFail \/ FailDone \/ ChunkDone => Within(P)'
  BY <1>1 DEF StartAdmit, BuildDone, DecodeOk, DecodeFail, FailDone, ChunkDone
<1>5. LeaveLoop \/ DrainSlotsDone \/ DrainQueueDone => Within(P)'
  BY <1>1 DEF LeaveLoop, DrainSlotsDone, DrainQueueDone
<1>6. CASE AdmitDone
  <2>1. Len(batch') = 0 /\ cursor' * P = 0 /\ MaxSeqs * P >= 0 /\ slots' = slots
    BY <1>6, SchedulerAssumption DEF AdmitDone
  <2> QED
    BY <2>1 DEF Within
<1>7. ASSUME NEW s \in SlotIds, FailSlot(s) \/ SampleEog(s) \/ DrainBusy(s) PROVE Within(P)'
  <2>1. \E answer, history, last : Complete(s, answer, history, last)
    BY <1>7, Zenon DEF FailSlot, SampleEog, DrainBusy
  <2>2. Fewer
    BY <2>1, <1>0, CompleteWithin
  <2>3. batch' = batch /\ pc' = pc /\ cursor' = cursor
    BY <1>7 DEF FailSlot, SampleEog, DrainBusy
  <2> QED
    BY <2>2, <2>3, <1>1
<1>8. ASSUME NEW s \in SlotIds, AdmitReuse(s) \/ AdmitFree(s) \/ AdmitEvict(s) PROVE Within(P)'
  <2>0. 0 \in Nat /\ \A n \in MinReuse .. NCtx : n \in Nat
    BY SchedulerAssumption
  <2>1. HeadAdmissible /\ \E n \in Nat : Occupy(s, n)
    BY <2>0, <1>8, Zenon DEF AdmitReuse, AdmitFree, AdmitEvict
  <2>2. Fewer
    BY <2>1, <1>0, OccupyWithin
  <2>3. batch' = batch /\ pc' = pc /\ cursor' = cursor
    BY <2>1 DEF Occupy
  <2> QED
    BY <2>2, <2>3, <1>1
<1>9. ASSUME NEW s \in SlotIds, DrainWarm(s) PROVE Within(P)'
  <2>1. Fewer
    BY <1>0, <1>9 DEF DrainWarm, IdleSlot
  <2> QED
    BY <2>1, <1>1, <1>9 DEF DrainWarm
<1>10. ASSUME NEW s \in SlotIds, NEW t \in Tokens, NEW stop \in BOOLEAN, SampleToken(s, t, stop)
       PROVE  Within(P)'
  <2>1. CASE \E answer, history, last : Complete(s, answer, history, last)
    <3>1. Fewer
      BY <2>1, <1>0, CompleteWithin
    <3> QED
      BY <3>1, <1>1, <1>10 DEF SampleToken
  <2>2. CASE slots' = [slots EXCEPT ![s].cached = Append(slots[s].cached, t),
                                    ![s].nDecoded = @ + 1,
                                    ![s].sampled = t, ![s].pending = <<>>,
                                    ![s].prefilled = TRUE, ![s].iBatch = -1]
    <3>1. Fewer
      BY <2>2, <1>0 DEF Slot
    <3> QED
      BY <3>1, <1>1, <1>10 DEF SampleToken
  <2> QED
    BY <2>1, <2>2, <1>10, Zenon DEF SampleToken
<1>11. CASE Admit
  BY <1>3, <1>4, <1>6, <1>8, <1>11, Zenon DEF Admit
<1>12. CASE Decode
  BY <1>3, <1>4, <1>7, <1>12, Zenon DEF Decode
<1>13. CASE Sample
  BY <1>4, <1>7, <1>10, <1>13, Zenon DEF Sample
<1>14. CASE Drain
  BY <1>3, <1>5, <1>7, <1>9, <1>14, Zenon DEF Drain
<1>15. CASE Build
  BY <1>15, BuildWithin
<1> QED
  BY <1>2, <1>3, <1>4, <1>11, <1>12, <1>13, <1>14, <1>15, Zenon DEF Next, Worker

LEMMA InitWithin ==
  ASSUME NEW P \in Nat \ {0} PROVE Init => Within(P)
<1> HAVE Init
<1>1. MaxSeqs * P >= 0 /\ Len(<<>>) = 0
  BY SchedulerAssumption
<1> QED
  BY <1>1 DEF Init, Within, FreeSlot, IdleSlot

\* The batch buffer is as large as its constructor says, "handles large prompts and
\* the decode tokens all in one pass", when one prompt of the longest length for
\* every slot fits in the context.  Nothing in submit or in try_admit_pending checks
\* that: they compare one prompt with the context, and run sched_batch_buffer shows
\* two prompts that fit alone overflow the buffer together.
THEOREM BatchFits ==
  ASSUME NEW P \in Nat \ {0}, PromptsWithin(P), MaxSeqs * P <= NCtx
  PROVE  Spec => []BatchFitsBuffer
<1>1. Init => IInv /\ Within(P)
  BY InitIInv, InitWithin
<1>2. IInv /\ Within(P) /\ [Next]_vars => IInv' /\ Within(P)'
  BY NextIInv, NextWithin
<1>3. IInv /\ Within(P) => BatchFitsBuffer
  <2> SUFFICES ASSUME IInv, Within(P) PROVE BatchFitsBuffer
    OBVIOUS
  <2> DEFINE all == MaxSeqs * P
  <2>1. all \in Nat /\ all <= NCtx /\ NCtx \in Nat /\ Len(batch) \in Nat
    BY TypeFacts, SchedulerAssumption DEF IInv
  <2>2. Len(batch) <= all
    BY DEF Within
  <2> HIDE DEF all
  <2> QED
    BY <2>1, <2>2 DEF BatchFitsBuffer
<1> QED
  BY <1>1, <1>2, <1>3, PTL DEF Spec

\* So a scheduler with one slot never overflows its buffer.
COROLLARY OneSlotFits ==
  ASSUME MaxSeqs = 1 PROVE Spec => []BatchFitsBuffer
<1>1. NCtx \in Nat \ {0} /\ MaxSeqs * NCtx <= NCtx
  BY SchedulerAssumption
<1>2. PromptsWithin(NCtx)
  BY SchedulerAssumption DEF PromptsWithin, Inadmissible
<1> QED
  BY <1>1, <1>2, BatchFits

=============================================================================
