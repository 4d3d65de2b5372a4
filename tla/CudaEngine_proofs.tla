-------------------------- MODULE CudaEngine_proofs -------------------------
(***************************************************************************)
(* Theorems about CudaEngine for any calls, prompts, pool and number of    *)
(* threads.  What the engine does to the pool is what an allocator's       *)
(* caller may do, so the theorems of CudaAllocator hold here; that every   *)
(* block has one owner and that a call which returned holds nothing rests  *)
(* on where each call is in generate().                                    *)
(***************************************************************************)
EXTENDS CudaEngine, CudaAllocator_proofs

Places == {"idle", "register", "mkExtend", "extend", "slots", "table", "length", "embed",
           "attend", "logits", "mkUpload", "mkLaunch", "mkLogits", "mkNote", "sample",
           "note", "decide", "release", "unregister", "done", "thrown"}

\* A call has a sequence in the allocator exactly between its two calls there.
NotLive == {"idle", "unregister", "done"}

\* Where a call has no session.
NoEntry == {"idle", "register", "done", "thrown"}

\* A sequence that is not live has no blocks; a block in use is counted once
\* and is in some table.
Owned ==
    /\ \A c \in Seqs : c \notin live => tables[c] = <<>>
    /\ \A b \in Blocks : refs[b] # 0 => refs[b] = 1 /\ Users(b) # {}

Calls ==
    /\ pc \in [Seqs -> Places]
    /\ sessions \in [Seqs -> Int]
    /\ \A c \in Seqs : c \in live <=> pc[c] \notin NotLive
    /\ \A c \in Seqs : pc[c] \in NoEntry => sessions[c] = NoSession

-----------------------------------------------------------------------------
(* What the engine does to the pool *)

PoolStep(c) == (\E n \in Nat : Allocate(c, n)) \/ Extend(c) \/ Free(c)

LEMMA EveryStepIsPoolStep ==
  ASSUME Next
  PROVE  UNCHANGED allocVars \/ \E c \in Seqs : PoolStep(c)
<1>1. ASSUME NEW c \in Seqs, Begin(c) PROVE PoolStep(c)
  <2>1. PromptLen[c] \in Nat
    BY EngineAssumption
  <2> QED
    BY <1>1, <2>1 DEF Begin, PoolStep
<1>2. ASSUME NEW c \in Seqs, BeginRefused(c) PROVE UNCHANGED allocVars
  BY <1>2 DEF BeginRefused
<1>3. ASSUME NEW c \in Seqs, Generate(c) PROVE UNCHANGED allocVars \/ PoolStep(c)
  BY <1>3 DEF Generate, Register, Release, Unregister, Throw, ExtendAtBoundary, MkExtend,
              UploadSlots, UploadTable, UploadLength, Embed, Attend, Logits, MkUpload,
              MkLaunch, MkLogits, MkNote, Sample, Note, Decide, PoolStep
<1>4. ASSUME NEW c \in Seqs, Inject(c) PROVE UNCHANGED allocVars \/ PoolStep(c)
  BY <1>4 DEF Inject, InjectStart, InjectExtend, InjectUpload, InjectLaunch, InjectLogits,
              InjectNote, InjectThrow, PoolStep
<1>5. ASSUME Quiet PROVE UNCHANGED allocVars
  BY <1>5 DEF Quiet, vars
<1> QED
  BY <1>1, <1>2, <1>3, <1>4, <1>5 DEF Next

\* generate() and inject_tokens use the pool through its methods only, and in
\* a way its specification allows.
THEOREM EngineUsesAllocator == Spec => AllocSpec
<1>1. Init => AllocInit
  BY DEF Init
<1>2. [Next]_vars => [AllocNext]_allocVars
  <2>1. ASSUME Next PROVE [AllocNext]_allocVars
    BY <2>1, EveryStepIsPoolStep DEF PoolStep, AllocNext
  <2>2. ASSUME UNCHANGED vars PROVE UNCHANGED allocVars
    BY <2>2 DEF vars
  <2> QED
    BY <2>1, <2>2
<1> QED
  BY <1>1, <1>2, PTL DEF Spec, AllocSpec

-----------------------------------------------------------------------------
(* One owner *)

LEMMA TakeOwned ==
  ASSUME AllocInv, Owned, NEW s \in Seqs, NEW t, NewTable(s, t),
         NEW n \in Nat, n <= Len(freeList), Pop(n),
         Range(tables[s]) \cup Range(Popped(n)) \subseteq Range(t)
  PROVE  \A b \in Blocks : refs'[b] # 0 => refs'[b] = 1 /\ Users(b)' # {}
<1>1. \A r \in Seqs : tables'[r] = IF r = s THEN t ELSE tables[r]
  BY NewTableTypes
<1>2. \A b \in Blocks : refs'[b] = IF b \in Range(Popped(n)) THEN 1 ELSE refs[b]
  BY PopExact DEF AllocInv
<1>3. ASSUME NEW b \in Blocks, refs'[b] # 0 PROVE refs'[b] = 1 /\ Users(b)' # {}
  <2>1. CASE b \in Range(Popped(n))
    <3>1. s \in Users(b)'
      BY <1>1, <2>1 DEF Users
    <3> QED
      BY <1>2, <2>1, <3>1
  <2>2. CASE b \notin Range(Popped(n))
    <3>1. refs'[b] = refs[b] /\ refs[b] = 1 /\ Users(b) # {}
      BY <1>2, <1>3, <2>2 DEF Owned
    <3>2. Users(b) \subseteq Users(b)'
      BY <1>1 DEF Users
    <3> QED
      BY <3>1, <3>2
  <2> QED
    BY <2>1, <2>2
<1> QED
  BY <1>3

LEMMA FreeOwned ==
  ASSUME AllocInv, Owned, NEW s \in Seqs, Free(s)
  PROVE  Owned'
<1>1. tables[s] \in Seq(Blocks) /\ refs \in [Blocks -> Nat]
  BY DEF AllocInv, AllocTypeOK
<1>2. \A b \in Range(tables[s]) : b \in Blocks /\ s \in Users(b)
  BY <1>1, RangeBlocks DEF Users
<1>3. \A b \in Range(tables[s]) : refs[b] >= 1
  BY <1>2, UsedIsCounted
<1>4. Push(tables[s]) /\ tables' = [tables EXCEPT ![s] = <<>>] /\ live' = live \ {s}
  BY DEF Free
<1>5. \A b \in Blocks : refs'[b] = IF b \in Range(tables[s]) THEN refs[b] - 1 ELSE refs[b]
  BY <1>1, <1>3, <1>4, PushExact DEF AllocInv
<1>6. \A r \in Seqs : tables'[r] = IF r = s THEN <<>> ELSE tables[r]
  BY <1>4 DEF AllocInv, AllocTypeOK
<1>7. ASSUME NEW b \in Blocks, refs'[b] # 0 PROVE refs'[b] = 1 /\ Users(b)' # {}
  <2>1. refs[b] # 0 /\ refs[b] \in Nat
    BY <1>1, <1>2, <1>3, <1>5, <1>7
  <2>2. refs[b] = 1 /\ Users(b) # {}
    BY <2>1 DEF Owned
  <2>3. b \notin Range(tables[s]) /\ refs'[b] = 1
    BY <1>5, <1>7, <2>2
  <2>4. PICK r \in Users(b) : TRUE
    BY <2>2
  <2>5. r \in Users(b)'
    BY <1>6, <2>3, <2>4 DEF Users
  <2> QED
    BY <2>3, <2>5
<1>8. \A c \in Seqs : c \notin live' => tables'[c] = <<>>
  BY <1>4, <1>6 DEF Owned
<1> QED
  BY <1>7, <1>8 DEF Owned

LEMMA PoolStepOwned ==
  ASSUME AllocInv, Owned, NEW c \in Seqs, PoolStep(c)
  PROVE  AllocInv' /\ Owned'
<1>1. ASSUME NEW n \in Nat, Allocate(c, n) PROVE AllocInv' /\ Owned'
  <2> DEFINE k == BlocksFor(n)
  <2>1. k \in Nat /\ k <= Len(freeList) /\ Pop(k) /\ c \notin live
    BY <1>1, BlocksForNat DEF Allocate
  <2>2. tables' = [tables EXCEPT ![c] = Popped(k)] /\ live' = live \cup {c}
    BY <1>1 DEF Allocate
  <2> HIDE DEF k
  <2>3. NewTable(c, Popped(k))
    BY <2>1, <2>2, PoppedBlocks DEF NewTable, AllocInv, AllocTypeOK
  <2>4. Range(tables[c]) = {}
    BY <2>1 DEF Owned, Range
  <2>5. \A b \in Blocks : refs'[b] # 0 => refs'[b] = 1 /\ Users(b)' # {}
    BY <2>1, <2>3, <2>4, TakeOwned
  <2>6. \A s \in Seqs : s \notin live' => tables'[s] = <<>>
    BY <2>2 DEF Owned, AllocInv, AllocTypeOK
  <2> QED
    BY <1>1, <2>5, <2>6, AllocatePreserves DEF Owned
<1>2. ASSUME Extend(c) PROVE AllocInv' /\ Owned'
  <2>1. 1 <= Len(freeList) /\ Pop(1)
    BY <1>2, FreeListLen DEF Extend
  <2>2. NewTable(c, tables[c] \o Popped(1))
    BY <1>2, <2>1, GrownTable DEF NewTable, Extend, AllocInv, AllocTypeOK
  <2>3. \A b \in Blocks : refs'[b] # 0 => refs'[b] = 1 /\ Users(b)' # {}
    BY <2>1, <2>2, GrownTable, TakeOwned
  <2>4. \A s \in Seqs : s \notin live' => tables'[s] = <<>>
    BY <1>2 DEF Extend, Owned, AllocInv, AllocTypeOK
  <2> QED
    BY <1>2, <2>3, <2>4, ExtendPreserves DEF Owned
<1>3. ASSUME Free(c) PROVE AllocInv' /\ Owned'
  BY <1>3, FreePreserves, FreeOwned
<1> QED
  BY <1>1, <1>2, <1>3 DEF PoolStep

-----------------------------------------------------------------------------
(* Where a call is, its session and its sequence *)

\* A step inside generate() that leaves sessions alone and keeps the sequence.
LEMMA MoveKeepsCalls ==
  ASSUME Calls, NEW c \in Seqs, NEW w \in Places \ (NotLive \cup NoEntry),
         pc[c] \notin NotLive \cup NoEntry,
         pc' = [pc EXCEPT ![c] = w], UNCHANGED <<live, sessions>>
  PROVE  Calls'
  BY DEF Calls, Places, NotLive, NoEntry

\* Nothing moves.
LEMMA StillKeepsCalls ==
  ASSUME Calls, UNCHANGED <<pc, live, sessions>>
  PROVE  Calls'
  BY DEF Calls

\* update_session_kv_len brings no session back.
LEMMA UpdateLenKeepsCalls ==
  ASSUME Calls, NEW c \in Seqs, NEW n \in Int, UpdateLen(c, n), UNCHANGED <<pc, live>>
  PROVE  Calls'
  BY DEF Calls, UpdateLen

LEMMA EntryKeepsCalls ==
  ASSUME Calls, NEW c \in Seqs,
         Begin(c) \/ BeginRefused(c) \/ Register(c) \/ Release(c) \/ Unregister(c) \/ Throw(c)
  PROVE  Calls'
<1>1. CASE Begin(c)
  BY <1>1 DEF Calls, Places, NotLive, NoEntry, Begin, Goto, Allocate
<1>2. CASE BeginRefused(c)
  BY <1>2 DEF Calls, Places, NotLive, NoEntry, BeginRefused, Goto, allocVars
<1>3. CASE Register(c)
  BY <1>3 DEF Calls, Places, NotLive, NoEntry, Register, Goto, allocVars
<1>4. CASE Release(c)
  BY <1>4 DEF Calls, Places, NotLive, NoEntry, Release, Goto, Free
<1>5. CASE Unregister(c)
  BY <1>5 DEF Calls, Places, NotLive, NoEntry, Unregister, Goto, allocVars, NoSession
<1>6. CASE Throw(c)
  BY <1>6 DEF Calls, Places, NotLive, NoEntry, Throw, Goto, allocVars, NoSession
<1> QED
  BY <1>1, <1>2, <1>3, <1>4, <1>5, <1>6

LEMMA ForwardKeepsCalls ==
  ASSUME Calls, NEW c \in Seqs,
         \/ ExtendAtBoundary(c) \/ MkExtend(c)
         \/ UploadSlots(c) \/ UploadTable(c) \/ UploadLength(c)
         \/ Embed(c) \/ Attend(c) \/ Logits(c)
         \/ MkUpload(c) \/ MkLaunch(c) \/ MkLogits(c) \/ Sample(c) \/ Decide(c)
  PROVE  Calls'
<1>1. CASE ExtendAtBoundary(c)
  BY <1>1, MoveKeepsCalls, StillKeepsCalls
     DEF ExtendAtBoundary, Goto, allocVars, Places, NotLive, NoEntry, ForwardStart, Extend
<1>2. CASE MkExtend(c)
  BY <1>2, MoveKeepsCalls, StillKeepsCalls
     DEF MkExtend, Goto, allocVars, Places, NotLive, NoEntry, ForwardStart, Extend
<1>3. CASE UploadSlots(c)
  BY <1>3, MoveKeepsCalls, StillKeepsCalls
     DEF UploadSlots, Goto, allocVars, Places, NotLive, NoEntry
<1>4. CASE UploadTable(c)
  BY <1>4, MoveKeepsCalls, StillKeepsCalls
     DEF UploadTable, Goto, allocVars, Places, NotLive, NoEntry
<1>5. CASE UploadLength(c)
  BY <1>5, MoveKeepsCalls, StillKeepsCalls
     DEF UploadLength, Goto, allocVars, Places, NotLive, NoEntry
<1>6. CASE Embed(c)
  BY <1>6, MoveKeepsCalls, StillKeepsCalls
     DEF Embed, Goto, allocVars, Places, NotLive, NoEntry
<1>7. CASE Attend(c)
  BY <1>7, MoveKeepsCalls, StillKeepsCalls
     DEF Attend, Goto, allocVars, Places, NotLive, NoEntry
<1>8. CASE Logits(c)
  BY <1>8, MoveKeepsCalls, StillKeepsCalls
     DEF Logits, Goto, allocVars, Places, NotLive, NoEntry
<1>9. CASE MkUpload(c)
  BY <1>9, MoveKeepsCalls, StillKeepsCalls
     DEF MkUpload, Goto, allocVars, Places, NotLive, NoEntry
<1>10. CASE MkLaunch(c)
  BY <1>10, MoveKeepsCalls, StillKeepsCalls
     DEF MkLaunch, Goto, allocVars, Places, NotLive, NoEntry
<1>11. CASE MkLogits(c)
  BY <1>11, MoveKeepsCalls, StillKeepsCalls
     DEF MkLogits, Goto, allocVars, Places, NotLive, NoEntry
<1>12. CASE Sample(c)
  BY <1>12, MoveKeepsCalls, StillKeepsCalls
     DEF Sample, Goto, allocVars, Places, NotLive, NoEntry
<1>13. CASE Decide(c)
  BY <1>13, MoveKeepsCalls, StillKeepsCalls
     DEF Decide, Goto, allocVars, Places, NotLive, NoEntry
<1> QED
  BY <1>1, <1>2, <1>3, <1>4, <1>5, <1>6, <1>7, <1>8, <1>9, <1>10, <1>11, <1>12, <1>13

LEMMA NoteKeepsCalls ==
  ASSUME Calls, NEW c \in Seqs, pos[c] \in Int, kept[c] \in Int, MkNote(c) \/ Note(c)
  PROVE  Calls'
<1>1. CASE MkNote(c)
  BY <1>1 DEF Calls, Places, NotLive, NoEntry, MkNote, UpdateLen, Goto, allocVars
<1>2. CASE Note(c)
  BY <1>2 DEF Calls, Places, NotLive, NoEntry, Note, UpdateLen, Goto, allocVars
<1> QED
  BY <1>1, <1>2

LEMMA InjectKeepsCalls ==
  ASSUME Calls, NEW c \in Seqs, inject[c].from \in Int, Inject(c)
  PROVE  Calls'
<1>1. CASE InjectStart(c) \/ InjectUpload(c) \/ InjectLaunch(c) \/ InjectLogits(c) \/ InjectThrow(c)
  BY <1>1, StillKeepsCalls
     DEF InjectStart, InjectUpload, InjectLaunch, InjectLogits, InjectThrow, allocVars
<1>2. CASE InjectExtend(c)
  BY <1>2, StillKeepsCalls DEF InjectExtend, Extend, allocVars
<1>3. CASE InjectNote(c)
  <2>1. InjectEnd(c) \in Int
    BY EngineAssumption DEF InjectEnd
  <2> QED
    BY <1>3, <2>1, UpdateLenKeepsCalls DEF InjectNote, allocVars
<1> QED
  BY <1>1, <1>2, <1>3 DEF Inject

-----------------------------------------------------------------------------
(* Types *)

\* The contents of d_mk_input_ids_, once it has any.
Tokens == [call : Seqs, from : Int]

\* TypeOK without the allocator, and what a step relies on to keep it: a buffer
\* is read only once something is in it.
Typed ==
    /\ megakernel \in BOOLEAN
    /\ kept \in [Seqs -> Nat]
    /\ pos \in [Seqs -> Nat]
    /\ made \in [Seqs -> Nat]
    /\ sessions \in [Seqs -> Nat \cup {NoSession}]
    /\ inject \in [Seqs -> [at : {"off", "extend", "upload", "launch", "logits", "note",
                                  "over"}, from : Nat, next : Nat]]
    /\ smBuf \in Slots \cup {NoSlot}
    /\ btBuf \in Seq(Blocks)
    /\ seqLen \in Nat
    /\ residual \in Output \cup {None}
    /\ mkInput \in Tokens \cup {None}
    /\ argmax \in Output \cup {None}
    /\ logits \in Output \cup {None}
    /\ kv \in [Slots -> (Seqs \X Int) \cup {None}]
    /\ disturbed \subseteq Seqs

Ready ==
    /\ \A c \in Seqs : pc[c] = "mkExtend" => kept[c] >= 1
    /\ \A c \in Seqs : pc[c] \in {"attend", "logits"} => residual \in Output
    /\ \A c \in Seqs : pc[c] = "mkLaunch" => mkInput \in Tokens
    /\ \A c \in Seqs : inject[c].at = "launch" => mkInput \in Tokens

LEMMA SlotOfType ==
  ASSUME NEW bt \in Seq(Blocks), NEW p \in Nat
  PROVE  SlotOf(bt, p) \in Slots \cup {NoSlot}
<1> DEFINE q == p \div BlockSize
           r == p % BlockSize
<1>1. BlockSize \in Nat /\ BlockSize > 0 /\ NumBlocks \in Nat /\ Len(bt) \in Nat
  BY AllocatorAssumption, LenProperties
<1>2. q \in Nat /\ r \in 0 .. BlockSize - 1
  BY <1>1
<1> HIDE DEF q, r
<1>3. CASE q < Len(bt)
  <2>1. q + 1 \in 1 .. Len(bt)
    BY <1>1, <1>2, <1>3
  <2>2. bt[q + 1] \in 0 .. NumBlocks - 1
    BY <2>1, LenProperties DEF Blocks
  <2> DEFINE b == bt[q + 1]
  <2> HIDE DEF b
  <2>3. b \in Nat /\ b + 1 <= NumBlocks
    BY <1>1, <2>2 DEF b
  <2>4. /\ b * BlockSize \in Nat
        /\ (b + 1) * BlockSize <= NumBlocks * BlockSize
        /\ (b + 1) * BlockSize = b * BlockSize + BlockSize
    BY <1>1, <2>3
  <2>5. b * BlockSize + r \in 0 .. NumBlocks * BlockSize - 1
    BY <1>1, <1>2, <2>4
  <2> QED
    BY <1>3, <2>5 DEF SlotOf, Slots, b, q, r
<1>4. CASE ~(q < Len(bt))
  BY <1>4 DEF SlotOf, q
<1> QED
  BY <1>3, <1>4

LEMMA CachePairs ==
  ASSUME Typed, mkInput \in Tokens, NEW start \in Int, NEW n \in Int
  PROVE  MegakernelCache(start, n) \in [Slots -> (Seqs \X Int) \cup {None}]
<1>1. mkInput.call \in Seqs /\ mkInput.from \in Int
  BY DEF Tokens
<1>2. ASSUME NEW s \in Slots
      PROVE  <<mkInput.call, mkInput.from + s - start>> \in Seqs \X Int
  BY <1>1 DEF Slots
<1> QED
  BY <1>2 DEF MegakernelCache, Typed

LEMMA EntryTyped ==
  ASSUME Typed, Ready, Calls, NEW c \in Seqs,
         Begin(c) \/ BeginRefused(c) \/ Register(c) \/ Release(c) \/ Unregister(c) \/ Throw(c)
  PROVE  Typed' /\ Ready'
<1> USE DEF Typed, Ready, Calls, Goto, hostVars, deviceVars
<1>1. CASE Begin(c)
  BY <1>1 DEF Begin, Disturb, Running, Injecting
<1>2. CASE BeginRefused(c)
  BY <1>2 DEF BeginRefused
<1>3. CASE Register(c)
  <2>1. PICK n \in 1 .. PromptLen[c] : kept' = [kept EXCEPT ![c] = n]
    BY <1>3 DEF Register
  <2>2. n \in Nat /\ n >= 1 /\ BlockSize \in Nat
    BY AllocatorAssumption, EngineAssumption
  <2>3. kept' \in [Seqs -> Nat] /\ pos' \in [Seqs -> Nat]
    BY <1>3, <2>1, <2>2 DEF Register
  <2>4. sessions' \in [Seqs -> Nat \cup {NoSession}]
    BY <1>3 DEF Register
  <2>5. Typed'
    BY <1>3, <2>3, <2>4 DEF Register
  <2>6. Ready'
    BY <1>3, <2>1, <2>2 DEF Register
  <2> QED
    BY <2>5, <2>6
<1>4. CASE Release(c)
  BY <1>4 DEF Release
<1>5. CASE Unregister(c)
  BY <1>5 DEF Unregister
<1>6. CASE Throw(c)
  BY <1>6 DEF Throw
<1> QED
  BY <1>1, <1>2, <1>3, <1>4, <1>5, <1>6

LEMMA PagedTyped ==
  ASSUME Typed, Ready, Calls, AllocTypeOK, NEW c \in Seqs,
         \/ ExtendAtBoundary(c) \/ UploadSlots(c) \/ UploadTable(c) \/ UploadLength(c)
         \/ Embed(c) \/ Attend(c) \/ Logits(c)
  PROVE  Typed' /\ Ready'
<1> USE DEF Typed, Ready, Calls, Goto, hostVars, deviceVars
<1>1. CASE ExtendAtBoundary(c)
  BY <1>1 DEF ExtendAtBoundary, ForwardStart, Places
<1>2. CASE UploadSlots(c)
  <2>1. smBuf' \in Slots \cup {NoSlot}
    BY <1>2, SlotOfType DEF UploadSlots, AllocTypeOK
  <2> QED
    BY <1>2, <2>1 DEF UploadSlots
<1>3. CASE UploadTable(c)
  BY <1>3 DEF UploadTable, AllocTypeOK
<1>4. CASE UploadLength(c)
  BY <1>4 DEF UploadLength
<1>5. CASE Embed(c)
  <2>1. residual' \in Output
    BY <1>5 DEF Embed, Output
  <2>2. Typed'
    BY <1>5, <2>1 DEF Embed
  <2>3. Ready'
    BY <1>5, <2>1 DEF Embed
  <2> QED BY ONLY <2>2, <2>3
<1>6. CASE Attend(c)
  <2>1. residual \in Output
    BY <1>6 DEF Attend
  <2>2. kv' \in [Slots -> (Seqs \X Int) \cup {None}]
    BY <1>6, <2>1 DEF Attend, Output
  <2>3. residual' \in Output
    BY <1>6, <2>1 DEF Attend, Output, ReadsHistory
  <2> QED
    <3>1. Typed'
      BY <1>6, <2>2, <2>3 DEF Attend
    <3>2. \A d \in Seqs : pc'[d] # "mkExtend" \/ pc[d] = "mkExtend"
      BY <1>6 DEF Attend
    <3>3. UNCHANGED <<kept, mkInput, inject>>
      BY <1>6 DEF Attend
    <3>4. \A d \in Seqs : pc'[d] = "mkLaunch" => pc[d] = "mkLaunch"
      BY <1>6 DEF Attend
    <3>5. Ready'
      BY <2>3, <3>2, <3>3, <3>4
    <3> QED
      BY <3>1, <3>5
<1>7. CASE Logits(c)
  <2>1. residual \in Output /\ logits' = residual
    BY <1>7 DEF Logits
  <2>2. pos' \in [Seqs -> Nat]
    BY <1>7 DEF Logits
  <2>3. Typed'
    BY <1>7, <2>1, <2>2 DEF Logits
  <2>4. Ready'
    BY <1>7 DEF Logits
  <2> QED
    BY <2>3, <2>4
<1> QED
  BY <1>1, <1>2, <1>3, <1>4, <1>5, <1>6, <1>7

LEMMA MegakernelTyped ==
  ASSUME Typed, Ready, Calls, NEW c \in Seqs,
         MkExtend(c) \/ MkUpload(c) \/ MkLaunch(c) \/ MkLogits(c) \/ MkNote(c)
  PROVE  Typed' /\ Ready'
<1> USE DEF Typed, Ready, Calls, Goto, hostVars, deviceVars
<1>1. CASE MkExtend(c)
  <2>1. pos' \in [Seqs -> Nat]
    <3>1. pos[c] + BlockSize \in Nat
      BY AllocatorAssumption
    <3>2. pos[c] >= kept[c] /\ pc[c] = "mkExtend" => kept[c] - 1 \in Nat
      OBVIOUS
    <3>3. pc[c] = "mkExtend"
      BY <1>1 DEF MkExtend
    <3>4. \/ pos' = pos
          \/ pos' = [pos EXCEPT ![c] = pos[c] + BlockSize]
          \/ pos' = [pos EXCEPT ![c] = kept[c] - 1] /\ pos[c] >= kept[c]
      BY <1>1 DEF MkExtend
    <3>5. pos \in [Seqs -> Nat]
      OBVIOUS
    <3> QED
      BY ONLY <3>1, <3>2, <3>3, <3>4, <3>5
  <2>2. Typed'
    BY <1>1, <2>1 DEF MkExtend
  <2>3. Ready'
    BY <1>1 DEF MkExtend, ForwardStart
  <2> QED
    BY <2>2, <2>3
<1>2. CASE MkUpload(c)
  <2>1. mkInput' \in Tokens
    BY <1>2 DEF MkUpload, MkFrom, Tokens
  <2> QED
    BY <1>2, <2>1 DEF MkUpload
<1>3. CASE MkLaunch(c)
  <2>1. MkFrom(c) \in Int /\ pos[c] + 1 - MkFrom(c) \in Int /\ mkInput \in Tokens
    BY <1>3 DEF MkLaunch, MkFrom
  <2>2. kv' \in [Slots -> (Seqs \X Int) \cup {None}]
    BY <1>3, <2>1, CachePairs DEF MkLaunch
  <2>3. argmax' \in Output
    BY <1>3, <2>1 DEF MkLaunch, Output, MkHistory, Tokens
  <2> QED
    BY <1>3, <2>2, <2>3 DEF MkLaunch
<1>4. CASE MkLogits(c)
  BY <1>4 DEF MkLogits
<1>5. CASE MkNote(c)
  BY <1>5 DEF MkNote, UpdateLen
<1> QED
  BY <1>1, <1>2, <1>3, <1>4, <1>5

LEMMA DecodeTyped ==
  ASSUME Typed, Ready, Calls, NEW c \in Seqs, Sample(c) \/ Note(c) \/ Decide(c)
  PROVE  Typed' /\ Ready'
<1> USE DEF Typed, Ready, Calls, Goto, hostVars, deviceVars
<1>1. CASE Sample(c)
  <2>1. Typed'
    BY <1>1 DEF Sample
  <2>2. Ready'
    BY <1>1 DEF Sample
  <2> QED BY ONLY <2>1, <2>2
<1>2. CASE Note(c)
  <2>1. /\ pos' \in [Seqs -> Nat]
        /\ sessions' \in [Seqs -> Nat \cup {NoSession}]
    BY <1>2 DEF Note, UpdateLen
  <2> QED
    BY <1>2, <2>1 DEF Note
<1>3. CASE Decide(c)
  <2>1. made' \in [Seqs -> Nat]
    BY <1>3 DEF Decide
  <2>2. Typed'
    BY <1>3, <2>1 DEF Decide
  <2>3. Ready'
    BY <1>3 DEF Decide
  <2> QED
    BY <2>2, <2>3
<1> QED
  BY <1>1, <1>2, <1>3

LEMMA InjectTyped ==
  ASSUME Typed, Ready, Calls, NEW c \in Seqs, Inject(c)
  PROVE  Typed' /\ Ready'
<1> USE DEF Typed, Ready, Calls, InjectGoto, hostVars, deviceVars
<1>1. InjectLen \in Nat /\ InjectEnd(c) \in Nat /\ InjectEnd(c) - 1 \in Nat
  BY EngineAssumption DEF InjectEnd
<1>2. CASE InjectStart(c)
  BY <1>2 DEF InjectStart, Disturb, Running, Injecting
<1>3. CASE InjectExtend(c)
  <2> DEFINE Stage == {"off", "extend", "upload", "launch", "logits", "note", "over"}
             Call == [at : Stage, from : Nat, next : Nat]
  <2>1. /\ inject' \in [Seqs -> Call]
        /\ \A d \in Seqs : inject'[d].at = "launch" => inject[d].at = "launch"
    <3>0. inject \in [Seqs -> Call] /\ inject[c] \in Call
      OBVIOUS
    <3>1. CASE \E at \in {"upload", "over"} : inject' = [inject EXCEPT ![c].at = at]
      <4>1. PICK at \in {"upload", "over"} : inject' = [inject EXCEPT ![c].at = at]
        BY <3>1
      <4>2. [inject[c] EXCEPT !.at = at] \in Call /\ at # "launch"
        BY <3>0, <4>1
      <4> QED
        BY <3>0, <4>1, <4>2
    <3>2. CASE inject' = [inject EXCEPT ![c].next = inject[c].next + 1]
      <4>1. inject[c].next + 1 \in Nat
        BY <3>0
      <4>2. /\ [inject[c] EXCEPT !.next = inject[c].next + 1] \in Call
            /\ [inject[c] EXCEPT !.next = inject[c].next + 1].at = inject[c].at
        BY <3>0, <4>1
      <4> QED
        BY <3>0, <3>2, <4>2
    <3> QED
      BY <1>3, <3>1, <3>2 DEF InjectExtend
  <2> QED
    BY <1>3, <2>1 DEF InjectExtend
<1>4. CASE InjectUpload(c)
  <2>1. mkInput' \in Tokens
    BY <1>1, <1>4 DEF InjectUpload, Tokens
  <2> QED
    BY <1>4, <2>1 DEF InjectUpload
<1>5. CASE InjectLaunch(c)
  <2>1. mkInput \in Tokens /\ inject[c].from \in Int
    BY <1>5 DEF InjectLaunch
  <2>2. kv' \in [Slots -> (Seqs \X Int) \cup {None}]
    <3>1. kv' = MegakernelCache(inject[c].from, InjectLen)
      BY <1>5 DEF InjectLaunch
    <3>2. InjectLen \in Int
      BY <1>1
    <3> QED
      BY <2>1, <3>1, <3>2, CachePairs
  <2>3. argmax' \in Output
    BY <1>1, <1>5, <2>1 DEF InjectLaunch, Output, Tokens
  <2> QED
    BY <1>5, <2>2, <2>3 DEF InjectLaunch
<1>6. CASE InjectLogits(c)
  BY <1>6 DEF InjectLogits
<1>7. CASE InjectNote(c)
  BY <1>1, <1>7 DEF InjectNote, UpdateLen
<1>8. CASE InjectThrow(c)
  BY <1>8 DEF InjectThrow
<1> QED
  BY <1>2, <1>3, <1>4, <1>5, <1>6, <1>7, <1>8 DEF Inject

-----------------------------------------------------------------------------
(* The theorems *)

EngineInv == AllocInv /\ Owned /\ Calls /\ Typed /\ Ready

LEMMA EngineInvInit == Init => EngineInv
<1> SUFFICES ASSUME Init PROVE EngineInv
  OBVIOUS
<1>1. AllocInv
  BY AllocInvInit DEF Init
<1>2. Owned
  BY DEF Init, AllocInit, Owned
<1>3. Calls
  BY DEF Init, AllocInit, Calls, Places, NotLive, NoEntry, NoSession
<1>4. Typed
  BY DEF Init, Typed, Idle
<1>5. Ready
  BY DEF Init, Ready, Idle
<1> QED
  BY <1>1, <1>2, <1>3, <1>4, <1>5 DEF EngineInv

LEMMA EngineInvStep == EngineInv /\ [Next]_vars => EngineInv'
<1> SUFFICES ASSUME EngineInv, [Next]_vars PROVE EngineInv'
  OBVIOUS
<1>1. AllocInv /\ Owned /\ Calls /\ Typed /\ Ready /\ AllocTypeOK
  BY DEF EngineInv, AllocInv
<1>2. ASSUME UNCHANGED allocVars PROVE AllocInv' /\ Owned'
  BY <1>1, <1>2 DEF allocVars, AllocInv, AllocTypeOK, UsedBlocksCounted, Users, FreeListExact,
                    TablesInjective, Owned
<1>3. ASSUME Next PROVE AllocInv' /\ Owned'
  BY <1>1, <1>2, <1>3, EveryStepIsPoolStep, PoolStepOwned
<1>4. ASSUME NEW c \in Seqs, Begin(c) \/ BeginRefused(c) PROVE Calls' /\ Typed' /\ Ready'
  BY <1>1, <1>4, EntryKeepsCalls, EntryTyped
<1>5. ASSUME NEW c \in Seqs, Generate(c) PROVE Calls' /\ Typed' /\ Ready'
  <2>1. CASE Register(c) \/ Release(c) \/ Unregister(c) \/ Throw(c)
    BY <1>1, <2>1, EntryKeepsCalls, EntryTyped
  <2>2. CASE \/ ExtendAtBoundary(c) \/ UploadSlots(c) \/ UploadTable(c) \/ UploadLength(c)
             \/ Embed(c) \/ Attend(c) \/ Logits(c)
    BY <1>1, <2>2, ForwardKeepsCalls, PagedTyped
  <2>3. CASE MkExtend(c) \/ MkUpload(c) \/ MkLaunch(c) \/ MkLogits(c)
    BY <1>1, <2>3, ForwardKeepsCalls, MegakernelTyped
  <2>4. CASE Sample(c) \/ Decide(c)
    BY <1>1, <2>4, ForwardKeepsCalls, DecodeTyped
  <2>5. CASE MkNote(c) \/ Note(c)
    <3>1. pos[c] \in Int /\ kept[c] \in Int
      BY <1>1 DEF Typed
    <3> QED
      BY <1>1, <2>5, <3>1, NoteKeepsCalls, MegakernelTyped, DecodeTyped
  <2> QED
    BY <1>5, <2>1, <2>2, <2>3, <2>4, <2>5 DEF Generate
<1>6. ASSUME NEW c \in Seqs, Inject(c) PROVE Calls' /\ Typed' /\ Ready'
  <2>1. inject[c].from \in Int
    BY <1>1 DEF Typed
  <2> QED
    BY <1>1, <1>6, <2>1, InjectKeepsCalls, InjectTyped
<1>7. ASSUME UNCHANGED vars PROVE EngineInv'
  <2>1. UNCHANGED allocVars /\ UNCHANGED engineVars
    BY <1>7 DEF vars
  <2>2. Calls' /\ Typed' /\ Ready'
    BY <1>1, <2>1 DEF allocVars, engineVars, hostVars, deviceVars, Calls, Typed, Ready
  <2> QED
    BY <1>2, <2>1, <2>2 DEF EngineInv
<1>8. ASSUME Next PROVE EngineInv'
  <2>1. CASE Quiet
    BY <1>7, <2>1 DEF Quiet
  <2>2. CASE \E c \in Seqs : Begin(c) \/ BeginRefused(c) \/ Generate(c) \/ Inject(c)
    BY <1>3, <1>4, <1>5, <1>6, <1>8, <2>2 DEF EngineInv
  <2> QED
    BY <1>8, <2>1, <2>2 DEF Next
<1> QED
  BY <1>7, <1>8

LEMMA EngineInvAlways == Spec => []EngineInv
  BY EngineInvInit, EngineInvStep, PTL DEF Spec

\* Every reachable state of the engine is well typed: in particular the slot of
\* a position is a slot of the pool, whatever the calls do to each other.
THEOREM EngineTypeCorrect == Spec => []TypeOK
<1>1. EngineInv => TypeOK
  BY DEF EngineInv, AllocInv, Calls, Typed, TypeOK, Places, Tokens
<1> QED
  BY <1>1, EngineInvAlways, PTL

\* A block is free, held by one call that runs, or leaked by one that threw, however
\* calls and injections interleave, run out of blocks or throw.
THEOREM OnlyThrowLoses == Spec => []BlocksConserved
<1>1. ASSUME EngineInv, NEW b \in Blocks, b \in Range(freeList) PROVE Users(b) = {}
  <2>1. refs[b] = 0
    BY <1>1 DEF EngineInv, AllocInv, FreeListExact
  <2> QED
    BY <1>1, <2>1, UsedIsCounted DEF EngineInv
<1>2. ASSUME EngineInv, NEW b \in Blocks, b \notin Range(freeList)
      PROVE  \E c \in Seqs : Users(b) = {c} /\ (c \in Running \/ pc[c] = "thrown")
  <2>1. refs[b] = 1 /\ Users(b) # {}
    BY <1>2 DEF EngineInv, AllocInv, FreeListExact, Owned
  <2>2. Cardinality(Users(b)) <= 1
    BY <1>2, <2>1 DEF EngineInv, AllocInv, UsedBlocksCounted
  <2>3. Cardinality(Users(b)) = 1
    BY <2>1, <2>2, UsersFinite, FS_EmptySet
  <2>4. PICK c : Users(b) = {c}
    BY <2>3, UsersFinite, FS_Singleton
  <2>5. c \in Seqs /\ tables[c] # <<>>
    <3>1. c \in Seqs /\ b \in Range(tables[c])
      BY <2>4 DEF Users
    <3>2. Range(<<>>) = {}
      BY DEF Range
    <3> QED
      BY <3>1, <3>2
  <2>6. c \in Running \/ pc[c] = "thrown"
    BY <1>2, <2>5 DEF EngineInv, Owned, Calls, NotLive, Running
  <2> QED
    BY <2>4, <2>5, <2>6
<1>3. EngineInv => BlocksConserved
  BY <1>1, <1>2 DEF BlocksConserved
<1> QED
  BY <1>3, EngineInvAlways, PTL

\* A call that returned left neither a session nor a block, not even to an
\* injection that is still at work on it.
THEOREM ReturnedIsClean == Spec => []ReturnsClean
<1>1. EngineInv => ReturnsClean
  BY DEF EngineInv, Owned, Calls, NotLive, NoEntry, ReturnsClean
<1> QED
  BY <1>1, EngineInvAlways, PTL

-----------------------------------------------------------------------------
(* Every position forwarded has a block *)

LEMMA Split ==
  ASSUME NEW p \in Nat
  PROVE  \E q \in Nat, r \in 0 .. BlockSize - 1 :
             /\ q = p \div BlockSize /\ r = p % BlockSize
             /\ p = q * BlockSize + r
<1> DEFINE q == p \div BlockSize
           r == p % BlockSize
           m == q * BlockSize
<1>1. BlockSize \in Nat /\ BlockSize > 0
  BY AllocatorAssumption
<1>2. q \in Nat /\ r \in 0 .. BlockSize - 1
  BY <1>1
<1>3. p - m = r
  BY <1>1
<1> HIDE DEF q, r
<1>4. m \in Nat
  BY <1>1, <1>2
<1> HIDE DEF m
<1>5. p = m + r
  BY <1>2, <1>3, <1>4
<1> QED
  BY <1>2, <1>5 DEF m, q, r

LEMMA Scale ==
  ASSUME NEW a \in Nat, NEW b \in Nat, a < b
  PROVE  a * BlockSize + BlockSize <= b * BlockSize
<1>1. PICK d \in Nat : b = a + 1 + d
  <2>1. b - a - 1 \in Nat /\ b = a + 1 + (b - a - 1)
    OBVIOUS
  <2> QED
    BY <2>1
<1>2. b * BlockSize = a * BlockSize + BlockSize + d * BlockSize /\ d * BlockSize >= 0
  BY <1>1, AllocatorAssumption
<1>3. a * BlockSize \in Nat /\ b * BlockSize \in Nat /\ d * BlockSize \in Nat /\ BlockSize \in Nat
  BY <1>1, AllocatorAssumption
<1> QED
  BY <1>2, <1>3

\* A position below n blocks lies in one of them.
LEMMA BlockOf ==
  ASSUME NEW p \in Nat, NEW n \in Nat, p < n * BlockSize
  PROVE  p \div BlockSize < n
<1> DEFINE q == p \div BlockSize
           r == p % BlockSize
<1>1. q \in Nat /\ r \in Nat /\ p = q * BlockSize + r /\ BlockSize \in Nat
  BY Split, AllocatorAssumption
<1> HIDE DEF q, r
<1>2. n * BlockSize \in Nat /\ q * BlockSize \in Nat
  BY <1>1
<1>3. CASE n <= q
  <2>1. n * BlockSize <= q * BlockSize
    BY <1>1, <1>2, <1>3, Scale
  <2> QED
    BY <1>1, <1>2, <2>1
<1> QED
  BY <1>1, <1>3 DEF q

\* Blocks are full only at a boundary.
LEMMA NotFull ==
  ASSUME NEW p \in Nat, NEW n \in Nat, p <= n * BlockSize, p % BlockSize # 0
  PROVE  p < n * BlockSize
<1> DEFINE q == p \div BlockSize
           r == p % BlockSize
<1>1. q \in Nat /\ r \in 1 .. BlockSize - 1 /\ p = q * BlockSize + r /\ BlockSize \in Nat
  BY Split, AllocatorAssumption
<1> HIDE DEF q, r
<1>2. n * BlockSize \in Nat /\ q * BlockSize \in Nat
  BY <1>1
<1>3. CASE n <= q
  <2>1. n * BlockSize <= q * BlockSize
    BY <1>1, <1>2, <1>3, Scale
  <2> QED
    BY <1>1, <1>2, <2>1
<1>4. CASE q < n
  BY <1>1, <1>2, <1>4, Scale
<1> QED
  BY <1>1, <1>3, <1>4

LEMMA BlocksForHold ==
  ASSUME NEW n \in Nat
  PROVE  n <= BlocksFor(n) * BlockSize
<1> DEFINE m == n + BlockSize - 1
<1>1. m \in Nat /\ BlockSize \in Nat /\ BlockSize >= 1
  BY AllocatorAssumption
<1>2. BlocksFor(n) = IF m \div BlockSize < 1 THEN 1 ELSE m \div BlockSize
  BY DEF BlocksFor
<1> HIDE DEF m
<1>3. PICK k \in Nat, r \in 0 .. BlockSize - 1 :
         k = m \div BlockSize /\ m = k * BlockSize + r
  BY <1>1, Split
<1>4. k * BlockSize \in Nat
  BY <1>1
<1>5. n <= k * BlockSize
  BY <1>1, <1>3, <1>4 DEF m
<1>6. CASE k < 1
  <2>1. k = 0 /\ BlocksFor(n) = 1
    BY <1>2, <1>3, <1>6
  <2> QED
    BY <1>1, <1>5, <2>1
<1>7. CASE ~(k < 1)
  BY <1>2, <1>3, <1>5, <1>7
<1> QED
  BY <1>6, <1>7

\* The positions a call has blocks for.
Held(c) == Len(tables[c]) * BlockSize

PagedAt == {"slots", "table", "length", "embed", "attend", "logits"}
MegaAt == {"mkUpload", "mkLaunch", "mkLogits", "mkNote"}

\* The prompt has its blocks as long as the sequence lives, and so has each
\* position that is forwarded or sampled from; a position about to be forwarded
\* is at most one block boundary ahead.
RoomOf(c) ==
    /\ kept[c] <= PromptLen[c]
    /\ pc[c] \notin NotLive => PromptLen[c] <= Held(c)
    /\ pc[c] \in {"extend", "decide"} => pos[c] <= Held(c)
    /\ pc[c] \in PagedAt \cup MegaAt \cup {"sample", "note"} => pos[c] < Held(c)

\* Which path a call is on, and where it is in its prompt.
StageOf(c) ==
    /\ pc[c] \in PagedAt => ~megakernel
    /\ pc[c] \in MegaAt \cup {"mkExtend"} => megakernel
    /\ pc[c] \in {"note", "decide"} => ~Prefilling(c)
    /\ pc[c] = "extend" /\ megakernel => ~Prefilling(c)
    /\ pc[c] \in MegaAt \cup {"sample"} /\ Prefilling(c) => pos[c] + 1 = kept[c]

Placed == \A c \in Seqs : RoomOf(c) /\ StageOf(c)

LEMMA HeldNat ==
  ASSUME AllocTypeOK, NEW c \in Seqs
  PROVE  Len(tables[c]) \in Nat /\ Held(c) \in Nat
<1>1. Len(tables[c]) \in Nat
  BY LenProperties DEF AllocTypeOK
<1> QED
  BY <1>1, AllocatorAssumption DEF Held

\* A call that does nothing keeps its place, whether or not its table grows.
LEMMA StayPlaced ==
  ASSUME NEW c \in Seqs, RoomOf(c), StageOf(c), AllocTypeOK, AllocTypeOK', Typed,
         pc'[c] = pc[c], pos'[c] = pos[c], kept'[c] = kept[c], megakernel' = megakernel,
         Len(tables[c]) <= Len(tables'[c])
  PROVE  RoomOf(c)' /\ StageOf(c)'
<1>1. Held(c) <= Held(c)' /\ Held(c) \in Nat /\ Held(c)' \in Nat
  <2>1. Len(tables[c]) \in Nat /\ Len(tables'[c]) \in Nat
    BY HeldNat, LenProperties DEF AllocTypeOK
  <2>2. Len(tables[c]) * BlockSize <= Len(tables'[c]) * BlockSize
    BY <2>1, Scale, AllocatorAssumption
  <2> QED
    BY <2>1, <2>2, AllocatorAssumption DEF Held
<1>2. kept[c] \in Nat /\ pos[c] \in Nat /\ PromptLen[c] \in Nat
  BY EngineAssumption DEF Typed
<1> QED
  BY <1>1, <1>2 DEF RoomOf, StageOf, Prefilling

\* What Extend does to the tables.
LEMMA ExtendTable ==
  ASSUME AllocInv, NEW c \in Seqs, Extend(c)
  PROVE  /\ tables'[c] \in Seq(Blocks)
         /\ Len(tables'[c]) = Len(tables[c]) + 1
         /\ \A i \in 1 .. Len(tables[c]) : tables'[c][i] = tables[c][i]
         /\ \A d \in Seqs \ {c} : tables'[d] = tables[d]
<1>1. 1 <= Len(freeList)
  BY FreeListLen DEF Extend
<1>2. tables[c] \in Seq(Blocks) /\ tables \in [Seqs -> Seq(Blocks)]
  BY DEF AllocInv, AllocTypeOK
<1>3. Popped(1) \in Seq(Blocks) /\ Len(Popped(1)) = 1
  BY <1>1, PoppedBlocks DEF AllocInv, AllocTypeOK
<1>4. tables'[c] = tables[c] \o Popped(1) /\ \A d \in Seqs \ {c} : tables'[d] = tables[d]
  BY <1>2 DEF Extend
<1> DEFINE g == Popped(1)
<1> HIDE DEF g
<1>5. /\ tables[c] \o g \in Seq(Blocks)
      /\ Len(tables[c] \o g) = Len(tables[c]) + 1
      /\ \A i \in 1 .. Len(tables[c]) : (tables[c] \o g)[i] = tables[c][i]
  <2> DEFINE f == tables[c]
  <2>1. /\ f \in Seq(Blocks) /\ Len(f) \in Nat
        /\ g \in Seq(Blocks) /\ Len(g) = 1
    BY <1>2, <1>3, LenProperties DEF g
  <2> HIDE DEF f
  <2>2. /\ f \o g \in Seq(Blocks)
        /\ Len(f \o g) = Len(f) + Len(g)
        /\ \A i \in 1 .. Len(f) + Len(g) : (f \o g)[i] =
               IF i <= Len(f) THEN f[i] ELSE g[i - Len(f)]
    BY <2>1, ConcatProperties
  <2> QED
    BY <2>1, <2>2 DEF f
<1> QED
  BY <1>4, <1>5 DEF g

LEMMA AllocateTable ==
  ASSUME AllocInv, NEW c \in Seqs, NEW n \in Nat, Allocate(c, n)
  PROVE  Len(tables'[c]) = BlocksFor(n) /\ \A d \in Seqs \ {c} : tables'[d] = tables[d]
<1>1. tables'[c] = Popped(BlocksFor(n)) /\ \A d \in Seqs \ {c} : tables'[d] = tables[d]
  BY DEF AllocInv, AllocTypeOK, Allocate
<1>2. Len(Popped(BlocksFor(n))) = BlocksFor(n)
  BY PoppedBlocks, BlocksForNat DEF AllocInv, AllocTypeOK, Allocate
<1> QED
  BY <1>1, <1>2

LEMMA InitPlaced == Init => Placed
  BY EngineAssumption
     DEF Init, Placed, RoomOf, StageOf, NotLive, PagedAt, MegaAt

\* An engine state the step lemmas start from.
Ground == AllocInv /\ AllocTypeOK /\ AllocTypeOK' /\ Typed /\ Calls /\ Placed

LEMMA EntryPlaced ==
  ASSUME Ground, NEW c \in Seqs,
         Begin(c) \/ BeginRefused(c) \/ Register(c) \/ Release(c) \/ Unregister(c) \/ Throw(c)
  PROVE  RoomOf(c)' /\ StageOf(c)'
<1>1. /\ RoomOf(c) /\ StageOf(c) /\ pc \in [Seqs -> Places]
      /\ kept \in [Seqs -> Nat] /\ pos \in [Seqs -> Nat]
      /\ PromptLen[c] \in Nat /\ BlockSize \in Nat
      /\ Held(c) \in Nat
  BY HeldNat, EngineAssumption, AllocatorAssumption DEF Ground, Placed, Typed, Calls
<1>2. CASE Begin(c)
  <2>1. Len(tables'[c]) = BlocksFor(PromptLen[c])
    BY <1>1, <1>2, AllocateTable DEF Ground, Begin
  <2>2. PromptLen[c] <= Held(c)'
    BY <1>1, <2>1, BlocksForHold DEF Held
  <2>3. pc'[c] = "register" /\ UNCHANGED <<kept, pos, megakernel>>
    BY <1>1, <1>2 DEF Begin, Goto, hostVars
  <2> QED
    BY <1>1, <2>2, <2>3 DEF RoomOf, StageOf, NotLive, PagedAt, MegaAt, Prefilling
<1>3. CASE BeginRefused(c)
  BY <1>1, <1>3 DEF BeginRefused, Goto, hostVars, RoomOf, StageOf, NotLive, PagedAt, MegaAt
<1>4. CASE Register(c)
  <2>1. kept'[c] <= PromptLen[c]
    BY <1>1, <1>4 DEF Register
  <2>2. /\ pc'[c] = IF megakernel THEN "mkExtend" ELSE "extend"
        /\ ~megakernel => pos'[c] = 0
        /\ tables' = tables /\ megakernel' = megakernel /\ pc[c] = "register"
    BY <1>1, <1>4 DEF Register, Goto, allocVars
  <2> QED
    BY <1>1, <2>1, <2>2 DEF RoomOf, StageOf, NotLive, PagedAt, MegaAt, Held
<1>5. CASE Release(c)
  BY <1>1, <1>5 DEF Release, Goto, hostVars, RoomOf, StageOf, NotLive, PagedAt, MegaAt
<1>6. CASE Unregister(c)
  BY <1>1, <1>6 DEF Unregister, Goto, hostVars, RoomOf, StageOf, NotLive, PagedAt, MegaAt
<1>7. CASE Throw(c)
  BY <1>1, <1>7
     DEF Throw, Goto, hostVars, allocVars, RoomOf, StageOf, NotLive, PagedAt, MegaAt, Held
<1> QED
  BY <1>2, <1>3, <1>4, <1>5, <1>6, <1>7

\* What a step of call c may rely on.
LEMMA GroundFacts ==
  ASSUME Ground, NEW c \in Seqs
  PROVE  /\ RoomOf(c) /\ StageOf(c)
         /\ pc \in [Seqs -> Places] /\ kept \in [Seqs -> Nat] /\ pos \in [Seqs -> Nat]
         /\ PromptLen[c] \in Nat /\ BlockSize \in Nat /\ BlockSize > 0
         /\ Held(c) \in Nat
<1>1. RoomOf(c) /\ StageOf(c)
  BY DEF Ground, Placed
<1>2. pc \in [Seqs -> Places] /\ kept \in [Seqs -> Nat] /\ pos \in [Seqs -> Nat]
  BY DEF Ground, Typed, Calls
<1>3. PromptLen[c] \in Nat /\ BlockSize \in Nat /\ BlockSize > 0
  BY EngineAssumption, AllocatorAssumption
<1>4. Held(c) \in Nat
  BY HeldNat DEF Ground
<1> QED
  BY <1>1, <1>2, <1>3, <1>4

LEMMA ExtendHeld ==
  ASSUME Ground, NEW c \in Seqs, Extend(c)
  PROVE  Held(c)' = Held(c) + BlockSize
<1>1. Len(tables'[c]) = Len(tables[c]) + 1 /\ Len(tables[c]) \in Nat
  BY ExtendTable, HeldNat DEF Ground
<1> QED
  BY <1>1, AllocatorAssumption DEF Held

LEMMA ExtendPlaced ==
  ASSUME Ground, NEW c \in Seqs, ExtendAtBoundary(c)
  PROVE  RoomOf(c)' /\ StageOf(c)'
<1>1. /\ RoomOf(c) /\ StageOf(c)
      /\ pc \in [Seqs -> Places] /\ kept \in [Seqs -> Nat] /\ pos \in [Seqs -> Nat]
      /\ PromptLen[c] \in Nat /\ BlockSize \in Nat /\ BlockSize > 0
      /\ Held(c) \in Nat
  BY GroundFacts
<1>2. pc[c] = "extend" /\ UNCHANGED <<pos, kept, megakernel>>
  BY DEF ExtendAtBoundary, hostVars
<1>3. kept[c] <= PromptLen[c] /\ PromptLen[c] <= Held(c) /\ pos[c] <= Held(c)
  BY <1>1, <1>2 DEF RoomOf, NotLive
<1>4. megakernel => ~Prefilling(c)
  BY <1>1, <1>2 DEF StageOf
<1>5. CASE ~AtBoundary(c)
  <2>1. UNCHANGED tables /\ pc'[c] = ForwardStart
    BY <1>1, <1>5 DEF ExtendAtBoundary, Goto, allocVars
  <2>2. pos[c] < Held(c)
    <3>1. CASE Prefilling(c)
      BY <1>1, <1>3, <3>1 DEF Prefilling
    <3>2. CASE ~Prefilling(c)
      BY <1>1, <1>3, <1>5, <3>2, NotFull, HeldNat DEF AtBoundary, Held, Ground
    <3> QED
      BY <3>1, <3>2
  <2> QED
    BY <1>1, <1>2, <1>3, <1>4, <2>1, <2>2
       DEF RoomOf, StageOf, ForwardStart, PagedAt, MegaAt, Prefilling, Held
<1>6. CASE AtBoundary(c)
  <2>1. CASE Extend(c) /\ Goto(c, ForwardStart)
    <3>1. Held(c)' = Held(c) + BlockSize /\ pc'[c] = ForwardStart
      BY <1>1, <2>1, ExtendHeld DEF Goto
    <3> QED
      BY <1>1, <1>2, <1>3, <1>4, <3>1
         DEF RoomOf, StageOf, ForwardStart, PagedAt, MegaAt, Prefilling
  <2>2. CASE UNCHANGED allocVars /\ Goto(c, "release")
    <3>1. UNCHANGED tables /\ pc'[c] = "release"
      BY <1>1, <2>2 DEF Goto, allocVars
    <3> QED
      BY <1>1, <1>2, <1>3, <3>1 DEF RoomOf, StageOf, PagedAt, MegaAt, Held
  <2> QED
    BY <1>6, <2>1, <2>2 DEF ExtendAtBoundary
<1> QED
  BY <1>5, <1>6

LEMMA MkExtendPlaced ==
  ASSUME Ground, Ready, NEW c \in Seqs, MkExtend(c)
  PROVE  RoomOf(c)' /\ StageOf(c)'
<1>1. /\ RoomOf(c) /\ StageOf(c)
      /\ pc \in [Seqs -> Places] /\ kept \in [Seqs -> Nat] /\ pos \in [Seqs -> Nat]
      /\ PromptLen[c] \in Nat /\ BlockSize \in Nat /\ BlockSize > 0
      /\ Held(c) \in Nat
  BY GroundFacts
<1>2. pc[c] = "mkExtend" /\ UNCHANGED <<kept, megakernel>> /\ megakernel /\ kept[c] >= 1
  BY <1>1 DEF MkExtend, StageOf, MegaAt, Ready
<1>3. kept[c] <= PromptLen[c] /\ PromptLen[c] <= Held(c)
  BY <1>1, <1>2 DEF RoomOf, NotLive
<1>4. CASE Extend(c) /\ UNCHANGED pc
  <2>1. Held(c)' = Held(c) + BlockSize /\ pc'[c] = "mkExtend"
    BY <1>2, <1>4, ExtendHeld
  <2> QED
    BY <1>1, <1>2, <1>3, <2>1 DEF RoomOf, StageOf, PagedAt, MegaAt
<1>5. CASE Goto(c, "release") /\ UNCHANGED <<allocVars, pos>>
  <2>1. UNCHANGED tables /\ pc'[c] = "release"
    BY <1>1, <1>5 DEF Goto, allocVars
  <2> QED
    BY <1>1, <1>2, <1>3, <2>1 DEF RoomOf, StageOf, PagedAt, MegaAt, Held
<1>6. CASE pos' = [pos EXCEPT ![c] = kept[c] - 1] /\ Goto(c, ForwardStart) /\ UNCHANGED allocVars
  <2>1. UNCHANGED tables /\ pc'[c] = "mkUpload" /\ pos'[c] = kept[c] - 1
    BY <1>1, <1>2, <1>6 DEF Goto, allocVars, ForwardStart
  <2> QED
    BY <1>1, <1>2, <1>3, <2>1 DEF RoomOf, StageOf, PagedAt, MegaAt, Held, Prefilling
<1> QED
  BY <1>4, <1>5, <1>6 DEF MkExtend

\* The steps that only move a call along, and read or write a buffer.
LEMMA MovePlaced ==
  ASSUME Ground, NEW c \in Seqs,
         \/ UploadSlots(c) \/ UploadTable(c) \/ UploadLength(c)
         \/ Embed(c) \/ Attend(c) \/ MkUpload(c) \/ MkLaunch(c) \/ MkLogits(c) \/ MkNote(c)
  PROVE  RoomOf(c)' /\ StageOf(c)'
<1>1. /\ RoomOf(c) /\ StageOf(c)
      /\ pc \in [Seqs -> Places] /\ kept \in [Seqs -> Nat] /\ pos \in [Seqs -> Nat]
  BY GroundFacts
<1>2. UNCHANGED <<tables, pos, kept, megakernel>>
  BY DEF UploadSlots, UploadTable, UploadLength, Embed, Attend, MkUpload, MkLaunch, MkLogits,
         MkNote, allocVars, hostVars
<1>3. CASE UploadSlots(c) \/ UploadTable(c) \/ UploadLength(c) \/ Embed(c) \/ Attend(c)
  <2>1. pc[c] \in PagedAt /\ pc'[c] \in PagedAt
    BY <1>1, <1>3 DEF UploadSlots, UploadTable, UploadLength, Embed, Attend, Goto, PagedAt
  <2> QED
    BY <1>1, <1>2, <2>1 DEF RoomOf, StageOf, PagedAt, MegaAt, Held, Prefilling, NotLive
<1>4. CASE MkUpload(c) \/ MkLaunch(c) \/ MkLogits(c) \/ MkNote(c)
  <2>1. pc[c] \in MegaAt /\ pc'[c] \in MegaAt \cup {"sample"}
    BY <1>1, <1>4 DEF MkUpload, MkLaunch, MkLogits, MkNote, Goto, MegaAt
  <2> QED
    BY <1>1, <1>2, <2>1 DEF RoomOf, StageOf, PagedAt, MegaAt, Held, Prefilling, NotLive
<1> QED
  BY <1>3, <1>4

LEMMA DecodePlaced ==
  ASSUME Ground, NEW c \in Seqs, Logits(c) \/ Sample(c) \/ Note(c) \/ Decide(c)
  PROVE  RoomOf(c)' /\ StageOf(c)'
<1>1. /\ RoomOf(c) /\ StageOf(c)
      /\ pc \in [Seqs -> Places] /\ kept \in [Seqs -> Nat] /\ pos \in [Seqs -> Nat]
      /\ PromptLen[c] \in Nat /\ BlockSize \in Nat /\ BlockSize > 0
      /\ Held(c) \in Nat
  BY GroundFacts
<1>2. UNCHANGED <<tables, kept, megakernel>> /\ Held(c)' = Held(c)
  BY DEF Logits, Sample, Note, Decide, allocVars, Held
<1>3. pc[c] \in {"logits", "sample", "note", "decide"}
  BY DEF Logits, Sample, Note, Decide
<1>4. kept[c] <= PromptLen[c] /\ PromptLen[c] <= Held(c)
  BY <1>1, <1>3 DEF RoomOf, NotLive
<1>5. CASE Logits(c)
  BY <1>1, <1>2, <1>4, <1>5 DEF Logits, Goto, RoomOf, StageOf, PagedAt, MegaAt, Prefilling
<1>6. CASE Sample(c)
  BY <1>1, <1>2, <1>4, <1>6 DEF Sample, Goto, RoomOf, StageOf, PagedAt, MegaAt, Prefilling
<1>7. CASE Note(c)
  BY <1>1, <1>2, <1>4, <1>7 DEF Note, Goto, RoomOf, StageOf, PagedAt, MegaAt, Prefilling
<1>8. CASE Decide(c)
  BY <1>1, <1>2, <1>4, <1>8 DEF Decide, Goto, RoomOf, StageOf, PagedAt, MegaAt, Prefilling
<1> QED
  BY <1>5, <1>6, <1>7, <1>8

\* A call's step touches no other call's place and table.
LEMMA OtherStill ==
  ASSUME AllocInv, Typed, Calls, NEW c \in Seqs, NEW d \in Seqs \ {c},
         Begin(c) \/ BeginRefused(c) \/ Generate(c)
  PROVE  /\ pc'[d] = pc[d] /\ pos'[d] = pos[d] /\ kept'[d] = kept[d]
         /\ tables'[d] = tables[d] /\ megakernel' = megakernel
<1>1. /\ pc \in [Seqs -> Places] /\ kept \in [Seqs -> Nat] /\ pos \in [Seqs -> Nat]
      /\ tables \in [Seqs -> Seq(Blocks)]
  BY DEF Calls, Typed, AllocInv, AllocTypeOK
<1>2. CASE Begin(c)
  BY <1>1, <1>2 DEF Begin, Allocate, Goto, hostVars
<1>3. CASE BeginRefused(c)
  BY <1>1, <1>3 DEF BeginRefused, Goto, hostVars, allocVars
<1>4. CASE Register(c) \/ Release(c) \/ Unregister(c) \/ Throw(c)
  BY <1>1, <1>4 DEF Register, Release, Unregister, Throw, Free, Goto, hostVars, allocVars
<1>5. CASE ExtendAtBoundary(c) \/ MkExtend(c)
  BY <1>1, <1>5 DEF ExtendAtBoundary, MkExtend, Extend, Goto, hostVars, allocVars
<1>6. CASE UploadSlots(c) \/ UploadTable(c) \/ UploadLength(c) \/ Embed(c) \/ Attend(c)
  BY <1>1, <1>6 DEF UploadSlots, UploadTable, UploadLength, Embed, Attend, Goto, hostVars, allocVars
<1>7. CASE MkUpload(c) \/ MkLaunch(c) \/ MkLogits(c) \/ MkNote(c)
  BY <1>1, <1>7 DEF MkUpload, MkLaunch, MkLogits, MkNote, Goto, hostVars, allocVars
<1>8. CASE Logits(c) \/ Sample(c) \/ Note(c) \/ Decide(c)
  BY <1>1, <1>8 DEF Logits, Sample, Note, Decide, Goto, allocVars
<1> QED
  BY <1>2, <1>3, <1>4, <1>5, <1>6, <1>7, <1>8 DEF Generate

\* An injection may give any call one more block, and moves none.
LEMMA InjectStill ==
  ASSUME AllocInv, NEW c \in Seqs, Inject(c), NEW d \in Seqs
  PROVE  /\ pc'[d] = pc[d] /\ pos'[d] = pos[d] /\ kept'[d] = kept[d]
         /\ Len(tables[d]) <= Len(tables'[d]) /\ megakernel' = megakernel
<1>1. UNCHANGED <<pc, pos, kept, megakernel>>
  BY DEF Inject, InjectStart, InjectExtend, InjectUpload, InjectLaunch, InjectLogits, InjectNote,
         InjectThrow, hostVars
<1>2. UNCHANGED allocVars \/ Extend(c)
  BY DEF Inject, InjectStart, InjectExtend, InjectUpload, InjectLaunch, InjectLogits, InjectNote,
         InjectThrow
<1>3. Len(tables[d]) \in Nat
  BY HeldNat DEF AllocInv
<1>4. Len(tables[d]) <= Len(tables'[d])
  <2>1. CASE UNCHANGED allocVars
    BY <1>3, <2>1 DEF allocVars
  <2>2. CASE Extend(c)
    BY <1>3, <2>2, ExtendTable
  <2> QED
    BY <1>2, <2>1, <2>2
<1> QED
  BY <1>1, <1>4

LEMMA NextPlaced ==
  ASSUME EngineInv, EngineInv', Placed, [Next]_vars PROVE Placed'
<1>1. Ground /\ Ready
  BY DEF Ground, EngineInv, AllocInv
<1>2. ASSUME NEW d \in Seqs, pc'[d] = pc[d], pos'[d] = pos[d], kept'[d] = kept[d],
             megakernel' = megakernel, Len(tables[d]) <= Len(tables'[d])
      PROVE  RoomOf(d)' /\ StageOf(d)'
  BY <1>1, <1>2, StayPlaced DEF Ground, Placed
<1>3. \A d \in Seqs : Len(tables[d]) \in Nat
  BY <1>1, HeldNat DEF Ground
<1>4. ASSUME NEW c \in Seqs, Begin(c) \/ BeginRefused(c) \/ Generate(c) PROVE Placed'
  <2>1. RoomOf(c)' /\ StageOf(c)'
    BY <1>1, <1>4, EntryPlaced, ExtendPlaced, MkExtendPlaced, MovePlaced, DecodePlaced, Zenon
       DEF Generate
  <2>2. ASSUME NEW d \in Seqs \ {c} PROVE RoomOf(d)' /\ StageOf(d)'
    BY <1>1, <1>2, <1>3, <1>4, OtherStill DEF Ground
  <2> QED
    BY <2>1, <2>2 DEF Placed
<1>5. ASSUME NEW c \in Seqs, Inject(c) PROVE Placed'
  BY <1>1, <1>2, <1>5, InjectStill DEF Ground, Placed
<1>6. ASSUME UNCHANGED vars PROVE Placed'
  BY <1>2, <1>3, <1>6 DEF vars, allocVars, engineVars, hostVars, Placed
<1> QED
  BY <1>4, <1>5, <1>6 DEF Next, Quiet

LEMMA PlacedAlways == Spec => []Placed
  BY InitPlaced, EngineInvAlways, NextPlaced, PTL DEF Spec

\* A position below those a call has blocks for has a slot.
LEMMA HasSlot ==
  ASSUME AllocTypeOK, NEW c \in Seqs, NEW p \in Nat, p < Held(c)
  PROVE  SlotOf(tables[c], p) \in Slots
<1>1. p \div BlockSize < Len(tables[c])
  BY HeldNat, BlockOf DEF Held
<1>2. SlotOf(tables[c], p) # NoSlot
  <2>1. PICK q \in Nat, r \in 0 .. BlockSize - 1 : q = p \div BlockSize /\ r = p % BlockSize
    BY Split
  <2>2. tables[c][q + 1] \in Nat /\ BlockSize \in Nat
    <3>1. q + 1 \in 1 .. Len(tables[c]) /\ tables[c] \in Seq(Blocks)
      BY <1>1, <2>1, HeldNat DEF AllocTypeOK
    <3>2. tables[c][q + 1] \in Blocks
      BY <3>1, LenProperties
    <3> QED
      BY <3>2, AllocatorAssumption DEF Blocks
  <2>3. tables[c][q + 1] * BlockSize + r \in Nat
    BY <2>1, <2>2
  <2> QED
    BY <1>1, <2>1, <2>3 DEF SlotOf, NoSlot
<1> QED
  BY <1>2, SlotOfType DEF AllocTypeOK

\* No assertion of get_device_slot_mapping would fail: every position that is
\* forwarded has a block, however the calls shorten their prompts, cross block
\* boundaries and run the pool dry.
THEOREM SlotAlwaysInTable == Spec => []SlotInTable
<1>1. EngineInv /\ Placed => SlotInTable
  <2> SUFFICES ASSUME EngineInv, Placed, NEW c \in Seqs, pc[c] = "slots"
               PROVE  SlotOf(tables[c], pos[c]) # NoSlot
    BY DEF SlotInTable
  <2>1. AllocTypeOK /\ pos[c] \in Nat /\ pos[c] < Held(c)
    BY DEF EngineInv, AllocInv, Typed, Placed, RoomOf, PagedAt
  <2>2. SlotOf(tables[c], pos[c]) \in Slots
    BY <2>1, HasSlot
  <2> QED
    BY <2>2 DEF Slots, NoSlot
<1> QED
  BY <1>1, EngineInvAlways, PlacedAlways, PTL

-----------------------------------------------------------------------------
(* A call that nothing ran alongside computes its own output *)

\* A call that is running and was never disturbed is the only activity there is.
Alone == \A c \in Running \ disturbed : Running = {c} /\ Injecting = {}

\* Where the forward pass of call c writes the K/V of position p.
Where(c, p) == IF megakernel THEN p ELSE SlotOf(tables[c], p)

Written(c, n) == \A p \in 0 .. n - 1 : kv[Where(c, p)] = <<c, p>>

Exactly(c) == [call |-> c, at |-> pos[c], exact |-> TRUE]

\* The tokens forwarded so far are in the cache, where the call looks for them.
History(c) ==
    /\ pc[c] \in {"extend", "decide", "slots", "table", "length", "embed", "attend"} =>
           Written(c, pos[c])
    /\ pc[c] \in {"mkUpload", "mkLaunch"} /\ ~Prefilling(c) => Written(c, pos[c])
    /\ pc[c] \in {"logits", "mkLogits", "mkNote", "sample", "note"} =>
           Written(c, pos[c] + 1)

\* Each buffer holds what the call put there, until its last read of it.
Buffers(c) ==
    /\ pc[c] \in {"table", "length", "embed", "attend"} => smBuf = SlotOf(tables[c], pos[c])
    /\ pc[c] \in {"length", "embed", "attend"} => btBuf = tables[c]
    /\ pc[c] \in {"embed", "attend"} => seqLen = pos[c] + 1
    /\ pc[c] = "attend" => residual = [call |-> c, at |-> pos[c], exact |-> FALSE]
    /\ pc[c] = "logits" => residual = Exactly(c)
    /\ pc[c] = "mkLaunch" => mkInput = [call |-> c, from |-> MkFrom(c)]
    /\ pc[c] = "mkLogits" => argmax = Exactly(c)
    /\ pc[c] \in {"mkNote", "sample"} => logits = Exactly(c)

Undisturbed == \A c \in Seqs \ disturbed : History(c) /\ Buffers(c)

\* Two positions of a call have two slots.
LEMMA SlotsApart ==
  ASSUME AllocInv, NEW c \in Seqs, NEW p \in Nat, NEW q \in Nat,
         p < Held(c), q < Held(c), p # q
  PROVE  SlotOf(tables[c], p) # SlotOf(tables[c], q)
<1> DEFINE t == tables[c]
<1>1. t \in Seq(Blocks) /\ Distinct(t) /\ Len(t) \in Nat /\ BlockSize \in Nat
  BY HeldNat, AllocatorAssumption DEF AllocInv, AllocTypeOK, TablesInjective, Distinct
<1>2. p \div BlockSize < Len(t) /\ q \div BlockSize < Len(t)
  BY <1>1, BlockOf DEF Held
<1>3. PICK i \in Nat, r \in 0 .. BlockSize - 1 :
         i = p \div BlockSize /\ r = p % BlockSize /\ p = i * BlockSize + r
  BY Split
<1>4. PICK j \in Nat, u \in 0 .. BlockSize - 1 :
         j = q \div BlockSize /\ u = q % BlockSize /\ q = j * BlockSize + u
  BY Split
<1> HIDE DEF t
<1> DEFINE a == t[i + 1]
           b == t[j + 1]
<1>5. SlotOf(t, p) = a * BlockSize + r /\ SlotOf(t, q) = b * BlockSize + u
  BY <1>2, <1>3, <1>4 DEF SlotOf
<1>6. i + 1 \in 1 .. Len(t) /\ j + 1 \in 1 .. Len(t)
  BY <1>1, <1>2, <1>3, <1>4
<1>7. a \in Nat /\ b \in Nat
  <2>1. a \in Blocks /\ b \in Blocks
    BY <1>1, <1>6, LenProperties
  <2> QED
    BY <2>1, AllocatorAssumption DEF Blocks
<1>8. a = b => i = j
  <2>1. \A k, l \in 1 .. Len(t) : t[k] = t[l] => k = l
    BY <1>1 DEF Distinct
  <2>2. a = b => i + 1 = j + 1
    BY <1>6, <2>1
  <2>3. i \in Nat /\ j \in Nat
    OBVIOUS
  <2> QED
    BY <2>2, <2>3
<1> HIDE DEF a, b
<1>9. a * BlockSize \in Nat /\ b * BlockSize \in Nat /\ r \in Nat /\ u \in Nat
  BY <1>1, <1>7
<1>10. CASE a = b
  <2>1. r # u
    BY <1>3, <1>4, <1>8, <1>10
  <2> QED
    BY <1>5, <1>9, <1>10, <2>1 DEF t
<1>11. CASE a < b
  <2>1. a * BlockSize + BlockSize <= b * BlockSize
    BY <1>7, <1>11, Scale
  <2> QED
    BY <1>1, <1>5, <1>9, <2>1 DEF t
<1>12. CASE b < a
  <2>1. b * BlockSize + BlockSize <= a * BlockSize
    BY <1>7, <1>12, Scale
  <2> QED
    BY <1>1, <1>5, <1>9, <2>1 DEF t
<1> QED
  BY <1>7, <1>10, <1>11, <1>12

\* The pool has as many slots as the positions of any call.
LEMMA HeldInPool ==
  ASSUME AllocInv, NEW c \in Seqs, NEW p \in Nat, p < Held(c)
  PROVE  p \in Slots
<1>1. tables[c] \in Seq(Blocks) /\ Distinct(tables[c]) /\ Len(tables[c]) \in Nat
  BY HeldNat DEF AllocInv, AllocTypeOK, TablesInjective, Distinct
<1>2. Len(tables[c]) <= NumBlocks /\ NumBlocks \in Nat /\ BlockSize \in Nat
  BY <1>1, DistinctBounded, AllocatorAssumption
<1>3. Held(c) \in Nat /\ NumBlocks * BlockSize \in Nat /\ Held(c) <= NumBlocks * BlockSize
  <2>1. CASE Len(tables[c]) = NumBlocks
    BY <1>2, <2>1 DEF Held
  <2>2. CASE Len(tables[c]) < NumBlocks
    <3>1. /\ Len(tables[c]) * BlockSize + BlockSize <= NumBlocks * BlockSize
          /\ Len(tables[c]) * BlockSize \in Nat /\ NumBlocks * BlockSize \in Nat
      BY <1>1, <1>2, <2>2, Scale
    <3> QED
      BY <1>2, <3>1 DEF Held
  <2> QED
    BY <1>1, <1>2, <2>1, <2>2
<1> QED
  BY <1>3 DEF Slots

\* A block more leaves every slot where it was.
LEMMA SlotStays ==
  ASSUME AllocInv, NEW c \in Seqs, Extend(c), NEW p \in Nat, p < Held(c)
  PROVE  SlotOf(tables'[c], p) = SlotOf(tables[c], p)
<1>1. PICK q \in Nat, r \in 0 .. BlockSize - 1 : q = p \div BlockSize /\ r = p % BlockSize
  BY Split
<1>2. q < Len(tables[c]) /\ Len(tables[c]) \in Nat
  BY <1>1, HeldNat, BlockOf DEF Held, AllocInv
<1>3. q + 1 \in 1 .. Len(tables[c]) /\ q < Len(tables'[c])
  BY <1>2, ExtendTable
<1>4. tables'[c][q + 1] = tables[c][q + 1]
  BY <1>3, ExtendTable
<1> QED
  BY <1>1, <1>2, <1>3, <1>4 DEF SlotOf

\* Nothing is claimed of a call that is not at work.
LEMMA NoClaim ==
  ASSUME NEW c \in Seqs,
         pc'[c] \in {"idle", "register", "mkExtend", "release", "unregister", "done", "thrown"}
  PROVE  History(c)' /\ Buffers(c)'
  BY DEF History, Buffers

LEMMA RegisterOwn ==
  ASSUME Ground, NEW c \in Seqs, Register(c)
  PROVE  History(c)' /\ Buffers(c)'
<1>1. pc'[c] = IF megakernel THEN "mkExtend" ELSE "extend"
  BY GroundFacts DEF Register, Goto
<1>2. CASE megakernel
  BY <1>1, <1>2, NoClaim
<1>3. CASE ~megakernel
  <2>1. pos'[c] = 0
    BY <1>3, GroundFacts DEF Register
  <2>2. Written(c, pos[c])'
    BY <2>1 DEF Written
  <2> QED
    BY <1>1, <1>3, <2>2 DEF History, Buffers
<1> QED
  BY <1>2, <1>3

LEMMA ExtendOwn ==
  ASSUME Ground, NEW c \in Seqs, History(c), ExtendAtBoundary(c)
  PROVE  History(c)' /\ Buffers(c)'
<1>1. /\ RoomOf(c) /\ StageOf(c) /\ pc \in [Seqs -> Places] /\ pos \in [Seqs -> Nat]
      /\ Held(c) \in Nat
  BY GroundFacts
<1>2. pc[c] = "extend" /\ UNCHANGED <<pos, kept, megakernel, kv>>
  BY DEF ExtendAtBoundary, hostVars, deviceVars
<1>3. Written(c, pos[c]) /\ pos[c] <= Held(c) /\ pos[c] \in Nat
  BY <1>1, <1>2 DEF History, RoomOf
<1>4. CASE pc'[c] = "release"
  BY <1>4, NoClaim
<1>5. CASE pc'[c] = ForwardStart
  <2>1. UNCHANGED tables \/ Extend(c)
    BY DEF ExtendAtBoundary, allocVars
  <2>2. ASSUME NEW p \in 0 .. pos[c] - 1 PROVE Where(c, p)' = Where(c, p)
    <3>1. p \in Nat /\ p < Held(c)
      BY <1>1, <1>3
    <3> QED
      BY <1>2, <2>1, <3>1, SlotStays DEF Where, Ground
  <2>3. Written(c, pos[c])'
    BY <1>2, <1>3, <2>2 DEF Written
  <2> QED
    BY <1>5, <2>3 DEF History, Buffers, ForwardStart
<1>6. pc'[c] = "release" \/ pc'[c] = ForwardStart
  BY <1>1 DEF ExtendAtBoundary, Goto
<1> QED
  BY <1>4, <1>5, <1>6

LEMMA MkExtendOwn ==
  ASSUME Ground, Ready, NEW c \in Seqs, MkExtend(c)
  PROVE  History(c)' /\ Buffers(c)'
<1>1. /\ pc \in [Seqs -> Places] /\ pos \in [Seqs -> Nat] /\ kept \in [Seqs -> Nat]
      /\ StageOf(c)
  BY GroundFacts
<1>2. pc[c] = "mkExtend" /\ megakernel
  BY <1>1 DEF MkExtend, StageOf
<1>3. CASE pc'[c] \in {"mkExtend", "release"}
  BY <1>3, NoClaim
<1>4. CASE pos' = [pos EXCEPT ![c] = kept[c] - 1] /\ Goto(c, ForwardStart)
  <2>1. pc'[c] = "mkUpload" /\ pos'[c] = kept[c] - 1 /\ kept'[c] = kept[c]
    BY <1>1, <1>2, <1>4 DEF Goto, ForwardStart, MkExtend
  <2>2. Prefilling(c)'
    BY <1>1, <2>1 DEF Prefilling
  <2> QED
    BY <2>1, <2>2 DEF History, Buffers
<1> QED
  BY <1>1, <1>2, <1>3, <1>4 DEF MkExtend, Goto

\* The uploads before the attention of a paged forward pass.
LEMMA UploadOwn ==
  ASSUME Ground, NEW c \in Seqs, History(c), Buffers(c),
         UploadSlots(c) \/ UploadTable(c) \/ UploadLength(c) \/ Embed(c)
  PROVE  History(c)' /\ Buffers(c)'
<1>1. /\ pc \in [Seqs -> Places] /\ pos \in [Seqs -> Nat]
  BY GroundFacts
<1>2. UNCHANGED <<tables, pos, kept, megakernel, kv>>
  BY DEF UploadSlots, UploadTable, UploadLength, Embed, allocVars, hostVars
<1>3. /\ pc[c] \in {"slots", "table", "length", "embed"}
      /\ pc'[c] \in {"table", "length", "embed", "attend"}
  BY <1>1 DEF UploadSlots, UploadTable, UploadLength, Embed, Goto
<1>4. History(c)'
  BY <1>2, <1>3 DEF History, Written, Where
<1>5. CASE UploadSlots(c)
  <2>1. pc'[c] = "table" /\ smBuf' = SlotOf(tables[c], pos[c])
    BY <1>1, <1>5 DEF UploadSlots, Goto
  <2> QED
    BY <1>2, <1>4, <2>1 DEF Buffers
<1>6. CASE UploadTable(c)
  <2>1. pc[c] = "table" /\ pc'[c] = "length" /\ btBuf' = tables[c] /\ UNCHANGED smBuf
    BY <1>1, <1>6 DEF UploadTable, Goto
  <2> QED
    BY <1>2, <1>4, <2>1 DEF Buffers
<1>7. CASE UploadLength(c)
  <2>1. /\ pc[c] = "length" /\ pc'[c] = "embed" /\ seqLen' = pos[c] + 1
        /\ UNCHANGED <<smBuf, btBuf>>
    BY <1>1, <1>7 DEF UploadLength, Goto
  <2> QED
    BY <1>2, <1>4, <2>1 DEF Buffers
<1>8. CASE Embed(c)
  <2>1. /\ pc[c] = "embed" /\ pc'[c] = "attend"
        /\ residual' = [call |-> c, at |-> pos[c], exact |-> FALSE]
        /\ UNCHANGED <<smBuf, btBuf, seqLen>>
    BY <1>1, <1>8 DEF Embed, Goto
  <2> QED
    BY <1>2, <1>4, <2>1 DEF Buffers
<1> QED
  BY <1>4, <1>5, <1>6, <1>7, <1>8

\* Attention writes the token's slot, which no earlier token of the call has,
\* and reads the tokens of the call and no other.
LEMMA AttendOwn ==
  ASSUME Ground, NEW c \in Seqs, History(c), Buffers(c), Attend(c)
  PROVE  History(c)' /\ Buffers(c)'
<1>1. /\ RoomOf(c) /\ pc \in [Seqs -> Places] /\ pos \in [Seqs -> Nat]
      /\ StageOf(c) /\ Held(c) \in Nat
      /\ kv \in [Slots -> (Seqs \X Int) \cup {None}]
  BY GroundFacts DEF Ground, Typed
<1>2. /\ pc[c] = "attend" /\ pc'[c] = "logits"
      /\ UNCHANGED <<tables, pos, kept, megakernel, btBuf, seqLen>>
  BY <1>1 DEF Attend, allocVars, hostVars, Goto
<1>3. /\ Written(c, pos[c]) /\ pos[c] < Held(c) /\ pos[c] \in Nat /\ ~megakernel
      /\ smBuf = SlotOf(tables[c], pos[c]) /\ btBuf = tables[c] /\ seqLen = pos[c] + 1
      /\ residual = [call |-> c, at |-> pos[c], exact |-> FALSE]
  BY <1>1, <1>2 DEF History, Buffers, RoomOf, StageOf, PagedAt
<1> DEFINE sl(p) == SlotOf(tables[c], p)
<1>4. \A p \in 0 .. pos[c] : p \in Nat /\ p < Held(c) /\ sl(p) \in Slots
  BY <1>1, <1>3, HasSlot DEF Ground
<1>5. smBuf = sl(pos[c]) /\ smBuf \in Slots /\ smBuf # NoSlot
  BY <1>3, <1>4 DEF Slots, NoSlot
<1>6. kv' = [kv EXCEPT ![smBuf] = <<c, pos[c]>>]
  BY <1>3, <1>5 DEF Attend
<1>7. \A p \in 0 .. pos[c] : kv'[sl(p)] = <<c, p>>
  <2> SUFFICES ASSUME NEW p \in 0 .. pos[c] PROVE kv'[sl(p)] = <<c, p>>
    OBVIOUS
  <2>1. CASE p = pos[c]
    BY <1>1, <1>5, <1>6, <2>1
  <2>2. CASE p # pos[c]
    <3>1. p \in 0 .. pos[c] - 1 /\ p < Held(c) /\ p \in Nat
      BY <1>3, <1>4, <2>2
    <3>2. kv[sl(p)] = <<c, p>>
      BY <1>3, <3>1 DEF Written, Where
    <3>3. sl(p) # sl(pos[c])
      BY <1>3, <2>2, <3>1, SlotsApart DEF Ground
    <3> QED
      BY <1>1, <1>4, <1>5, <1>6, <3>2, <3>3
  <2> QED
    BY <2>1, <2>2
<1>8. ReadsHistory(kv', residual)
  <2>1. \A p \in 0 .. pos[c] : sl(p) # NoSlot
    BY <1>4 DEF Slots, NoSlot
  <2>2. residual.at = pos[c] /\ residual.call = c
    BY <1>3
  <2> QED
    BY <1>3, <1>7, <2>1, <2>2 DEF ReadsHistory
<1>9. residual' = Exactly(c)
  <2>1. residual' = [residual EXCEPT !.exact = TRUE]
    BY <1>8 DEF Attend
  <2> QED
    BY <1>3, <2>1 DEF Exactly
<1>10. History(c)'
  <2>1. Written(c, pos[c] + 1)'
    <3>1. \A p \in 0 .. (pos[c] + 1) - 1 : p \in 0 .. pos[c]
      BY <1>3
    <3> QED
      BY <1>2, <1>3, <1>7, <3>1 DEF Written, Where
  <2> QED
    BY <1>2, <2>1 DEF History
<1>11. Buffers(c)'
  BY <1>2, <1>9 DEF Buffers, Exactly
<1> QED
  BY <1>10, <1>11

LEMMA LogitsOwn ==
  ASSUME Ground, NEW c \in Seqs, History(c), Buffers(c), Logits(c)
  PROVE  History(c)' /\ Buffers(c)'
<1>1. /\ pc \in [Seqs -> Places] /\ pos \in [Seqs -> Nat]
      /\ pc[c] = "logits" /\ UNCHANGED <<tables, kept, megakernel, kv>>
      /\ logits' = Exactly(c) /\ Written(c, pos[c] + 1)
  BY GroundFacts DEF Logits, allocVars, History, Buffers
<1>2. CASE pc'[c] = "extend" /\ pos'[c] = pos[c] + 1
  <2>1. Written(c, pos[c])'
    BY <1>1, <1>2 DEF Written, Where
  <2> QED
    BY <1>2, <2>1 DEF History, Buffers
<1>3. CASE pc'[c] = "sample" /\ UNCHANGED pos
  <2>1. Written(c, pos[c] + 1)'
    BY <1>1, <1>3 DEF Written, Where
  <2>2. logits' = Exactly(c)'
    BY <1>1, <1>3 DEF Exactly
  <2> QED
    BY <1>3, <2>1, <2>2 DEF History, Buffers
<1>4. \/ pc'[c] = "extend" /\ pos'[c] = pos[c] + 1
      \/ pc'[c] = "sample" /\ UNCHANGED pos
  BY <1>1 DEF Logits, Goto
<1> QED
  BY <1>2, <1>3, <1>4

LEMMA MkUploadOwn ==
  ASSUME Ground, NEW c \in Seqs, History(c), MkUpload(c)
  PROVE  History(c)' /\ Buffers(c)'
<1>1. /\ pc[c] = "mkUpload" /\ pc'[c] = "mkLaunch"
      /\ UNCHANGED <<tables, pos, kept, megakernel, kv>>
      /\ mkInput' = [call |-> c, from |-> MkFrom(c)]
  BY GroundFacts DEF MkUpload, Goto, allocVars, hostVars
<1>2. History(c)'
  BY <1>1 DEF History, Written, Where, Prefilling
<1>3. MkFrom(c)' = MkFrom(c)
  BY <1>1 DEF MkFrom, Prefilling
<1> QED
  BY <1>1, <1>2, <1>3 DEF Buffers

\* The kernel writes the tokens of its input; with those written before they
\* are all tokens up to the last.
LEMMA MkLaunchOwn ==
  ASSUME Ground, NEW c \in Seqs, History(c), Buffers(c), MkLaunch(c)
  PROVE  History(c)' /\ Buffers(c)'
<1>1. /\ RoomOf(c) /\ StageOf(c) /\ pc \in [Seqs -> Places] /\ pos \in [Seqs -> Nat]
      /\ Held(c) \in Nat
  BY GroundFacts
<1>2. /\ pc[c] = "mkLaunch" /\ pc'[c] = "mkLogits" /\ megakernel
      /\ UNCHANGED <<tables, pos, kept, megakernel>>
  BY <1>1 DEF MkLaunch, Goto, allocVars, hostVars, StageOf, MegaAt
<1>3. /\ pos[c] < Held(c) /\ pos[c] \in Nat
      /\ mkInput = [call |-> c, from |-> MkFrom(c)]
      /\ ~Prefilling(c) => Written(c, pos[c])
  BY <1>1, <1>2 DEF History, Buffers, RoomOf, MegaAt
<1> DEFINE from == MkFrom(c)
<1>4. from \in 0 .. pos[c] /\ (from # 0 => ~Prefilling(c) /\ from = pos[c])
  BY <1>3 DEF MkFrom
<1>5. mkInput.call = c /\ mkInput.from = from
  BY <1>3
<1>6. kv' = MegakernelCache(from, pos[c] + 1 - from)
  BY DEF MkLaunch
<1> HIDE DEF from
<1>7. \A p \in 0 .. pos[c] : kv'[p] = <<c, p>>
  <2> SUFFICES ASSUME NEW p \in 0 .. pos[c] PROVE kv'[p] = <<c, p>>
    OBVIOUS
  <2>1. p \in Slots /\ p \in Int
    BY <1>1, <1>3, HeldInPool DEF Ground
  <2>2. kv'[p] = IF p \in from .. from + (pos[c] + 1 - from) - 1
                 THEN <<c, from + p - from>> ELSE kv[p]
    BY <1>5, <1>6, <2>1 DEF MegakernelCache
  <2>3. CASE from <= p
    <3>1. p \in from .. from + (pos[c] + 1 - from) - 1 /\ from + p - from = p
      BY <1>3, <1>4, <2>3
    <3> QED
      BY <2>2, <3>1
  <2>4. CASE p < from
    <3>1. p \notin from .. from + (pos[c] + 1 - from) - 1
      BY <1>4, <2>1, <2>4
    <3>2. Written(c, pos[c]) /\ p \in 0 .. pos[c] - 1
      BY <1>3, <1>4, <2>1, <2>4
    <3> QED
      BY <1>2, <2>2, <3>1, <3>2 DEF Written, Where
  <2> QED
    BY <1>3, <1>4, <2>1, <2>3, <2>4
<1>8. argmax' = Exactly(c)
  <2>1. MkHistory(c, kv', pos[c])
    BY <1>7 DEF MkHistory
  <2>2. argmax' = [call |-> c, at |-> pos[c], exact |-> TRUE]
    BY <1>5, <2>1 DEF MkLaunch
  <2> QED
    BY <2>2 DEF Exactly
<1>9. Written(c, pos[c] + 1)'
  <2>1. \A p \in 0 .. (pos[c] + 1) - 1 : p \in 0 .. pos[c]
    BY <1>3
  <2> QED
    BY <1>2, <1>7, <2>1 DEF Written, Where
<1>10. argmax' = Exactly(c)'
  BY <1>2, <1>8 DEF Exactly
<1> QED
  BY <1>2, <1>9, <1>10 DEF History, Buffers

LEMMA DecodeOwn ==
  ASSUME Ground, NEW c \in Seqs, History(c), Buffers(c),
         MkLogits(c) \/ MkNote(c) \/ Sample(c) \/ Note(c) \/ Decide(c)
  PROVE  History(c)' /\ Buffers(c)'
<1>1. /\ pc \in [Seqs -> Places] /\ pos \in [Seqs -> Nat] /\ StageOf(c)
      /\ UNCHANGED <<tables, kept, megakernel, kv>>
  BY GroundFacts DEF MkLogits, MkNote, Sample, Note, Decide, allocVars, hostVars, deviceVars
<1>2. CASE MkLogits(c)
  <2>1. /\ pc[c] = "mkLogits" /\ pc'[c] \in {"mkNote", "sample"} /\ UNCHANGED pos
        /\ logits' = Exactly(c) /\ Written(c, pos[c] + 1)
    BY <1>1, <1>2 DEF MkLogits, Goto, hostVars, History, Buffers
  <2>2. Written(c, pos[c] + 1)' /\ logits' = Exactly(c)'
    BY <1>1, <2>1 DEF Written, Where, Exactly
  <2> QED
    BY <2>1, <2>2 DEF History, Buffers
<1>3. CASE MkNote(c)
  <2>1. /\ pc[c] = "mkNote" /\ pc'[c] = "sample" /\ UNCHANGED <<pos, logits>>
        /\ logits = Exactly(c) /\ Written(c, pos[c] + 1)
    BY <1>1, <1>3 DEF MkNote, Goto, hostVars, deviceVars, History, Buffers
  <2>2. Written(c, pos[c] + 1)' /\ logits' = Exactly(c)'
    BY <1>1, <2>1 DEF Written, Where, Exactly
  <2> QED
    BY <2>1, <2>2 DEF History, Buffers
<1>4. CASE Sample(c) \/ Note(c)
  <2>1. Written(c, pos[c] + 1)
    BY <1>4 DEF Sample, Note, History
  <2>2. \/ pc'[c] = "decide" /\ pos'[c] = pos[c] + 1
        \/ pc'[c] = "note" /\ UNCHANGED pos
    BY <1>1, <1>4 DEF Sample, Note, Goto, StageOf
  <2>3. CASE pc'[c] = "decide" /\ pos'[c] = pos[c] + 1
    <3>1. Written(c, pos[c])'
      BY <1>1, <2>1, <2>3 DEF Written, Where
    <3> QED
      BY <2>3, <3>1 DEF History, Buffers
  <2>4. CASE pc'[c] = "note" /\ UNCHANGED pos
    <3>1. Written(c, pos[c] + 1)'
      BY <1>1, <2>1, <2>4 DEF Written, Where
    <3> QED
      BY <2>4, <3>1 DEF History, Buffers
  <2> QED
    BY <2>2, <2>3, <2>4
<1>5. CASE Decide(c)
  <2>1. Written(c, pos[c]) /\ UNCHANGED pos /\ pc'[c] \in {"extend", "release"}
    BY <1>1, <1>5 DEF Decide, Goto, History
  <2>2. Written(c, pos[c])'
    BY <1>1, <2>1 DEF Written, Where
  <2> QED
    BY <2>1, <2>2 DEF History, Buffers
<1> QED
  BY <1>2, <1>3, <1>4, <1>5

\* A call's own steps keep what it claims, disturbed or not.
LEMMA OwnStep ==
  ASSUME Ground, Ready, NEW c \in Seqs, History(c), Buffers(c),
         Begin(c) \/ BeginRefused(c) \/ Generate(c)
  PROVE  History(c)' /\ Buffers(c)'
<1>1. CASE Begin(c) \/ BeginRefused(c) \/ Release(c) \/ Unregister(c) \/ Throw(c)
  <2>1. pc'[c] \in {"register", "done", "unregister", "thrown"}
    BY <1>1, GroundFacts DEF Begin, BeginRefused, Release, Unregister, Throw, Goto
  <2> QED
    BY <2>1, NoClaim
<1>2. CASE Register(c)
  BY <1>2, RegisterOwn
<1>3. CASE ExtendAtBoundary(c) \/ MkExtend(c)
  BY <1>3, ExtendOwn, MkExtendOwn
<1>4. CASE UploadSlots(c) \/ UploadTable(c) \/ UploadLength(c) \/ Embed(c)
  BY <1>4, UploadOwn
<1>5. CASE Attend(c) \/ Logits(c) \/ MkUpload(c) \/ MkLaunch(c)
  BY <1>5, AttendOwn, LogitsOwn, MkUploadOwn, MkLaunchOwn
<1>6. CASE MkLogits(c) \/ MkNote(c) \/ Sample(c) \/ Note(c) \/ Decide(c)
  BY <1>6, DecodeOwn
<1> QED
  BY <1>1, <1>2, <1>3, <1>4, <1>5, <1>6 DEF Generate

\* Who is in generate() and in inject_tokens after a step.
LEMMA GenerateRuns ==
  ASSUME Calls, NEW c \in Seqs, Generate(c)
  PROVE  /\ c \in Running /\ Running' \subseteq Running
         /\ UNCHANGED <<inject, disturbed>>
<1>1. pc \in [Seqs -> Places]
  BY DEF Calls
<1>2. UNCHANGED <<inject, disturbed>> /\ pc[c] \notin {"idle", "done", "thrown"}
  BY DEF Generate, Register, Release, Unregister, Throw, ExtendAtBoundary, MkExtend,
         UploadSlots, UploadTable, UploadLength, Embed, Attend, Logits, MkUpload,
         MkLaunch, MkLogits, MkNote, Sample, Note, Decide
<1>3. \A d \in Seqs \ {c} : pc'[d] = pc[d]
  BY <1>1
     DEF Generate, Register, Release, Unregister, Throw, ExtendAtBoundary, MkExtend,
         UploadSlots, UploadTable, UploadLength, Embed, Attend, Logits, MkUpload,
         MkLaunch, MkLogits, MkNote, Sample, Note, Decide, Goto
<1> QED
  BY <1>2, <1>3 DEF Running

\* An injection needs the session of a call that is running; it disturbs every
\* call there is, and those were disturbed already when it goes on.
LEMMA InjectRuns ==
  ASSUME Calls, Alone, NEW c \in Seqs, Inject(c)
  PROVE  Running' \subseteq disturbed' /\ pc' = pc
<1>1. pc' = pc
  BY DEF Inject, InjectStart, InjectExtend, InjectUpload, InjectLaunch, InjectLogits, InjectNote,
         InjectThrow
<1>2. CASE InjectStart(c)
  <2>1. c \in Running
    BY <1>2 DEF InjectStart, Calls, NoEntry, Running
  <2>2. disturbed' = disturbed \cup Running \cup Injecting \cup {c}
    BY <1>2, <2>1 DEF InjectStart, Disturb
  <2> QED
    BY <1>1, <2>2 DEF Running
<1>3. CASE ~InjectStart(c)
  <2>1. inject[c].at \notin {"off", "over"} /\ disturbed' = disturbed
    BY <1>3 DEF Inject, InjectExtend, InjectUpload, InjectLaunch, InjectLogits, InjectNote,
                InjectThrow
  <2>2. c \in Injecting
    BY <2>1 DEF Injecting
  <2>3. Running \subseteq disturbed
    BY <2>2 DEF Alone
  <2> QED
    BY <1>1, <2>1, <2>3 DEF Running
<1> QED
  BY <1>1, <1>2, <1>3

LEMMA BeginRuns ==
  ASSUME Calls, NEW c \in Seqs, Begin(c)
  PROVE  /\ Running' = Running \cup {c} /\ c \notin Running
         /\ Running' \subseteq disturbed' \/ (Running = {} /\ Injecting = {})
         /\ UNCHANGED inject
<1>1. pc[c] = "idle" /\ pc' = [pc EXCEPT ![c] = "register"] /\ pc \in [Seqs -> Places]
      /\ UNCHANGED inject
  BY DEF Begin, Goto, Calls
<1>2. Running' = Running \cup {c} /\ c \notin Running
  BY <1>1 DEF Running
<1>3. CASE Running \cup Injecting # {}
  <2>1. disturbed' = disturbed \cup Running \cup Injecting \cup {c}
    BY <1>3 DEF Begin, Disturb
  <2> QED
    BY <1>1, <1>2, <2>1
<1> QED
  BY <1>1, <1>2, <1>3

LEMMA NextAlone ==
  ASSUME Calls, Alone, [Next]_vars PROVE Alone'
<1>1. ASSUME NEW c \in Seqs, Begin(c) PROVE Alone'
  <2>1. Injecting' = Injecting
    BY <1>1, BeginRuns DEF Injecting
  <2>2. CASE Running' \subseteq disturbed'
    BY <2>2 DEF Alone
  <2>3. CASE Running = {} /\ Injecting = {}
    BY <1>1, <2>1, <2>3, BeginRuns DEF Alone
  <2> QED
    BY <1>1, <2>2, <2>3, BeginRuns
<1>2. ASSUME NEW c \in Seqs, BeginRefused(c) PROVE Alone'
  <2>1. Running' = Running /\ UNCHANGED <<inject, disturbed>>
    BY <1>2 DEF BeginRefused, Goto, Calls, Running
  <2> QED
    BY <2>1 DEF Alone, Injecting
<1>3. ASSUME NEW c \in Seqs, Generate(c) PROVE Alone'
  <2>1. Running' \subseteq Running /\ disturbed' = disturbed /\ Injecting' = Injecting
    BY <1>3, GenerateRuns DEF Injecting
  <2> QED
    BY <2>1 DEF Alone
<1>4. ASSUME NEW c \in Seqs, Inject(c) PROVE Alone'
  BY <1>4, InjectRuns DEF Alone
<1>5. ASSUME UNCHANGED vars PROVE Alone'
  BY <1>5 DEF vars, engineVars, Alone, Running, Injecting
<1> QED
  BY <1>1, <1>2, <1>3, <1>4, <1>5 DEF Next, Quiet

LEMMA NextUndisturbed ==
  ASSUME EngineInv, EngineInv', Placed, Alone, Undisturbed, [Next]_vars
  PROVE  Undisturbed'
<1> SUFFICES ASSUME NEW e \in Seqs, e \notin disturbed' PROVE History(e)' /\ Buffers(e)'
  BY DEF Undisturbed
<1>1. Ground /\ Ready /\ Calls /\ pc \in [Seqs -> Places]
  BY DEF Ground, EngineInv, AllocInv, Calls
<1>2. CASE e \notin Running'
  <2>1. pc'[e] \in {"idle", "done", "thrown"}
    BY <1>2 DEF Running
  <2> QED
    BY <2>1, NoClaim
<1>3. CASE e \in Running'
  <2>1. ASSUME NEW c \in Seqs, Begin(c) PROVE e = c
    BY <1>1, <1>3, <2>1, BeginRuns
  <2>2. ASSUME NEW c \in Seqs, Generate(c) PROVE e = c /\ e \notin disturbed
    <3>1. c \in Running /\ e \in Running \ disturbed
      BY <1>1, <1>3, <2>2, GenerateRuns
    <3> QED
      BY <3>1 DEF Alone
  <2>3. ASSUME NEW c \in Seqs, Inject(c) PROVE FALSE
    BY <1>1, <1>3, <2>3, InjectRuns
  <2>4. ASSUME UNCHANGED <<pc, tables, kv, pos, kept, megakernel, smBuf, btBuf, seqLen, residual,
                           mkInput, argmax, logits, disturbed>>
        PROVE  History(e)' /\ Buffers(e)'
    <3>1. History(e) /\ Buffers(e)
      BY <2>4 DEF Undisturbed
    <3> QED
      BY <2>4, <3>1 DEF History, Buffers, Written, Where, Exactly, MkFrom, Prefilling
  <2>5. ASSUME NEW c \in Seqs, BeginRefused(c) PROVE History(e)' /\ Buffers(e)'
    <3>1. e # c /\ e \notin disturbed
      BY <1>1, <1>3, <2>5 DEF BeginRefused, Goto, Running
    <3>2. History(e) /\ Buffers(e)
      BY <3>1 DEF Undisturbed
    <3>3. pc'[e] = pc[e] /\ UNCHANGED <<tables, kv, pos, kept, megakernel, smBuf, btBuf, seqLen,
                                       residual, mkInput, argmax, logits>>
      BY <1>1, <2>5, <3>1 DEF BeginRefused, Goto, hostVars, deviceVars, allocVars
    <3> QED
      BY <3>2, <3>3 DEF History, Buffers, Written, Where, Exactly, MkFrom, Prefilling
  <2>6. ASSUME NEW c \in Seqs, Begin(c) PROVE History(e)' /\ Buffers(e)'
    <3>1. pc'[e] = "register"
      BY <1>1, <2>1, <2>6 DEF Begin, Goto
    <3> QED
      BY <3>1, NoClaim
  <2>7. ASSUME NEW c \in Seqs, Generate(c) PROVE History(e)' /\ Buffers(e)'
    <3>1. e = c /\ History(c) /\ Buffers(c)
      BY <2>2, <2>7 DEF Undisturbed
    <3> QED
      BY <1>1, <2>7, <3>1, OwnStep
  <2>8. CASE UNCHANGED vars
    BY <2>4, <2>8 DEF vars, allocVars, engineVars, hostVars, deviceVars
  <2> QED
    BY <2>3, <2>5, <2>6, <2>7, <2>8 DEF Next, Quiet
<1> QED
  BY <1>2, <1>3

LEMMA InitUndisturbed == Init => Alone /\ Undisturbed
<1> SUFFICES ASSUME Init PROVE Alone /\ Undisturbed
  OBVIOUS
<1>1. \A c \in Seqs : pc[c] = "idle"
  BY DEF Init
<1>2. Alone
  BY <1>1 DEF Alone, Running
<1>3. Undisturbed
  BY <1>1 DEF Undisturbed, History, Buffers
<1> QED
  BY <1>2, <1>3

\* A call that no other inference ran alongside samples every token from the
\* logits of its own last token, computed over its own tokens and no other,
\* on both forward paths, whatever earlier calls left in the pool, in the block
\* order of the free list and in the device buffers.
THEOREM AloneIsExact == Spec => []AloneSamplesOwnOutput
<1>1. EngineInv /\ Alone /\ [Next]_vars => Alone'
  BY NextAlone DEF EngineInv
<1>2. Undisturbed => AloneSamplesOwnOutput
  BY DEF Undisturbed, Buffers, AloneSamplesOwnOutput, OwnOutput, Exactly
<1>3. EngineInv /\ EngineInv' /\ Placed /\ Alone /\ Undisturbed /\ [Next]_vars => Undisturbed'
  BY NextUndisturbed
<1> QED
  BY InitUndisturbed, <1>1, <1>2, <1>3, EngineInvAlways, PlacedAlways, PTL DEF Spec


-----------------------------------------------------------------------------
(* How large a block table gets on the paged path *)

Blk(p) == p \div BlockSize

\* The boundary before which the block of position p was taken.
Before(p) == IF p = 0 THEN 0 ELSE Blk(p - 1)

LEMMA NextBlock ==
  ASSUME NEW p \in Nat, p > 0
  PROVE  /\ Blk(p) \in Nat /\ Blk(p - 1) \in Nat
         /\ p % BlockSize = 0 => Blk(p) = Blk(p - 1) + 1
         /\ p % BlockSize # 0 => Blk(p) = Blk(p - 1)
<1>1. p - 1 \in Nat /\ BlockSize \in Nat /\ BlockSize > 0
  BY AllocatorAssumption
<1>2. PICK q \in Nat, r \in 0 .. BlockSize - 1 :
         q = p \div BlockSize /\ r = p % BlockSize /\ p = q * BlockSize + r
  BY Split
<1>3. PICK k \in Nat, l \in 0 .. BlockSize - 1 :
         k = (p - 1) \div BlockSize /\ l = (p - 1) % BlockSize /\ p - 1 = k * BlockSize + l
  BY <1>1, Split
<1> DEFINE a == q * BlockSize
           b == k * BlockSize
<1>4. a \in Nat /\ b \in Nat /\ a + r = b + l + 1
  BY <1>1, <1>2, <1>3
<1>5. q < k => a + BlockSize <= b
  BY Scale
<1>6. k < q => b + BlockSize <= a
  BY Scale
<1>7. k + 1 < q => b + BlockSize + BlockSize <= a
  <2>1. (k + 1) * BlockSize = b + BlockSize
    BY <1>1, <1>3
  <2> QED BY <2>1, Scale
<1>8. q = k => a = b
  OBVIOUS
<1> HIDE DEF a, b
<1>9. ~(q < k)
  BY <1>1, <1>4, <1>5
<1>10. ~(k + 1 < q)
  BY <1>1, <1>4, <1>7
<1>11. q = k \/ q = k + 1
  BY <1>9, <1>10
<1>12. q = k => r # 0
  BY <1>4, <1>8
<1>13. q = k + 1 => r = 0
  BY <1>1, <1>4, <1>6
<1>14. Blk(p) = q /\ Blk(p - 1) = k
  BY <1>2, <1>3 DEF Blk
<1> QED BY <1>2, <1>11, <1>12, <1>13, <1>14

\* The blocks of the prompt, all of them once more while the prompt is read,
\* and those of the answer; nothing is injected on this path.
TableOf(c) ==
    ~megakernel =>
        /\ inject[c].at = "off"
        /\ pc[c] = "register" => Len(tables[c]) = BlocksFor(PromptLen[c])
        /\ pc[c] \in {"extend", "decide"} =>
               Len(tables[c]) = BlocksFor(PromptLen[c]) + Before(pos[c])
        /\ pc[c] \in PagedAt \cup {"sample", "note"} =>
               Len(tables[c]) = BlocksFor(PromptLen[c]) + Blk(pos[c])

\* A call does not forward more than its prompt and its answer.
EndOf(c) ==
    /\ made[c] <= MaxNew[c]
    /\ pc[c] \in {"idle", "register"} => made[c] = 0
    /\ ~megakernel /\ pc[c] \in PagedAt \cup {"extend", "sample", "note"} =>
           kept[c] > 0 /\ pos[c] < kept[c] + made[c]
    /\ ~megakernel /\ pc[c] = "decide" =>
           kept[c] > 0 /\ pos[c] > 0 /\ pos[c] <= kept[c] + made[c]

Sized == \A c \in Seqs : TableOf(c) /\ EndOf(c)

LEMMA InitSized == Init => Sized
  BY EngineAssumption DEF Init, Sized, TableOf, EndOf, PagedAt, Idle

\* What the steps of call c start from.
LEMMA SizedFacts ==
  ASSUME Ground, Sized, NEW c \in Seqs
  PROVE  /\ TableOf(c) /\ EndOf(c) /\ StageOf(c)
         /\ pc \in [Seqs -> Places] /\ kept \in [Seqs -> Nat] /\ pos \in [Seqs -> Nat]
         /\ made \in [Seqs -> Nat] /\ tables \in [Seqs -> Seq(Blocks)]
         /\ PromptLen[c] \in Nat /\ MaxNew[c] \in Nat
         /\ Len(tables[c]) \in Nat /\ BlocksFor(PromptLen[c]) \in Nat
<1>1. PromptLen[c] \in Nat /\ MaxNew[c] \in Nat
  BY EngineAssumption
<1>2. Len(tables[c]) \in Nat /\ BlocksFor(PromptLen[c]) \in Nat
  BY <1>1, HeldNat, BlocksForNat DEF Ground
<1>3. pc \in [Seqs -> Places] /\ kept \in [Seqs -> Nat] /\ pos \in [Seqs -> Nat]
      /\ made \in [Seqs -> Nat] /\ tables \in [Seqs -> Seq(Blocks)]
  BY DEF Ground, Typed, Calls, AllocTypeOK
<1> QED
  BY <1>1, <1>2, <1>3 DEF Ground, Sized, Placed

LEMMA EntrySized ==
  ASSUME Ground, Sized, NEW c \in Seqs,
         Begin(c) \/ BeginRefused(c) \/ Register(c) \/ Release(c) \/ Unregister(c) \/ Throw(c)
  PROVE  TableOf(c)' /\ EndOf(c)'
<1>1. /\ TableOf(c) /\ EndOf(c)
      /\ pc \in [Seqs -> Places] /\ kept \in [Seqs -> Nat] /\ pos \in [Seqs -> Nat]
      /\ made \in [Seqs -> Nat]
      /\ PromptLen[c] \in Nat
  BY SizedFacts
<1>2. CASE Begin(c)
  <2>1. Len(tables'[c]) = BlocksFor(PromptLen[c])
    BY <1>1, <1>2, AllocateTable DEF Ground, Begin
  <2>2. pc'[c] = "register" /\ pc[c] = "idle" /\ UNCHANGED <<made, megakernel, inject>>
    BY <1>1, <1>2 DEF Begin, Goto, hostVars
  <2> QED
    BY <1>1, <2>1, <2>2 DEF TableOf, EndOf, PagedAt
<1>3. CASE Register(c)
  <2>1. /\ pc'[c] = IF megakernel THEN "mkExtend" ELSE "extend"
        /\ ~megakernel => pos'[c] = 0
        /\ UNCHANGED <<tables, made, megakernel, inject>> /\ pc[c] = "register"
    BY <1>1, <1>3 DEF Register, Goto, allocVars
  <2>2. kept'[c] \in Nat /\ kept'[c] > 0
    BY <1>1, <1>3 DEF Register
  <2>3. Before(0) = 0 /\ BlocksFor(PromptLen[c]) \in Nat
    BY SizedFacts DEF Before
  <2>4. TableOf(c)'
    BY <1>1, <2>1, <2>3 DEF TableOf, PagedAt
  <2>5. EndOf(c)'
    BY <1>1, <2>1, <2>2 DEF EndOf, PagedAt
  <2> QED
    BY <2>4, <2>5
<1>4. CASE BeginRefused(c) \/ Release(c) \/ Unregister(c) \/ Throw(c)
  <2>1. pc'[c] \in {"done", "unregister", "thrown"} /\ UNCHANGED <<made, megakernel, inject>>
    BY <1>1, <1>4 DEF BeginRefused, Release, Unregister, Throw, Goto, hostVars
  <2> QED
    BY <1>1, <2>1 DEF TableOf, EndOf, PagedAt
<1> QED
  BY <1>2, <1>3, <1>4

LEMMA ExtendSized ==
  ASSUME Ground, Sized, NEW c \in Seqs, ExtendAtBoundary(c)
  PROVE  TableOf(c)' /\ EndOf(c)'
<1>1. /\ TableOf(c) /\ EndOf(c)
      /\ pc \in [Seqs -> Places] /\ kept \in [Seqs -> Nat] /\ pos \in [Seqs -> Nat]
      /\ made \in [Seqs -> Nat]
      /\ Len(tables[c]) \in Nat /\ BlocksFor(PromptLen[c]) \in Nat
  BY SizedFacts
<1>2. /\ pc[c] = "extend" /\ UNCHANGED <<pos, kept, made, megakernel, inject>>
      /\ pc'[c] \in {ForwardStart, "release"}
  BY <1>1 DEF ExtendAtBoundary, Goto, hostVars
<1>3. EndOf(c)'
  BY <1>1, <1>2 DEF EndOf, PagedAt, ForwardStart
<1>4. TableOf(c)'
  <2> SUFFICES ASSUME ~megakernel, pc'[c] = "slots"
               PROVE  Len(tables'[c]) = BlocksFor(PromptLen[c]) + Blk(pos[c])
    BY <1>1, <1>2 DEF TableOf, PagedAt, ForwardStart
  <2>1. /\ Len(tables[c]) = BlocksFor(PromptLen[c]) + Before(pos[c])
        /\ pos[c] = 0 => Prefilling(c)
    BY <1>1, <1>2 DEF TableOf, EndOf, Prefilling
  <2>2. Blk(0) = 0
    BY AllocatorAssumption DEF Blk
  <2>3. CASE ~AtBoundary(c)
    <3>1. tables' = tables /\ (pos[c] = 0 \/ pos[c] % BlockSize # 0)
      BY <1>1, <2>3 DEF ExtendAtBoundary, AtBoundary, allocVars
    <3>2. pos[c] \in Nat
      BY <1>1
    <3>3. Before(pos[c]) = Blk(pos[c])
      <4>1. CASE pos[c] = 0
        BY <4>1, <2>2, Zenon DEF Before
      <4>2. CASE pos[c] # 0
        <5>1. pos[c] > 0 /\ pos[c] % BlockSize # 0
          BY <3>1, <3>2, <4>2
        <5> QED
          BY <3>2, <4>2, <5>1, NextBlock, Zenon DEF Before
      <4> QED
        BY <4>1, <4>2
    <3> QED
      BY <2>1, <3>1, <3>3, Zenon
  <2>4. CASE AtBoundary(c)
    <3>1. Extend(c) /\ pos[c] % BlockSize = 0 /\ pos[c] > 0
      BY <1>1, <2>1, <2>4 DEF ExtendAtBoundary, AtBoundary, Goto
    <3>2. Len(tables'[c]) = Len(tables[c]) + 1
      BY <3>1, ExtendTable DEF Ground
    <3>3. Blk(pos[c]) = Blk(pos[c] - 1) + 1 /\ Blk(pos[c] - 1) \in Nat
      BY <1>1, <3>1, NextBlock
    <3> QED
      BY <1>1, <2>1, <3>1, <3>2, <3>3 DEF Before
  <2> QED
    BY <2>3, <2>4
<1> QED
  BY <1>3, <1>4

LEMMA MegaSized ==
  ASSUME Ground, Sized, NEW c \in Seqs,
         MkExtend(c) \/ MkUpload(c) \/ MkLaunch(c) \/ MkLogits(c) \/ MkNote(c)
  PROVE  TableOf(c)' /\ EndOf(c)'
<1>1. EndOf(c) /\ StageOf(c) /\ pc \in [Seqs -> Places]
  BY SizedFacts
<1>2. pc[c] \in MegaAt \cup {"mkExtend"} /\ UNCHANGED <<made, megakernel>>
      /\ pc'[c] \notin {"idle", "register"}
  BY <1>1 DEF MkExtend, MkUpload, MkLaunch, MkLogits, MkNote, Goto, hostVars, MegaAt, ForwardStart
<1>3. megakernel
  BY <1>1, <1>2 DEF StageOf
<1> QED
  BY <1>1, <1>2, <1>3 DEF TableOf, EndOf

LEMMA PagedSized ==
  ASSUME Ground, Sized, NEW c \in Seqs,
         UploadSlots(c) \/ UploadTable(c) \/ UploadLength(c) \/ Embed(c) \/ Attend(c)
  PROVE  TableOf(c)' /\ EndOf(c)'
<1>1. TableOf(c) /\ EndOf(c) /\ pc \in [Seqs -> Places]
  BY SizedFacts
<1>2. /\ UNCHANGED <<tables, pos, kept, made, megakernel, inject>>
      /\ pc[c] \in PagedAt /\ pc'[c] \in PagedAt
  BY <1>1 DEF UploadSlots, UploadTable, UploadLength, Embed, Attend, Goto, allocVars, hostVars,
              PagedAt
<1> QED
  BY <1>1, <1>2 DEF TableOf, EndOf, PagedAt

LEMMA DecodeSized ==
  ASSUME Ground, Sized, NEW c \in Seqs, Logits(c) \/ Sample(c) \/ Note(c) \/ Decide(c)
  PROVE  TableOf(c)' /\ EndOf(c)'
<1>1. /\ TableOf(c) /\ EndOf(c) /\ StageOf(c)
      /\ pc \in [Seqs -> Places] /\ kept \in [Seqs -> Nat] /\ pos \in [Seqs -> Nat]
      /\ made \in [Seqs -> Nat] /\ MaxNew[c] \in Nat
  BY SizedFacts
<1>2. UNCHANGED <<tables, kept, megakernel, inject>>
  BY DEF Logits, Sample, Note, Decide, allocVars
<1>3. Before(pos[c] + 1) = Blk(pos[c])
  BY <1>1 DEF Before
<1>4. CASE Logits(c)
  <2>1. /\ pc[c] = "logits" /\ made' = made
        /\ \/ pc'[c] = "extend" /\ pos'[c] = pos[c] + 1 /\ pos[c] + 1 < kept[c]
           \/ pc'[c] = "sample" /\ pos'[c] = pos[c]
    BY <1>1, <1>4 DEF Logits, Goto
  <2>2. TableOf(c)'
    BY <1>1, <1>2, <1>3, <2>1 DEF TableOf, PagedAt
  <2> QED
    BY <1>1, <1>2, <2>1, <2>2 DEF EndOf, PagedAt
<1>5. CASE Sample(c)
  <2>1. /\ pc[c] = "sample" /\ made' = made
        /\ \/ pc'[c] = "decide" /\ pos'[c] = kept[c] /\ kept[c] = pos[c] + 1
           \/ pc'[c] = "note" /\ pos'[c] = pos[c]
    BY <1>1, <1>5 DEF Sample, Goto, StageOf
  <2>2. TableOf(c)'
    BY <1>1, <1>2, <1>3, <2>1 DEF TableOf, PagedAt
  <2> QED
    BY <1>1, <1>2, <2>1, <2>2 DEF EndOf, PagedAt
<1>6. CASE Note(c)
  <2>1. pc[c] = "note" /\ made' = made /\ pc'[c] = "decide" /\ pos'[c] = pos[c] + 1
    BY <1>1, <1>6 DEF Note, Goto
  <2>2. TableOf(c)'
    BY <1>1, <1>2, <1>3, <2>1 DEF TableOf, PagedAt
  <2> QED
    BY <1>1, <1>2, <2>1, <2>2 DEF EndOf, PagedAt
<1>7. CASE Decide(c)
  <2>1. /\ pc[c] = "decide" /\ pos' = pos
        /\ \/ pc'[c] = "extend" /\ made[c] < MaxNew[c] /\ made'[c] = made[c] + 1
           \/ pc'[c] = "release" /\ made' = made
    BY <1>1, <1>7 DEF Decide, Goto
  <2>2. TableOf(c)'
    BY <1>1, <1>2, <2>1 DEF TableOf, PagedAt
  <2> QED
    BY <1>1, <1>2, <2>1, <2>2 DEF EndOf, PagedAt
<1> QED
  BY <1>4, <1>5, <1>6, <1>7

LEMMA OwnSized ==
  ASSUME Ground, Sized, NEW c \in Seqs, Begin(c) \/ BeginRefused(c) \/ Generate(c)
  PROVE  TableOf(c)' /\ EndOf(c)'
  BY EntrySized, ExtendSized, MegaSized, PagedSized, DecodeSized, Zenon DEF Generate

\* What a call has made, and what was injected for it, is its own.
LEMMA OtherMade ==
  ASSUME Ground, NEW c \in Seqs, NEW d \in Seqs \ {c},
         Begin(c) \/ BeginRefused(c) \/ Generate(c)
  PROVE  made'[d] = made[d] /\ inject' = inject
<1>1. made \in [Seqs -> Nat]
  BY DEF Ground, Typed
<1>2. inject' = inject
  BY DEF Begin, BeginRefused, Generate, Register, Release, Unregister, Throw, ExtendAtBoundary,
         MkExtend, UploadSlots, UploadTable, UploadLength, Embed, Attend, Logits, MkUpload,
         MkLaunch, MkLogits, MkNote, Sample, Note, Decide
<1>3. made' = made \/ made' = [made EXCEPT ![c] = @ + 1]
  BY DEF Begin, BeginRefused, Generate, Register, Release, Unregister, Throw, ExtendAtBoundary,
         MkExtend, UploadSlots, UploadTable, UploadLength, Embed, Attend, Logits, MkUpload,
         MkLaunch, MkLogits, MkNote, Sample, Note, Decide, hostVars
<1> QED
  BY <1>1, <1>2, <1>3

LEMMA NextSized ==
  ASSUME EngineInv, EngineInv', Placed, Sized, [Next]_vars PROVE Sized'
<1>1. Ground
  BY DEF Ground, EngineInv, AllocInv
<1>2. ASSUME NEW c \in Seqs, Begin(c) \/ BeginRefused(c) \/ Generate(c) PROVE Sized'
  <2>1. TableOf(c)' /\ EndOf(c)'
    BY <1>1, <1>2, OwnSized
  <2>2. ASSUME NEW d \in Seqs \ {c} PROVE TableOf(d)' /\ EndOf(d)'
    <3>1. /\ pc'[d] = pc[d] /\ pos'[d] = pos[d] /\ kept'[d] = kept[d]
          /\ tables'[d] = tables[d] /\ megakernel' = megakernel
      BY <1>1, <1>2, OtherStill DEF Ground
    <3>2. made'[d] = made[d] /\ inject' = inject
      BY <1>1, <1>2, OtherMade
    <3> QED
      BY <3>1, <3>2 DEF Sized, TableOf, EndOf
  <2> QED
    BY <2>1, <2>2 DEF Sized
<1>3. ASSUME NEW c \in Seqs, Inject(c) PROVE Sized'
  <2>1. UNCHANGED <<pc, pos, kept, made, megakernel>>
    BY <1>3 DEF Inject, InjectStart, InjectExtend, InjectUpload, InjectLaunch, InjectLogits,
                InjectNote, InjectThrow, hostVars
  <2>2. megakernel
    <3>1. megakernel \/ inject[c].at # "off"
      BY <1>3 DEF Inject, InjectStart, InjectExtend, InjectUpload, InjectLaunch, InjectLogits,
                  InjectNote, InjectThrow
    <3> QED
      BY <3>1 DEF Sized, TableOf
  <2> QED
    BY <2>1, <2>2 DEF Sized, TableOf, EndOf
<1>4. ASSUME UNCHANGED vars PROVE Sized'
  BY <1>4 DEF vars, allocVars, engineVars, hostVars, Sized, TableOf, EndOf
<1> QED
  BY <1>2, <1>3, <1>4 DEF Next, Quiet

LEMMA SizedAlways == Spec => []Sized
  BY InitSized, EngineInvAlways, PlacedAlways, NextSized, PTL DEF Spec

\* The table that get_device_block_table copies names the blocks of the prompt
\* twice over: those allocate_sequence took, one more at each boundary the
\* prompt crosses, and those of the answer.
TableIsDoubled ==
    \A c \in Seqs : pc[c] = "table" =>
        /\ Len(tables[c]) = BlocksFor(PromptLen[c]) + pos[c] \div BlockSize
        /\ pos[c] < PromptLen[c] + MaxNew[c]

\* This is exact, for any calls, prompts and pool.
THEOREM PrefillTakesTwice == Spec => []TableIsDoubled
<1>1. EngineInv /\ Placed /\ Sized => TableIsDoubled
  <2> SUFFICES ASSUME EngineInv, Placed, Sized, NEW c \in Seqs, pc[c] = "table"
               PROVE  /\ Len(tables[c]) = BlocksFor(PromptLen[c]) + pos[c] \div BlockSize
                      /\ pos[c] < PromptLen[c] + MaxNew[c]
    BY DEF TableIsDoubled
  <2>1. ~megakernel /\ TableOf(c) /\ EndOf(c) /\ kept[c] <= PromptLen[c]
    BY DEF Placed, StageOf, RoomOf, Sized, PagedAt
  <2>2. pos[c] < kept[c] + made[c] /\ made[c] <= MaxNew[c]
    BY <2>1 DEF EndOf, PagedAt
  <2>3. /\ pos[c] \in Nat /\ kept[c] \in Nat /\ made[c] \in Nat
        /\ PromptLen[c] \in Nat /\ MaxNew[c] \in Nat
    BY EngineAssumption DEF EngineInv, Typed
  <2> QED
    BY <2>1, <2>2, <2>3 DEF TableOf, PagedAt, Blk
<1> QED
  BY <1>1, EngineInvAlways, PlacedAlways, SizedAlways, PTL

LEMMA BlocksForIs ==
  ASSUME NEW n \in Nat, n > 0
  PROVE  \E r \in 0 .. BlockSize - 1 : BlocksFor(n) * BlockSize = n + r
<1> DEFINE m == n + BlockSize - 1
<1>1. m \in Nat /\ BlockSize \in Nat /\ BlockSize > 0
  BY AllocatorAssumption
<1>2. PICK k \in Nat, r \in 0 .. BlockSize - 1 :
         k = m \div BlockSize /\ m = k * BlockSize + r
  BY <1>1, Split
<1>3. k # 0
  <2>1. 0 * BlockSize = 0
    BY <1>1
  <2>2. k = 0 => m = r
    BY <1>2, <2>1
  <2> QED BY <1>1, <1>2, <2>2
<1>4. BlocksFor(n) = k
  BY <1>2, <1>3 DEF BlocksFor
<1> DEFINE a == k * BlockSize
<1>5. a \in Nat /\ n + BlockSize - 1 = a + r
  BY <1>1, <1>2
<1> HIDE DEF a
<1>6. a = n + (BlockSize - 1 - r) /\ BlockSize - 1 - r \in 0 .. BlockSize - 1
  BY <1>1, <1>2, <1>5
<1> QED
  BY <1>4, <1>6 DEF a

\* A request fits the staging buffer of the block table when its prompt counted
\* twice does: the claim of the constructor holds for those.
THEOREM TwiceFits ==
  ASSUME \A c \in Seqs : 2 * PromptLen[c] + MaxNew[c] <= MaxBlocksPerSeq * BlockSize
  PROVE  Spec => []TableFitsStaging
<1>1. ASSUME EngineInv, TableIsDoubled PROVE TableFitsStaging
  <2> SUFFICES ASSUME NEW c \in Seqs, pc[c] = "table" PROVE Len(tables[c]) <= MaxBlocksPerSeq
    BY DEF TableFitsStaging
  <2>1. /\ pos[c] \in Nat /\ PromptLen[c] \in Nat /\ PromptLen[c] > 0 /\ MaxNew[c] \in Nat
        /\ MaxBlocksPerSeq \in Nat /\ BlockSize \in Nat /\ BlockSize > 0
    BY <1>1, EngineAssumption, AllocatorAssumption DEF EngineInv, Typed
  <2>2. PICK q \in Nat, r \in 0 .. BlockSize - 1 :
           q = pos[c] \div BlockSize /\ pos[c] = q * BlockSize + r
    BY <2>1, Split
  <2> DEFINE b == BlocksFor(PromptLen[c])
             x == b * BlockSize
             y == q * BlockSize
             z == MaxBlocksPerSeq * BlockSize
  <2>3. b \in Nat
    BY <2>1, BlocksForNat
  <2>4. PICK s \in 0 .. BlockSize - 1 : x = PromptLen[c] + s
    BY <2>1, BlocksForIs
  <2>5. Len(tables[c]) = b + q /\ pos[c] < PromptLen[c] + MaxNew[c]
    BY <1>1, <2>2 DEF TableIsDoubled
  <2>6. 2 * PromptLen[c] + MaxNew[c] <= z
    OBVIOUS
  <2>7. MaxBlocksPerSeq < b + q => z + BlockSize <= x + y
    <3>1. (b + q) * BlockSize = x + y
      BY <2>1, <2>2, <2>3
    <3>2. b + q \in Nat
      BY <2>2, <2>3
    <3> HIDE DEF b
    <3> QED
      BY <2>1, <3>1, <3>2, Scale
  <2>8. x \in Nat /\ y \in Nat /\ z \in Nat /\ pos[c] = y + r
    BY <2>1, <2>2, <2>3
  <2> HIDE DEF b, x, y, z
  <2>9. x + y < z + BlockSize
    <3> DEFINE p == PromptLen[c]
               m == MaxNew[c]
               k == pos[c]
    <3>1. p \in Nat /\ m \in Nat /\ k \in Nat /\ BlockSize \in Nat
      BY <2>1
    <3>2. x = p + s /\ k = y + r /\ k < p + m /\ 2 * p + m <= z
      BY <2>4, <2>5, <2>6, <2>8
    <3> HIDE DEF p, m, k
    <3>3. 2 * p = p + p
      BY <3>1
    <3>4. s \in Nat /\ s < BlockSize /\ r \in Nat
      BY <3>1
    <3> QED
      BY ONLY <3>1, <3>2, <3>3, <3>4, <2>8, x \in Nat, y \in Nat, z \in Nat
  <2>10. ~(MaxBlocksPerSeq < b + q)
    BY <2>1, <2>7, <2>8, <2>9
  <2>11. b + q <= MaxBlocksPerSeq
    BY <2>1, <2>3, <2>10
  <2> QED
    BY ONLY <2>5, <2>11
<1> QED
  BY <1>1, PrefillTakesTwice, EngineInvAlways, PTL

-----------------------------------------------------------------------------
(* One inference at a time *)

\* No call and no injection ever ran alongside another.
Single == disturbed = {} /\ \A c \in Seqs : inject[c].at = "off"

\* What the documentation says of a single inference at a time is so: when at
\* most one thread is in generate() and none injects, every token is sampled
\* from the call's own output.
THEOREM OneAtATimeIsExact ==
  ASSUME MaxActive = 1, MaxInject = 0
  PROVE  Spec => []SamplesOwnOutput
<1>1. Init => Single
  BY DEF Init, Single, Idle
<1>2. ASSUME EngineInv, Single, [Next]_vars PROVE Single'
  <2>1. Injecting = {}
    BY <1>2 DEF Single, Injecting
  <2>2. ASSUME NEW c \in Seqs, Begin(c) PROVE Single'
    <3>1. Cardinality(Running) < 1 /\ IsFiniteSet(Running)
      BY <2>2, AllocatorAssumption, FS_Subset DEF Begin, Running
    <3>2. Running = {}
      BY <3>1, FS_CardinalityType, FS_EmptySet
    <3> QED
      BY <1>2, <2>1, <2>2, <3>2 DEF Begin, Disturb, Single
  <2>3. ASSUME NEW c \in Seqs, BeginRefused(c) \/ Generate(c) PROVE Single'
    BY <1>2, <2>3
       DEF Single, BeginRefused, Generate, Register, Release, Unregister, Throw, ExtendAtBoundary,
           MkExtend, UploadSlots, UploadTable, UploadLength, Embed, Attend, Logits, MkUpload,
           MkLaunch, MkLogits, MkNote, Sample, Note, Decide
  <2>4. ASSUME NEW c \in Seqs, Inject(c) PROVE Single'
    <3>1. InjectStart(c)
      BY <1>2, <2>4 DEF Single, Inject, InjectExtend, InjectUpload, InjectLaunch, InjectLogits,
                        InjectNote, InjectThrow
    <3> DEFINE D == {d \in Seqs : inject[d].at # "off"}
    <3>2. IsFiniteSet(D)
      BY AllocatorAssumption, FS_Subset
    <3>3. Cardinality(D) < 0
      BY <3>1 DEF InjectStart
    <3> QED
      BY <3>2, <3>3, FS_CardinalityType
  <2>5. CASE UNCHANGED vars
    BY <1>2, <2>5 DEF vars, engineVars, Single
  <2> QED
    BY <1>2, <2>2, <2>3, <2>4, <2>5 DEF Next, Quiet
<1>3. Single /\ AloneSamplesOwnOutput => SamplesOwnOutput
  BY DEF Single, AloneSamplesOwnOutput, SamplesOwnOutput
<1> QED
  BY <1>1, <1>2, <1>3, AloneIsExact, EngineInvAlways, PTL DEF Spec

=============================================================================
