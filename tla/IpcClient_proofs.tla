-------------------------- MODULE IpcClient_proofs --------------------------
(***************************************************************************)
(* Theorems about IpcClient for any number of calls and aborts, any socket *)
(* capacity and any sidecar: its safety properties and the implementation  *)
(* of RemoteCalls.                                                         *)
(***************************************************************************)
EXTENDS IpcClient, SequenceTheorems, TLAPS

-----------------------------------------------------------------------------
(* The inductive invariant *)

NotSent == {"idle", "send"}

\* A header on the wire is that of a sender past its first write whose frame the
\* sidecar has not taken, and is there once.
Wired ==
    /\ \A i \in 1 .. Len(wire) : wire[i].part = "header" =>
           /\ pc[wire[i].of] \notin NotSent
           /\ wire[i].of \in Calls => takes[wire[i].of] = 0
    /\ \A i, j \in 1 .. Len(wire) :
           wire[i].part = "header" /\ wire[j] = wire[i] => i = j

TakenWasSent == \A c \in Calls : takes[c] # 0 => pc[c] \notin NotSent /\ takes[c] = 1

\* Whatever names a call was sent by the sidecar for that call after it took it.
NamesTaken ==
    /\ \A c \in serving : takes[c] = 1
    /\ \A c \in Calls : said[c] # {} => takes[c] = 1
    /\ \A i \in 1 .. Len(back) : back[i].kind \in {"reply", "status"} =>
           back[i] \in said[back[i].cid]
    /\ \A c \in Calls : promise[c] # None => promise[c] \in said[c]

\* A call that has not returned has no answer, one that has has.
AnswerAtEnd == \A c \in Calls : answer[c] = None <=> pc[c] # "done"

Inv == TypeOK /\ PendingExact /\ Wired /\ TakenWasSent /\ NamesTaken /\ AnswerAtEnd

LEMMA Names ==
  /\ \A m \in Message : m.kind \in {"reply", "status"} => m \in Named /\ m.cid \in Calls
  /\ None \notin Named
BY IpcAssumption DEF Message, Named

LEMMA WireEntries == TypeOK => \A i \in 1 .. Len(wire) : wire[i] \in Write /\ wire[i].of \in Senders
<1> SUFFICES ASSUME TypeOK, NEW i \in 1 .. Len(wire)
             PROVE  wire[i] \in Write /\ wire[i].of \in Senders
  OBVIOUS
<1>1. wire[i] \in Write
  BY ElementOfSeq DEF TypeOK
<1>2. \A e \in Write : e.of \in Senders
  BY DEF Write
<1> QED
  BY <1>1, <1>2

LEMMA InitInv == Init => Inv
<1> SUFFICES ASSUME Init PROVE Inv
  OBVIOUS
<1>1. TypeOK
  BY IpcAssumption DEF Init, TypeOK, Senders
<1>2. PendingExact /\ AnswerAtEnd /\ Wired /\ TakenWasSent /\ NamesTaken
  BY DEF Init, PendingExact, AnswerAtEnd, Wired, TakenWasSent, NamesTaken, Senders
<1> QED
  BY <1>1, <1>2 DEF Inv

-----------------------------------------------------------------------------
(* Steps of a sender that leave the wire and the receiving thread alone *)

LEMMA Moved ==
  ASSUME Inv, NEW w \in Senders, NEW where, Goto(w, where),
         where \in {"send", "payload", "waiting", "failed", "expired", "done"},
         pc[w] \in NotSent \/ where \notin NotSent,
         UNCHANGED <<promise, connected, recvPc, wire, sidecar, serving, history, back>>
  PROVE  /\ Wired' /\ TakenWasSent' /\ NamesTaken'
         /\ (pending' \subseteq Calls /\ answer' \in [Calls -> Named \cup {None, Failed}]
                => TypeOK')
<1>1. pc' = [pc EXCEPT ![w] = where]
  BY DEF Goto
<1>2. pc \in [Senders -> {"idle", "send", "payload", "waiting", "failed", "expired",
                          "done"}]
  BY DEF Inv, TypeOK
<1>3. \A v \in Senders : pc[v] \notin NotSent => pc'[v] \notin NotSent
  BY <1>1, <1>2
<1>4. \A i \in 1 .. Len(wire) : wire[i].of \in Senders
  BY WireEntries DEF Inv
<1>5. Wired'
  BY <1>3, <1>4 DEF Inv, Wired, history
<1>6. TakenWasSent'
  BY <1>3 DEF Inv, TypeOK, TakenWasSent, Senders, history
<1>7. NamesTaken'
  BY DEF Inv, NamesTaken, history
<1>8. pc' \in [Senders -> {"idle", "send", "payload", "waiting", "failed", "expired",
                           "done"}]
  BY <1>1, <1>2
<1>9. (pending' \subseteq Calls /\ answer' \in [Calls -> Named \cup {None, Failed}]) => TypeOK'
  BY <1>8 DEF Inv, TypeOK, history
<1> QED
  BY <1>5, <1>6, <1>7, <1>9

LEMMA RegisterInv == ASSUME Inv, NEW c \in Calls, Register(c) PROVE Inv'
<1>1. c \in Senders /\ Goto(c, "send") /\ pc[c] = "idle"
  BY DEF Register, Senders
<1>2. Wired' /\ TakenWasSent' /\ NamesTaken' /\ TypeOK'
  BY <1>1, Moved DEF Register, NotSent, Inv, TypeOK
<1>3. promise[c] = None
  BY <1>1 DEF Inv, NamesTaken, TakenWasSent, NotSent
<1>4. PendingExact' /\ AnswerAtEnd'
  BY <1>1, <1>3 DEF Register, Inv, TypeOK, PendingExact, AnswerAtEnd, Goto, Senders
<1> QED
  BY <1>2, <1>4 DEF Inv

LEMMA AbortCallInv == ASSUME Inv, NEW a \in Aborts, AbortCall(a) PROVE Inv'
<1>1. a \in Senders /\ Goto(a, "send") /\ pc[a] = "idle" /\ a \notin Calls
  BY IpcAssumption DEF AbortCall, Senders
<1>2. Wired' /\ TakenWasSent' /\ NamesTaken' /\ TypeOK'
  BY <1>1, Moved DEF AbortCall, NotSent, Inv, TypeOK
<1>3. PendingExact' /\ AnswerAtEnd'
  BY <1>1 DEF AbortCall, Inv, TypeOK, PendingExact, AnswerAtEnd, Goto, Senders
<1> QED
  BY <1>2, <1>3 DEF Inv

LEMMA SendFailsInv == ASSUME Inv, NEW w \in Senders, SendFails(w) PROVE Inv'
<1>1. /\ Goto(w, IF w \in Calls THEN "failed" ELSE "done")
      /\ pc[w] \in {"send", "payload"}
  BY DEF SendFails
<1>2. Wired' /\ TakenWasSent' /\ NamesTaken' /\ TypeOK'
  <2>1. CASE w \in Calls
    BY <1>1, <2>1, Moved DEF SendFails, NotSent, Inv, TypeOK
  <2>2. CASE w \notin Calls
    BY <1>1, <2>2, Moved DEF SendFails, NotSent, Inv, TypeOK
  <2> QED
    BY <2>1, <2>2
<1>3. PendingExact' /\ AnswerAtEnd'
  BY <1>1 DEF SendFails, Inv, TypeOK, PendingExact, AnswerAtEnd, Goto, Senders
<1> QED
  BY <1>2, <1>3 DEF Inv

LEMMA TakeReplyInv == ASSUME Inv, NEW c \in Calls, TakeReply(c) PROVE Inv'
<1>1. c \in Senders /\ Goto(c, "done") /\ pc[c] = "waiting" /\ promise[c] # None
  BY DEF TakeReply, Senders
<1>2. Wired' /\ TakenWasSent' /\ NamesTaken' /\ TypeOK'
  BY <1>1, Moved DEF TakeReply, NotSent, Inv, TypeOK
<1>3. PendingExact' /\ AnswerAtEnd'
  BY <1>1 DEF TakeReply, Inv, TypeOK, PendingExact, AnswerAtEnd, Goto, Senders
<1> QED
  BY <1>2, <1>3 DEF Inv

LEMMA ExpireInv == ASSUME Inv, NEW c \in Calls, Expire(c) PROVE Inv'
<1>1. c \in Senders /\ Goto(c, "expired") /\ pc[c] = "waiting"
  BY DEF Expire, Senders
<1>2. Wired' /\ TakenWasSent' /\ NamesTaken' /\ TypeOK'
  BY <1>1, Moved DEF Expire, NotSent, Inv, TypeOK
<1>3. PendingExact' /\ AnswerAtEnd'
  BY <1>1 DEF Expire, Inv, TypeOK, PendingExact, AnswerAtEnd, Goto, Senders
<1> QED
  BY <1>2, <1>3 DEF Inv

LEMMA GiveUpInv == ASSUME Inv, NEW c \in Calls, GiveUp(c) PROVE Inv'
<1>1. c \in Senders /\ Goto(c, "done") /\ pc[c] \in {"failed", "expired"}
  BY DEF GiveUp, Senders
<1>2. Wired' /\ TakenWasSent' /\ NamesTaken' /\ TypeOK'
  BY <1>1, Moved DEF GiveUp, NotSent, Inv, TypeOK
<1>4. Failed # None
  BY IpcAssumption
<1>3. PendingExact' /\ AnswerAtEnd'
  BY <1>1, <1>4 DEF GiveUp, Inv, TypeOK, PendingExact, AnswerAtEnd, Goto, Senders
<1> QED
  BY <1>2, <1>3 DEF Inv

-----------------------------------------------------------------------------
(* Writes *)

LEMMA WriteInv ==
  ASSUME Inv, NEW w \in Senders, NEW part \in {"header", "payload"},
         NEW next \in {"payload", "waiting", "done"},
         WriteOk(w, part, next),
         part = "header" => pc[w] = "send",
         UNCHANGED <<promise, connected, recvPc, sidecar, serving, history, back, answer,
                     pending>>
  PROVE  TypeOK' /\ Wired' /\ TakenWasSent' /\ NamesTaken'
<1> DEFINE e == [of |-> w, part |-> part]
<1>1. pc' = [pc EXCEPT ![w] = next] /\ wire' = Append(wire, e) /\ Len(wire) < SockCap
  BY DEF WriteOk, Goto
<1>2. /\ pc \in [Senders -> {"idle", "send", "payload", "waiting", "failed", "expired",
                             "done"}]
      /\ wire \in Seq(Write) /\ Len(wire) \in Nat /\ SockCap \in Nat
  BY IpcAssumption, LenProperties DEF Inv, TypeOK
<1>3. e \in Write
  BY DEF Write
<1>4. /\ wire' \in Seq(Write) /\ Len(wire') = Len(wire) + 1
      /\ \A i \in 1 .. Len(wire) : wire'[i] = wire[i]
      /\ wire'[Len(wire) + 1] = e
  BY <1>1, <1>2, <1>3, AppendProperties
<1>5. \A v \in Senders : pc[v] \notin NotSent => pc'[v] \notin NotSent
  BY <1>1, <1>2 DEF NotSent
<1>6. pc'[w] \notin NotSent
  BY <1>1, <1>2 DEF NotSent
<1>7. TypeOK'
  <2>1. pc' \in [Senders -> {"idle", "send", "payload", "waiting", "failed", "expired",
                             "done"}]
    BY <1>1, <1>2
  <2> QED
    BY <2>1, <1>1, <1>2, <1>4 DEF Inv, TypeOK, history
<1>8. TakenWasSent'
  BY <1>5 DEF Inv, TypeOK, TakenWasSent, Senders, history
<1>9. NamesTaken'
  BY DEF Inv, NamesTaken, history
<1>10. Wired'
  <2>1. \A i \in 1 .. Len(wire) : wire[i].of \in Senders
    BY WireEntries DEF Inv
  <2>2. part = "header" =>
          /\ w \in Calls => takes[w] = 0
          /\ \A i \in 1 .. Len(wire) : wire[i] # e
    BY DEF Inv, Wired, TakenWasSent, NotSent
  <2>3. e.part = part /\ e.of = w
    OBVIOUS
  <2> HIDE DEF e
  <2>4. \A i \in 1 .. Len(wire') : i \in 1 .. Len(wire) \/ i = Len(wire) + 1
    BY <1>2, <1>4
  <2>5. ASSUME NEW i \in 1 .. Len(wire'), wire'[i].part = "header"
        PROVE  /\ pc'[wire'[i].of] \notin NotSent
               /\ wire'[i].of \in Calls => takes[wire'[i].of] = 0
    <3>1. CASE i \in 1 .. Len(wire)
      BY <2>5, <3>1, <2>1, <1>4, <1>5 DEF Inv, Wired
    <3>2. CASE i = Len(wire) + 1
      BY <2>5, <3>2, <2>2, <2>3, <1>4, <1>6
    <3> QED
      BY <2>4, <3>1, <3>2
  <2>6. ASSUME NEW i \in 1 .. Len(wire'), NEW j \in 1 .. Len(wire'),
               wire'[i].part = "header", wire'[j] = wire'[i]
        PROVE  i = j
    <3>1. CASE i \in 1 .. Len(wire) /\ j \in 1 .. Len(wire)
      BY <2>6, <3>1, <1>4 DEF Inv, Wired
    <3>2. CASE i = Len(wire) + 1 /\ j \in 1 .. Len(wire)
      BY <2>6, <3>2, <2>2, <2>3, <1>4
    <3>3. CASE j = Len(wire) + 1 /\ i \in 1 .. Len(wire)
      BY <2>6, <3>3, <2>2, <2>3, <1>4
    <3> QED
      BY <2>4, <3>1, <3>2, <3>3
  <2> QED
    BY <2>5, <2>6 DEF Wired, history
<1> QED
  BY <1>7, <1>8, <1>9, <1>10

LEMMA SendHeaderInv == ASSUME Inv, NEW w \in Senders, SendHeader(w) PROVE Inv'
<1>1. TypeOK' /\ Wired' /\ TakenWasSent' /\ NamesTaken'
  BY WriteInv DEF SendHeader
<1>2. PendingExact' /\ AnswerAtEnd'
  BY DEF SendHeader, WriteOk, Goto, Inv, TypeOK, PendingExact, AnswerAtEnd, Senders
<1> QED
  BY <1>1, <1>2 DEF Inv

LEMMA SendPayloadInv == ASSUME Inv, NEW w \in Senders, SendPayload(w) PROVE Inv'
<1>1. TypeOK' /\ Wired' /\ TakenWasSent' /\ NamesTaken'
  <2>1. CASE w \in Calls
    BY <2>1, WriteInv DEF SendPayload
  <2>2. CASE w \notin Calls
    BY <2>2, WriteInv DEF SendPayload
  <2> QED
    BY <2>1, <2>2
<1>2. PendingExact' /\ AnswerAtEnd'
  BY DEF SendPayload, WriteOk, Goto, Inv, TypeOK, PendingExact, AnswerAtEnd, Senders
<1> QED
  BY <1>1, <1>2 DEF Inv

-----------------------------------------------------------------------------
(* The receiving thread *)

LEMMA ReceiveInv == ASSUME Inv, Receive PROVE Inv'
<1> DEFINE m == Head(back)
<1>1. /\ back \in Seq(Message) /\ back # <<>> /\ back' = Tail(back)
      /\ UNCHANGED <<pc, answer, wire, sidecar, serving, takes, said>>
  BY DEF Inv, TypeOK, Receive, history
<1>2. m \in Message /\ m = back[1] /\ Len(back) \in Nat /\ Len(back) >= 1
  BY <1>1, EmptySeq, LenProperties
<1>3. /\ back' \in Seq(Message) /\ Len(back') = Len(back) - 1
      /\ \A i \in 1 .. Len(back') : back'[i] = back[i + 1]
  BY <1>1, HeadTailProperties
<1>4. NamesTaken'
  <2>1. \A i \in 1 .. Len(back') : back'[i].kind \in {"reply", "status"} => back'[i] \in said[back'[i].cid]
    BY <1>2, <1>3 DEF Inv, NamesTaken
  <2>2. m.kind \in {"reply", "status"} => m \in said[m.cid]
    BY <1>2 DEF Inv, NamesTaken
  <2> HIDE DEF m
  <2>3. \A c \in Calls : promise'[c] # None => promise'[c] \in said[c]
    BY <2>2 DEF Inv, NamesTaken, TypeOK, Receive, Resolve, m
  <2> QED
    BY <1>1, <2>1, <2>3 DEF Inv, NamesTaken
<1>5. ASSUME UNCHANGED <<pending, promise>> PROVE Inv'
  <2>1. TypeOK'
    BY <1>1, <1>3, <1>5 DEF Inv, TypeOK, Receive
  <2>2. PendingExact' /\ AnswerAtEnd' /\ Wired' /\ TakenWasSent'
    BY <1>1, <1>5 DEF Inv, PendingExact, AnswerAtEnd, Wired, TakenWasSent
  <2> QED
    BY <2>1, <2>2, <1>4 DEF Inv
<1>6. ASSUME m.kind \in {"reply", "status"}, m.cid \in pending,
             promise' = [promise EXCEPT ![m.cid] = m], pending' = pending \ {m.cid}
      PROVE  Inv'
  <2>1. m \in Named /\ m.cid \in Calls /\ m # None
    BY <1>2, <1>6, Names
  <2> HIDE DEF m
  <2>2. TypeOK'
    <3>1. promise' \in [Calls -> Named \cup {None}] /\ pending' \subseteq Calls
      BY <2>1, <1>6 DEF Inv, TypeOK
    <3>2. \A c \in Calls : promise'[c] \in {None} \cup {n \in Named : n.cid = c}
      BY <2>1, <1>6 DEF Inv, TypeOK
    <3>3. recvPc' \in {"recv", "ended", "thrown"} /\ connected' \in BOOLEAN
      BY DEF Receive
    <3> QED
      BY <1>1, <1>3, <3>1, <3>2, <3>3 DEF Inv, TypeOK
  <2>3. PendingExact' /\ AnswerAtEnd'
    BY <1>1, <1>6, <2>1 DEF Inv, TypeOK, PendingExact, AnswerAtEnd
  <2>4. Wired' /\ TakenWasSent'
    BY <1>1 DEF Inv, Wired, TakenWasSent
  <2> QED
    BY <2>2, <2>3, <2>4, <1>4 DEF Inv
<1> QED
  BY <1>5, <1>6 DEF Receive, Resolve

LEMMA ReceiveEndInv == ASSUME Inv, ReceiveEnd PROVE Inv'
<1>1. /\ recvPc' = "ended" /\ connected' \in BOOLEAN
      /\ UNCHANGED <<pc, pending, promise, answer, wire, sidecar, serving, takes, said, back>>
  BY DEF Inv, TypeOK, ReceiveEnd, history
<1>2. TypeOK'
  BY <1>1 DEF Inv, TypeOK
<1>3. PendingExact' /\ AnswerAtEnd'
  BY <1>1 DEF Inv, PendingExact, AnswerAtEnd
<1>4. Wired' /\ TakenWasSent'
  BY <1>1 DEF Inv, Wired, TakenWasSent
<1>5. NamesTaken'
  BY <1>1 DEF Inv, NamesTaken
<1> QED
  BY <1>2, <1>3, <1>4, <1>5 DEF Inv

-----------------------------------------------------------------------------
(* The sidecar *)

LEMMA SidecarReadInv == ASSUME Inv, SidecarRead PROVE Inv'
<1> DEFINE w == wire[1].of
<1>1. wire \in Seq(Write) /\ Len(wire) \in Nat /\ Len(wire) >= 2 /\ wire[1].part = "header"
  BY LenProperties DEF Inv, TypeOK, SidecarRead, WholeFrame
<1>2. /\ wire' \in Seq(Write) /\ Len(wire') = Len(wire) - 2
      /\ \A i \in 1 .. Len(wire') : wire'[i] = wire[i + 2]
  <2>1. wire' = SubSeq(wire, 3, Len(wire))
    BY DEF SidecarRead
  <2>2. \A i \in 3 .. Len(wire) : wire[i] \in Write
    BY <1>1
  <2>3. /\ SubSeq(wire, 3, Len(wire)) \in Seq(Write)
        /\ Len(SubSeq(wire, 3, Len(wire))) =
               IF 3 <= Len(wire) THEN Len(wire) - 3 + 1 ELSE 0
        /\ \A i \in 1 .. Len(wire) - 3 + 1 : SubSeq(wire, 3, Len(wire))[i] = wire[3 + i - 1]
    BY <1>1, <2>2, SubSeqProperties
  <2>4. Len(wire) - 3 + 1 = Len(wire) - 2 /\ \A i \in 1 .. Len(wire) - 2 : 3 + i - 1 = i + 2
    BY <1>1
  <2> DEFINE rest == SubSeq(wire, 3, Len(wire))
  <2>5. rest \in Seq(Write) /\ Len(rest) = Len(wire) - 2
    <3>1. CASE Len(wire) = 2
      BY <1>1, <2>3, <3>1
    <3>2. CASE Len(wire) # 2
      <4>1. \A n \in Nat : n >= 2 /\ n # 2 => 3 <= n
        OBVIOUS
      <4>2. 3 <= Len(wire)
        BY <1>1, <3>2, <4>1
      <4> QED
        BY <2>3, <2>4, <4>2
    <3> QED
      BY <3>1, <3>2
  <2>6. \A i \in 1 .. Len(wire) - 2 : rest[i] = wire[i + 2]
    BY <2>3, <2>4, Zenon
  <2> HIDE DEF rest
  <2>7. wire' = rest
    BY <2>1 DEF rest
  <2> QED
    BY <2>5, <2>6, <2>7
<1>3. w \in Senders /\ pc[w] \notin NotSent
  BY <1>1, WireEntries DEF Inv, Wired
<1>4. /\ takes' = [c \in Calls |-> IF c = w THEN takes[c] + 1 ELSE takes[c]]
      /\ serving' = serving \cup ({w} \cap Calls)
      /\ w \in Calls => takes[w] = 0
      /\ takes \in [Calls -> Nat]
  BY <1>1 DEF SidecarRead, Inv, Wired, TypeOK
<1>5. \A i \in 1 .. Len(wire') : wire'[i].part = "header" => wire'[i].of # w
  <2> SUFFICES ASSUME NEW i \in 1 .. Len(wire'), wire'[i].part = "header", wire'[i].of = w
               PROVE  FALSE
    OBVIOUS
  <2>1. /\ i + 2 \in 1 .. Len(wire) /\ wire[i + 2] = wire'[i] /\ i + 2 # 1
        /\ 1 \in 1 .. Len(wire)
    BY <1>1, <1>2
  <2>2. wire[i + 2] \in Write /\ wire[1] \in Write
    BY <1>1, <2>1, WireEntries DEF Inv
  <2>3. wire[i + 2] = wire[1]
    BY <2>1, <2>2, <1>1 DEF Write
  <2>4. \A j, k \in 1 .. Len(wire) :
            wire[j].part = "header" /\ wire[k] = wire[j] => j = k
    BY DEF Inv, Wired
  <2> QED
    BY <2>1, <2>3, <2>4, <1>1
<1>6. UNCHANGED <<pc, pending, promise, answer, connected, recvPc, sidecar, said, back>>
  BY DEF SidecarRead
<1> HIDE DEF w
<1>7. TypeOK'
  <2>1. Len(wire') <= SockCap
    BY <1>1, <1>2, IpcAssumption DEF Inv, TypeOK
  <2>2. serving' \subseteq Calls /\ takes' \in [Calls -> Nat]
    BY <1>4 DEF Inv, TypeOK
  <2> QED
    BY <1>2, <1>6, <2>1, <2>2 DEF Inv, TypeOK
<1>8. PendingExact' /\ AnswerAtEnd' /\ TakenWasSent'
  BY <1>3, <1>4, <1>6 DEF Inv, PendingExact, AnswerAtEnd, TakenWasSent
<1>10. NamesTaken'
  BY <1>3, <1>4, <1>6 DEF Inv, NamesTaken, TypeOK
<1>9. Wired'
  <2>1. \A i \in 1 .. Len(wire') : wire'[i].part = "header" =>
            /\ pc[wire'[i].of] \notin NotSent
            /\ wire'[i].of \in Calls => takes[wire'[i].of] = 0
    <3>1. \A i \in 1 .. Len(wire') : i + 2 \in 1 .. Len(wire) /\ wire'[i] = wire[i + 2]
      BY <1>1, <1>2
    <3> QED
      BY <3>1 DEF Inv, Wired
  <2>2. \A i, j \in 1 .. Len(wire') :
            wire'[i].part = "header" /\ wire'[j] = wire'[i] => i = j
    <3> SUFFICES ASSUME NEW i \in 1 .. Len(wire'), NEW j \in 1 .. Len(wire'),
                        wire'[i].part = "header", wire'[j] = wire'[i]
                 PROVE  i = j
      OBVIOUS
    <3>1. i + 2 \in 1 .. Len(wire) /\ j + 2 \in 1 .. Len(wire)
      BY <1>1, <1>2
    <3>2. i + 2 = j + 2
      BY <3>1, <1>2 DEF Inv, Wired
    <3> QED
      BY <3>2
  <2> QED
    BY <2>1, <2>2, <1>4, <1>5, <1>6 DEF Wired
<1> QED
  BY <1>7, <1>8, <1>9, <1>10 DEF Inv

LEMMA SidecarMisreadInv == ASSUME Inv, SidecarMisread PROVE Inv'
<1>1. wire' = <<>> /\ Len(wire') = 0 /\ wire' \in Seq(Write) /\ sidecar' = "lost" /\ 0 <= SockCap
  BY IpcAssumption DEF SidecarMisread
<1>2. UNCHANGED <<pc, pending, promise, answer, connected, recvPc, serving, takes, said, back>>
  BY DEF SidecarMisread, history
<1>3. TypeOK'
  BY <1>1, <1>2 DEF Inv, TypeOK
<1>4. Wired'
  BY <1>1 DEF Wired
<1> QED
  BY <1>2, <1>3, <1>4 DEF Inv, PendingExact, AnswerAtEnd, TakenWasSent, NamesTaken

LEMMA SidecarSendInv == ASSUME Inv, NEW m \in Message, SidecarSend(m) PROVE Inv'
<1>1. back \in Seq(Message) /\ Len(back) \in Nat /\ back' = Append(back, m)
  BY LenProperties DEF Inv, TypeOK, SidecarSend
<1>2. /\ back' \in Seq(Message) /\ Len(back') = Len(back) + 1
      /\ \A i \in 1 .. Len(back) : back'[i] = back[i]
      /\ back'[Len(back) + 1] = m
  BY <1>1, AppendProperties
<1>3. /\ UNCHANGED <<pc, pending, promise, answer, connected, recvPc, wire, sidecar, takes>>
      /\ serving' \subseteq serving
      /\ m.kind \in {"reply", "status"} => m.cid \in serving
      /\ said' = [c \in Calls |-> IF c = m.cid THEN said[c] \cup {m} ELSE said[c]]
  BY DEF SidecarSend
<1>7. m.cid \in Calls => m \in Named /\ takes[m.cid] = 1
  BY <1>3, IpcAssumption DEF Message, Named, Inv, NamesTaken
<1>4. TypeOK'
  <2>1. said' \in [Calls -> SUBSET Named]
    BY <1>3, <1>7 DEF Inv, TypeOK
  <2> QED
    BY <1>2, <1>3, <2>1 DEF Inv, TypeOK
<1>5. PendingExact' /\ AnswerAtEnd' /\ Wired' /\ TakenWasSent'
  BY <1>3 DEF Inv, PendingExact, AnswerAtEnd, Wired, TakenWasSent
<1>6. NamesTaken'
  <2>1. ASSUME NEW i \in 1 .. Len(back'), back'[i].kind \in {"reply", "status"}
        PROVE  back'[i] \in said'[back'[i].cid]
    <3>1. CASE i \in 1 .. Len(back)
      <4>1. back[i] \in Message /\ back'[i] = back[i]
        BY <3>1, <1>1, <1>2
      <4> QED
        BY <2>1, <3>1, <4>1, <1>3, Names DEF Inv, NamesTaken
    <3>2. CASE i = Len(back) + 1
      BY <2>1, <3>2, <1>2, <1>3, Names
    <3> QED
      BY <3>1, <3>2, <1>1, <1>2
  <2>2. \A c \in Calls : said'[c] # {} => takes'[c] = 1
    BY <1>3, <1>7 DEF Inv, NamesTaken
  <2>3. \A c \in Calls : said[c] \subseteq said'[c]
    BY <1>3
  <2>4. /\ \A c \in serving' : takes'[c] = 1
        /\ \A c \in Calls : promise'[c] # None => promise'[c] \in said'[c]
    BY <2>3, <1>3 DEF Inv, NamesTaken
  <2> QED
    BY <2>1, <2>2, <2>4 DEF NamesTaken
<1> QED
  BY <1>4, <1>5, <1>6 DEF Inv

LEMMA SidecarChangeInv ==
  ASSUME Inv, NEW s \in {"up", "hung", "gone"}, SidecarChange(s) PROVE Inv'
<1>1. /\ UNCHANGED <<pc, pending, promise, answer, connected, recvPc, serving, takes, said,
                      back>>
      /\ sidecar' = s
      /\ wire' = <<>> \/ wire' = wire
  BY DEF SidecarChange, history
<1>2. <<>> \in Seq(Write) /\ Len(<<>>) = 0 /\ 0 <= SockCap
  BY IpcAssumption
<1>3. TypeOK'
  BY <1>1, <1>2 DEF Inv, TypeOK
<1>4. Wired'
  BY <1>1, <1>2 DEF Inv, Wired
<1> QED
  BY <1>1, <1>3, <1>4 DEF Inv, PendingExact, AnswerAtEnd, TakenWasSent, NamesTaken

-----------------------------------------------------------------------------

LEMMA NextInv == Inv /\ [Next]_vars => Inv'
<1> SUFFICES ASSUME Inv, [Next]_vars PROVE Inv'
  OBVIOUS
<1>1. ASSUME NEW w \in Senders, Sending(w) PROVE Inv'
  BY <1>1, SendHeaderInv, SendPayloadInv, SendFailsInv DEF Sending
<1>2. ASSUME NEW c \in Calls, Register(c) \/ Caller(c) PROVE Inv'
  <2>1. c \in Senders
    BY DEF Senders
  <2> QED
    BY <2>1, <1>1, <1>2, RegisterInv, TakeReplyInv, ExpireInv, GiveUpInv DEF Caller
<1>3. ASSUME NEW a \in Aborts, AbortCall(a) \/ Sending(a) PROVE Inv'
  <2>1. a \in Senders
    BY DEF Senders
  <2> QED
    BY <2>1, <1>1, <1>3, AbortCallInv
<1>4. ASSUME Receiver PROVE Inv'
  BY <1>4, ReceiveInv, ReceiveEndInv DEF Receiver
<1>5. ASSUME Sidecar PROVE Inv'
  BY <1>5, SidecarReadInv, SidecarMisreadInv, SidecarSendInv, SidecarChangeInv DEF Sidecar
<1>6. ASSUME UNCHANGED vars PROVE Inv'
  BY <1>6 DEF vars, Inv, TypeOK, PendingExact, AnswerAtEnd, Wired, TakenWasSent, NamesTaken
<1> QED
  BY <1>2, <1>3, <1>4, <1>5, <1>6 DEF Next, Rest

LEMMA AlwaysInv == Spec => []Inv
BY InitInv, NextInv, PTL DEF Spec

\* Every reachable state is well typed; a future that is ready holds a message
\* that names its call.
THEOREM IpcTypeCorrect == Spec => []TypeOK
<1>1. Inv => TypeOK
  BY DEF Inv
<1> QED
  BY <1>1, AlwaysInv, PTL

\* pending_ holds exactly the promises not set that a caller still owns.
THEOREM PendingIsExact == Spec => []PendingExact
<1>1. Inv => PendingExact
  BY DEF Inv
<1> QED
  BY <1>1, AlwaysInv, PTL

\* No promise is set twice.
THEOREM PromisesSetOnce == Spec => PromiseSetOnce
<1>1. Inv /\ [Next]_vars =>
        [\A c \in Calls : promise[c] # None => promise'[c] = promise[c]]_vars
  <2> SUFFICES ASSUME Inv, Next, NEW c \in Calls, promise[c] # None
               PROVE  promise'[c] = promise[c]
    OBVIOUS
  <2>1. CASE Receive
    <3>1. c \notin pending
      BY DEF Inv, PendingExact
    <3> QED
      BY <2>1, <3>1 DEF Receive, Resolve, Inv, TypeOK
  <2>2. CASE UNCHANGED promise
    BY <2>2
  <2>3. Receive \/ UNCHANGED promise
    BY DEF Next, Register, Caller, Sending, SendHeader, SendPayload, SendFails, TakeReply,
           Expire, GiveUp, AbortCall, Receiver, ReceiveEnd, Sidecar, SidecarRead,
           SidecarMisread, SidecarSend, SidecarChange, Rest, vars
  <2> QED
    BY <2>1, <2>2, <2>3
<1> QED
  BY <1>1, AlwaysInv, PTL DEF Spec, PromiseSetOnce

-----------------------------------------------------------------------------
(* IpcClient implements RemoteCalls *)

\* What a step of the concrete state leaves alone in the abstract one.
Same == UNCHANGED <<{c \in Calls : pc[c] # "idle"}, takes, said, answer>>

\* A thread that has called and goes on without returning.
LEMMA StillAsked ==
  ASSUME Inv, NEW w \in Senders, NEW where, Goto(w, where), pc[w] # "idle",
         where # "idle", UNCHANGED <<answer, takes, said>>
  PROVE  Same
BY DEF Inv, TypeOK, Goto, Same, Senders

LEMMA Returned ==
  ASSUME Inv, NEW c \in Calls, NEW a, Goto(c, "done"), pc[c] \notin {"idle", "done"},
         answer' = [answer EXCEPT ![c] = a], UNCHANGED <<takes, said>>
  PROVE  Remote!End(c, a)
<1>1. answer[c] = None
  BY DEF Inv, AnswerAtEnd
<1>2. {b \in Calls : pc[b] # "idle"}' = {b \in Calls : pc[b] # "idle"}
  BY DEF Inv, TypeOK, Goto, Senders
<1> QED
  BY <1>1, <1>2 DEF Remote!End

LEMMA SendingStutters == ASSUME Inv, NEW w \in Senders, Sending(w) PROVE Same
<1>1. ASSUME SendHeader(w) PROVE Same
  BY <1>1, StillAsked DEF SendHeader, WriteOk, history
<1>2. ASSUME SendPayload(w) PROVE Same
  BY <1>2, StillAsked DEF SendPayload, WriteOk, history
<1>3. ASSUME SendFails(w) PROVE Same
  BY <1>3, StillAsked DEF SendFails, history
<1> QED
  BY <1>1, <1>2, <1>3 DEF Sending

LEMMA CallImplements ==
  ASSUME Inv, NEW c \in Calls, Register(c) \/ Caller(c)
  PROVE  Same \/ Remote!Ask(c) \/ Remote!Answer(c) \/ Remote!Fail(c)
<1>1. c \in Senders
  BY DEF Senders
<1>2. ASSUME Register(c) PROVE Remote!Ask(c)
  <2>1. {b \in Calls : pc[b] # "idle"}' = {b \in Calls : pc[b] # "idle"} \cup {c}
    BY <1>1, <1>2 DEF Register, Goto, Inv, TypeOK, Senders
  <2> QED
    BY <1>2, <2>1 DEF Register, Remote!Ask, history
<1>3. ASSUME Sending(c) PROVE Same
  BY <1>1, <1>3, SendingStutters
<1>4. ASSUME TakeReply(c) PROVE Remote!Answer(c)
  <2>1. promise[c] \in said[c]
    BY <1>4 DEF TakeReply, Inv, NamesTaken
  <2>2. Remote!End(c, promise[c])
    BY <1>4, Returned DEF TakeReply, history
  <2> QED
    BY <2>1, <2>2 DEF Remote!Answer
<1>5. ASSUME Expire(c) PROVE Same
  BY <1>1, <1>5, StillAsked DEF Expire, history
<1>6. ASSUME GiveUp(c) PROVE Remote!Fail(c)
  BY <1>6, Returned DEF GiveUp, Remote!Fail, history
<1> QED
  BY <1>2, <1>3, <1>4, <1>5, <1>6 DEF Caller

LEMMA ReadImplements ==
  ASSUME Inv, SidecarRead
  PROVE  Same \/ \E c \in Calls : Remote!Take(c)
<1> DEFINE w == wire[1].of
<1>1. /\ wire[1].part = "header" /\ 1 \in 1 .. Len(wire)
      /\ UNCHANGED <<pc, answer, said>>
      /\ takes' = [c \in Calls |-> IF c = w THEN takes[c] + 1 ELSE takes[c]]
      /\ takes \in [Calls -> Nat]
  BY LenProperties DEF SidecarRead, WholeFrame, Inv, TypeOK
<1>2. pc[w] # "idle" /\ (w \in Calls => takes[w] = 0)
  BY <1>1 DEF Inv, Wired, NotSent
<1> HIDE DEF w
<1>4. CASE w \in Calls
  <2>1. takes' = [takes EXCEPT ![w] = 1]
    <3>1. takes[w] + 1 = 1
      BY <1>2, <1>4
    <3> QED
      BY <1>1, <1>4, <3>1
  <2>2. UNCHANGED {c \in Calls : pc[c] # "idle"}
    BY <1>1
  <2>3. w \in {c \in Calls : pc[c] # "idle"}
    BY <1>2, <1>4
  <2>4. Remote!Take(w)
    BY <1>1, <1>2, <1>4, <2>1, <2>2, <2>3 DEF Remote!Take
  <2> QED
    BY <1>4, <2>4
<1>5. CASE w \notin Calls
  <2>1. takes' = takes
    BY <1>1, <1>5
  <2> QED
    BY <1>1, <2>1 DEF Same
<1> QED
  BY <1>4, <1>5

LEMMA SendImplements ==
  ASSUME Inv, NEW m \in Message, SidecarSend(m)
  PROVE  Same \/ \E c \in Calls : \E n \in Named : Remote!Say(c, n)
<1>1. /\ UNCHANGED <<pc, answer, takes>>
      /\ said' = [c \in Calls |-> IF c = m.cid THEN said[c] \cup {m} ELSE said[c]]
      /\ m.kind \in {"reply", "status"} => m.cid \in serving
      /\ said \in [Calls -> SUBSET Named]
  BY DEF SidecarSend, Inv, TypeOK
<1>2. CASE m.cid \in Calls
  <2>1. m \in Named /\ takes[m.cid] = 1
    BY <1>1, <1>2, IpcAssumption DEF Message, Named, Inv, NamesTaken
  <2>2. said' = [said EXCEPT ![m.cid] = @ \cup {m}]
    BY <1>1, <1>2
  <2>3. Remote!Say(m.cid, m)
    BY <1>1, <2>1, <2>2 DEF Remote!Say
  <2> QED
    BY <1>2, <2>1, <2>3
<1>3. CASE m.cid \notin Calls
  <2>1. said' = said
    BY <1>1, <1>3
  <2> QED
    BY <1>1, <2>1 DEF Same
<1> QED
  BY <1>2, <1>3

LEMMA StepsImplement == Inv /\ [Next]_vars => Remote!Next \/ Same
<1> SUFFICES ASSUME Inv, [Next]_vars PROVE Remote!Next \/ Same
  OBVIOUS
<1>1. ASSUME NEW c \in Calls, Register(c) \/ Caller(c) PROVE Remote!Next \/ Same
  BY <1>1, CallImplements DEF Remote!Next
<1>2. ASSUME NEW a \in Aborts, AbortCall(a) PROVE Same
  BY <1>2, IpcAssumption DEF AbortCall, Goto, Inv, TypeOK, Senders, Same, history
<1>3. ASSUME NEW a \in Aborts, Sending(a) PROVE Same
  BY <1>3, SendingStutters DEF Senders
<1>4. ASSUME Receiver PROVE Same
  BY <1>4 DEF Receiver, Receive, ReceiveEnd, Same, history
<1>5. ASSUME Sidecar PROVE Remote!Next \/ Same
  <2>1. ASSUME SidecarRead PROVE Remote!Next \/ Same
    BY <2>1, ReadImplements DEF Remote!Next
  <2>2. ASSUME SidecarMisread PROVE Same
    BY <2>2 DEF SidecarMisread, Same, history
  <2>3. ASSUME NEW m \in Message, SidecarSend(m) PROVE Remote!Next \/ Same
    BY <2>3, SendImplements DEF Remote!Next
  <2>4. ASSUME NEW s \in {"up", "hung", "gone"}, SidecarChange(s) PROVE Same
    BY <2>4 DEF SidecarChange, Same, history
  <2> QED
    BY <1>5, <2>1, <2>2, <2>3, <2>4 DEF Sidecar
<1>6. ASSUME UNCHANGED vars PROVE Same
  BY <1>6 DEF vars, Same
<1> QED
  BY <1>1, <1>2, <1>3, <1>4, <1>5, <1>6 DEF Next, Rest

\* Calls are at-most-once remote calls, whatever the sidecar, the socket and
\* the other callers do: no call is read twice by the sidecar, and what a call
\* returns was sent for that call.
THEOREM IpcImplementsRemoteCalls == Spec => ImplementsRemoteCalls
<1>1. Init => Remote!Init
  BY DEF Init, Remote!Init, Senders
<1>2. Inv /\ [Next]_vars => [Remote!Next]_<<{c \in Calls : pc[c] # "idle"}, takes, said, answer>>
  BY StepsImplement DEF Same
<1> QED
  BY <1>1, <1>2, AlwaysInv, PTL
     DEF Spec, ImplementsRemoteCalls, Remote!Spec, Remote!rvars

=============================================================================
