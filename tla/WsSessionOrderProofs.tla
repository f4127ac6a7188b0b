-------------------------- MODULE WsSessionOrderProofs -------------------------
(* The theorems about the order of a session's answers and about the mutex  *)
(* of its sink, and their proofs.                                           *)
EXTENDS WsSessionProofs

-------------------------------------------------------------------------------
(* The mutex of the sink.                                                   *)

RecvQueued   == rpc = "sending"
StreamQueued == streaming_task \in {"sending", "reporting"}

(* The inductive invariant: the queue spelled out, both orders of it.       *)
QueueInv ==
    /\ RecvQueued /\ StreamQueued =>
         ws_sender = <<"R", "S">> \/ ws_sender = <<"S", "R">>
    /\ RecvQueued /\ ~StreamQueued => ws_sender = <<"R">>
    /\ ~RecvQueued /\ StreamQueued => ws_sender = <<"S">>
    /\ ~RecvQueued /\ ~StreamQueued => ws_sender = <<>>

(* A task behind another.                                                   *)
LEMMA AppendPair ==
    ASSUME NEW a, NEW b PROVE Append(<<a>>, b) = <<a, b>>
<1> DEFINE s == Append(<<a>>, b)
           t == <<a, b>>
<1>1. /\ <<a>> \in Seq({a, b}) /\ Len(<<a>>) = 1 /\ <<a>>[1] = a
      /\ t \in Seq({a, b}) /\ Len(t) = 2 /\ t[1] = a /\ t[2] = b
  OBVIOUS
<1>2. s \in Seq({a, b}) /\ Len(s) = 2 /\ s[1] = a /\ s[2] = b
  BY <1>1, AppendProperties
<1> HIDE DEF s, t
<1>3. \A i \in 1..Len(s) : s[i] = t[i]
  BY <1>1, <1>2
<1>4. s = t
  BY <1>1, <1>2, <1>3, SeqEqual
<1> QED
  BY <1>4 DEF s, t

(* What waiting and dropping make of the queues there are.                  *)
LEMMA ShortQueues ==
    /\ Append(<<>>, "R") = <<"R">> /\ Append(<<>>, "S") = <<"S">>
    /\ Append(<<"S">>, "R") = <<"S", "R">> /\ Append(<<"R">>, "S") = <<"R", "S">>
    /\ Tail(<<"R">>) = <<>> /\ Tail(<<"S">>) = <<>>
    /\ Tail(<<"R", "S">>) = <<"S">> /\ Tail(<<"S", "R">>) = <<"R">>
    /\ Head(<<"R">>) = "R" /\ Head(<<"S">>) = "S"
    /\ Head(<<"R", "S">>) = "R" /\ Head(<<"S", "R">>) = "S"
<1>1. Append(<<>>, "R") = <<"R">> /\ Append(<<>>, "S") = <<"S">>
  OBVIOUS
<1>2. Append(<<"S">>, "R") = <<"S", "R">>
  BY AppendPair
<1>3. Append(<<"R">>, "S") = <<"R", "S">>
  BY AppendPair
<1>4. Tail(<<"R">>) = <<>> /\ Tail(<<"S">>) = <<>>
  OBVIOUS
<1>5. Tail(<<"R", "S">>) = <<"S">>
  OBVIOUS
<1>6. Tail(<<"S", "R">>) = <<"R">>
  OBVIOUS
<1>7. /\ Head(<<"R">>) = "R" /\ Head(<<"S">>) = "S"
      /\ Head(<<"R", "S">>) = "R" /\ Head(<<"S", "R">>) = "S"
  OBVIOUS
<1> QED
  BY <1>1, <1>2, <1>3, <1>4, <1>5, <1>6, <1>7

(* Only a task that starts or ends a send changes the queue.                *)
LEMMA QueueStep == QueueInv /\ [Next]_vars => QueueInv'
<1> SUFFICES ASSUME QueueInv, [Next]_vars PROVE QueueInv'
  OBVIOUS
<1> USE DEF RecvQueued, StreamQueued, linkVars, wireVars, recvVars, keyVars, streamVars, stageVars
<1>1. ASSUME UNCHANGED ws_sender,
             RecvQueued' <=> RecvQueued, StreamQueued' <=> StreamQueued
      PROVE  QueueInv'
  BY <1>1 DEF QueueInv
<1>2. CASE RecvNext /\ ~RecvLock /\ ~RecvSend
  <2>1. UNCHANGED ws_sender /\ (RecvQueued' <=> RecvQueued)
    BY <1>2 DEF RecvNext, HandshakeDone, HandshakeFails, OwnerUnreadable, AuthAccepted,
                AuthRejected, AuthPanics, HandleInit, InitReady, InitPanics, HandleTest,
                HandleInvalid, HandleIgnored, HandleUsage, RecvEnd, Take
  <2>2. streaming_task' = streaming_task
        \/ (streaming_task = "none" /\ streaming_task' = "start")
    BY <1>2 DEF RecvNext, HandshakeDone, HandshakeFails, OwnerUnreadable, AuthAccepted,
                AuthRejected, AuthPanics, HandleInit, InitReady, InitPanics, HandleTest,
                HandleInvalid, HandleIgnored, HandleUsage, RecvEnd
  <2> QED
    BY <1>1, <2>1, <2>2
<1>3. CASE RecvLock
  BY <1>3, ShortQueues DEF RecvLock, Enqueue, QueueInv
<1>4. CASE RecvSend
  BY <1>4, ShortQueues DEF RecvSend, Holds, Unlock, QueueInv
<1>5. CASE StreamStart \/ StreamSnapshot \/ StreamPanics
  BY <1>1, <1>5 DEF StreamStart, StreamSnapshot, StreamPanics
<1>6. CASE StreamLock
  BY <1>6, ShortQueues DEF StreamLock, Enqueue, QueueInv
<1>7. CASE StreamSend
  BY <1>7, ShortQueues DEF StreamSend, Holds, Unlock, NextSnapshot, AfterFailedSend,
                           QueueInv
<1>8. CASE StreamReport
  BY <1>8, ShortQueues DEF StreamReport, Holds, Unlock, QueueInv
<1>9. CASE WatchNext \/ NetNext \/ UNCHANGED vars
  BY <1>1, <1>9 DEF WatchNext, WatchStarts, WatchEnds, Signal, NetNext, ClientRead,
                    ClientLeaves, ClientVanishes, LinkTimesOut, vars
<1> QED
  BY <1>2, <1>3, <1>4, <1>5, <1>6, <1>7, <1>8, <1>9 DEF Next, RecvNext, StreamNext

(* The mutex of the sink is queued for exactly by the tasks that send, once *)
(* each, however many frames and snapshots there are.                       *)
THEOREM SenderQueueIsRight == Spec => []SenderQueueMatchesTasks
<1>1. Init => QueueInv
  BY DEF Init, QueueInv, RecvQueued, StreamQueued
<1>2. QueueInv => SenderQueueMatchesTasks
  <2> SUFFICES ASSUME QueueInv PROVE SenderQueueMatchesTasks
    OBVIOUS
  <2> USE DEF QueueInv, RecvQueued, StreamQueued, SenderQueueMatchesTasks, Occurrences
  <2>1. CASE ws_sender = <<>>
    BY <2>1
  <2>2. CASE ws_sender = <<"R">>
    BY <2>2
  <2>3. CASE ws_sender = <<"S">>
    BY <2>3
  <2>4. CASE ws_sender = <<"R", "S">>
    BY <2>4
  <2>5. CASE ws_sender = <<"S", "R">>
    BY <2>5
  <2> QED
    BY <2>1, <2>2, <2>3, <2>4, <2>5
<1> QED
  BY <1>1, <1>2, QueueStep, PTL DEF Spec

-------------------------------------------------------------------------------
(* The order of the answers.                                                *)

Owing == rpc \in {"init", "lock", "sending"}

(* a answers a frame of this kind when n answers have been given before.    *)
RightAnswer(a, kind, n) ==
    /\ a \in AnswersTo(kind)
    /\ kind = "Init" => (a = "AuthError" <=> ~Answered("Auth", n))

(* The inductive invariant: what is prepared is right as well as what was   *)
(* sent, and there is a key exactly if an Auth was accepted, which its      *)
(* answer tells, sent or prepared.                                          *)
OrderInv ==
    /\ TypeOK
    /\ rpc = "handshake" => asked = <<>> /\ replies = <<>>
    /\ Len(asked) = Len(replies)
         + (IF Owing \/ (rpc = "panicked" /\ asked # <<>>) THEN 1 ELSE 0)
    /\ \A i \in 1..Len(replies) : RightAnswer(replies[i], asked[i], i - 1)
    /\ Owing => RightAnswer(reply.type, asked[Len(asked)], Len(replies))
    /\ rpc = "init" => reply.type = "Init"
    /\ ~Owing => reply.type = "None"
    /\ diffie_hellman_key # NoKey <=>
         Answered("Auth", Len(replies)) \/ reply.type = "Auth"

(* Another answer leaves those before it where they are.                    *)
LEMMA ReplyAppended ==
    ASSUME replies \in Seq(MsgTypes), NEW a \in MsgTypes,
           replies' = Append(replies, a)
    PROVE  /\ Len(replies') = Len(replies) + 1
           /\ \A i \in 1..Len(replies) : replies'[i] = replies[i]
           /\ replies'[Len(replies) + 1] = a
           /\ \A kind : \A n \in 0..Len(replies) :
                 Answered(kind, n)' <=> Answered(kind, n)
           /\ \A kind :
                 Answered(kind, Len(replies))' <=>
                     Answered(kind, Len(replies)) \/ a = kind
<1>1. /\ Len(replies) \in Nat
      /\ Len(replies') = Len(replies) + 1
      /\ \A i \in 1..Len(replies) : replies'[i] = replies[i]
      /\ replies'[Len(replies) + 1] = a
  BY AppendProperties, LenProperties
<1>2. \A kind : \A n \in 0..Len(replies) : Answered(kind, n)' <=> Answered(kind, n)
  BY <1>1 DEF Answered
<1>3. ASSUME NEW kind
      PROVE  Answered(kind, Len(replies))' <=>
                 Answered(kind, Len(replies)) \/ a = kind
  BY <1>1 DEF Answered
<1> QED
  BY <1>1, <1>2, <1>3

(* A frame taken with the right answer for it.                              *)
LEMMA TakeOrder ==
    ASSUME OrderInv, TypeOK', NEW kind \in FrameKinds, NEW m, NEW pc \in {"lock", "init"},
           Take(kind, m, pc), RightAnswer(m.type, kind, Len(replies)),
           pc = "init" => m.type = "Init",
           diffie_hellman_key' # NoKey <=> diffie_hellman_key # NoKey \/ m.type = "Auth"
    PROVE  OrderInv'
<1>1. /\ asked \in Seq(FrameKinds) /\ Len(asked) \in Nat /\ Len(replies) \in Nat
      /\ Len(asked) = Len(replies)
  BY LenProperties DEF OrderInv, TypeOK, Take, Owing
<1>2. /\ asked' = Append(asked, kind) /\ reply' = m /\ rpc' = pc
      /\ replies' = replies /\ rpc = "idle"
  BY DEF Take
<1>3. /\ Len(asked') = Len(asked) + 1
      /\ \A i \in 1..Len(asked) : asked'[i] = asked[i]
      /\ asked'[Len(asked) + 1] = kind
  BY <1>1, <1>2, AppendProperties
<1>4. Owing' /\ ~Owing /\ reply.type = "None"
  BY <1>2 DEF Owing, OrderInv
<1>5. \A k, n : Answered(k, n)' <=> Answered(k, n)
  BY <1>2 DEF Answered
<1>6. \A i \in 1..Len(replies') : RightAnswer(replies[i], asked[i], i - 1)'
  BY <1>1, <1>2, <1>3, <1>5 DEF OrderInv, RightAnswer, AnswersTo
<1>7. RightAnswer(reply.type, asked[Len(asked)], Len(replies))'
  BY <1>1, <1>2, <1>3, <1>5 DEF RightAnswer, AnswersTo
<1>8. diffie_hellman_key' # NoKey <=>
        Answered("Auth", Len(replies))' \/ reply'.type = "Auth"
  BY <1>2, <1>4, <1>5 DEF OrderInv
<1>9. Len(asked') = Len(replies') + 1
  BY <1>1, <1>2, <1>3
<1> QED
  BY <1>2, <1>4, <1>6, <1>7, <1>8, <1>9 DEF OrderInv

(* Steps that leave frames, answers and the key alone, and owe as much as   *)
(* before.                                                                  *)
LEMMA OrderIdle ==
    ASSUME OrderInv, TypeOK', UNCHANGED <<asked, replies, reply, diffie_hellman_key>>,
           \/ rpc' = rpc
           \/ rpc = "handshake" /\ rpc' \in {"idle", "done", "panicked"}
           \/ rpc = "idle" /\ rpc' = "done"
           \/ rpc = "lock" /\ rpc' = "sending"
    PROVE  OrderInv'
<1>1. /\ \A k, n : Answered(k, n)' <=> Answered(k, n)
      /\ Owing' <=> Owing
  BY DEF Answered, Owing
<1>2. \A i \in 1..Len(replies') : RightAnswer(replies[i], asked[i], i - 1)'
  BY <1>1 DEF OrderInv, RightAnswer, AnswersTo
<1>3. Owing' => RightAnswer(reply.type, asked[Len(asked)], Len(replies))'
  BY <1>1 DEF OrderInv, RightAnswer, AnswersTo
<1>4. diffie_hellman_key' # NoKey <=>
        Answered("Auth", Len(replies))' \/ reply'.type = "Auth"
  BY <1>1 DEF OrderInv
<1>5. Len(asked') = Len(replies')
        + (IF Owing' \/ (rpc' = "panicked" /\ asked' # <<>>) THEN 1 ELSE 0)
  BY <1>1 DEF OrderInv, Owing
<1> QED
  BY <1>1, <1>2, <1>3, <1>4, <1>5 DEF OrderInv

(* Every frame is taken with the right answer, and a send moves it over.    *)
LEMMA OrderStep == OrderInv /\ [Next]_vars => OrderInv'
<1> SUFFICES ASSUME OrderInv, [Next]_vars PROVE OrderInv'
  OBVIOUS
<1> USE DEF linkVars, wireVars, recvVars, keyVars, streamVars, stageVars
<1>1. TypeOK /\ TypeOK'
  BY TypeStep DEF OrderInv
<1>2. /\ Len(asked) \in Nat /\ Len(replies) \in Nat
      /\ replies \in Seq(MsgTypes) /\ asked \in Seq(FrameKinds)
  BY <1>1, LenProperties DEF TypeOK
<1>3. rpc = "idle" => /\ reply.type = "None"
                      /\ diffie_hellman_key # NoKey <=> Answered("Auth", Len(replies))
  BY DEF OrderInv, Owing
<1>4. ASSUME NEW eph \in ClientKeys, AuthAccepted(eph)
      PROVE  OrderInv'
  <2> DEFINE k == [client |-> eph, node |-> accepted + 1]
  <2>1. k \in SessionKey
    <3>1. accepted \in 0..frames /\ frames \in 0..MaxFrames /\ frames < MaxFrames
      BY <1>1, <1>4 DEF AuthAccepted, Take, TypeOK
    <3>2. accepted + 1 \in 1..MaxFrames
      BY <3>1, BoundAssumption
    <3> QED
      BY <3>2 DEF SessionKey
  <2>2. EstablishedKey(k) # NoKey
    BY <2>1, BoundAssumption, KeyAssumption DEF EstablishedKey
  <2> HIDE DEF k
  <2>3. /\ Take("Auth", AuthReply(k), "lock")
        /\ diffie_hellman_key' = EstablishedKey(k)
    BY <1>4 DEF AuthAccepted, k
  <2>4. RightAnswer(AuthReply(k).type, "Auth", Len(replies))
    BY DEF RightAnswer, AnswersTo, AuthReply
  <2>5. AuthReply(k).type = "Auth" /\ "Auth" \in FrameKinds
    BY DEF AuthReply, FrameKinds
  <2> QED
    BY <1>1, <2>2, <2>3, <2>4, <2>5, TakeOrder
<1>5. CASE AuthRejected
  <2>1. /\ RightAnswer(Plain("AuthError").type, "Auth", Len(replies))
        /\ Plain("AuthError").type # "Auth" /\ "Auth" \in FrameKinds
    BY DEF RightAnswer, AnswersTo, Plain, FrameKinds
  <2> QED
    BY <1>1, <1>5, <2>1, TakeOrder DEF AuthRejected
<1>6. CASE AuthPanics
  <2>1. /\ rpc = "idle" /\ rpc' = "panicked" /\ reply' = NoMsg /\ replies' = replies
        /\ asked' = Append(asked, "BadKeyAuth")
        /\ diffie_hellman_key' = diffie_hellman_key
    BY <1>6 DEF AuthPanics, Take
  <2>2. /\ Len(asked') = Len(asked) + 1 /\ asked' # <<>>
        /\ \A i \in 1..Len(asked) : asked'[i] = asked[i]
    BY <1>2, <2>1, AppendProperties DEF FrameKinds
  <2>3. Len(asked) = Len(replies) /\ NoMsg.type = "None"
    BY <2>1 DEF OrderInv, Owing, NoMsg, Plain
  <2>4. \A k, n : Answered(k, n)' <=> Answered(k, n)
    BY <2>1 DEF Answered
  <2>5. \A i \in 1..Len(replies') : RightAnswer(replies[i], asked[i], i - 1)'
    BY <1>2, <2>1, <2>2, <2>3, <2>4 DEF OrderInv, RightAnswer, AnswersTo
  <2>6. diffie_hellman_key' # NoKey <=>
          Answered("Auth", Len(replies))' \/ reply'.type = "Auth"
    BY <1>3, <2>1, <2>3, <2>4
  <2>7. ~Owing'
    BY <2>1 DEF Owing
  <2>8. Len(asked') = Len(replies') + 1
    BY <2>1, <2>2, <2>3
  <2> QED
    BY <1>1, <2>1, <2>2, <2>3, <2>5, <2>6, <2>7, <2>8 DEF OrderInv
<1>7. CASE HandleInit
  <2>1. rpc = "idle" /\ diffie_hellman_key' = diffie_hellman_key /\ "Init" \in FrameKinds
    BY <1>7 DEF HandleInit, Take, FrameKinds
  <2>2. CASE diffie_hellman_key = NoKey /\ Take("Init", Plain("AuthError"), "lock")
    <3>1. /\ RightAnswer(Plain("AuthError").type, "Init", Len(replies))
          /\ Plain("AuthError").type # "Auth"
      BY <1>3, <2>1, <2>2 DEF RightAnswer, AnswersTo, Plain
    <3> QED
      BY <1>1, <2>1, <2>2, <3>1, TakeOrder
  <2>3. CASE /\ diffie_hellman_key # NoKey
             /\ Take("Init", Sealed("Init", diffie_hellman_key, 0), "init")
    <3> DEFINE m == Sealed("Init", diffie_hellman_key, 0)
    <3>1. RightAnswer(m.type, "Init", Len(replies)) /\ m.type = "Init"
      BY <1>3, <2>1, <2>3 DEF RightAnswer, AnswersTo, Sealed
    <3> HIDE DEF m
    <3>2. Take("Init", m, "init")
      BY <2>3 DEF m
    <3> QED
      BY <1>1, <2>1, <2>3, <3>1, <3>2, TakeOrder
  <2> QED
    BY <1>7, <2>2, <2>3 DEF HandleInit
<1>8. CASE HandleTest
  <2>1. /\ RightAnswer(Plain("Test").type, "Test", Len(replies))
        /\ Plain("Test").type # "Auth" /\ "Test" \in FrameKinds
    BY DEF RightAnswer, AnswersTo, Plain, FrameKinds
  <2> QED
    BY <1>1, <1>8, <2>1, TakeOrder DEF HandleTest
<1>9. CASE HandleInvalid
  <2>1. /\ RightAnswer(Plain("InvalidRequestError").type, "Invalid", Len(replies))
        /\ Plain("InvalidRequestError").type # "Auth" /\ "Invalid" \in FrameKinds
    BY DEF RightAnswer, AnswersTo, Plain, FrameKinds
  <2> QED
    BY <1>1, <1>9, <2>1, TakeOrder DEF HandleInvalid
<1>10. ASSUME rpc = "init", rpc' \in {"lock", "panicked"},
              reply'.type \in IF rpc' = "lock" THEN {"Init", "InitError"} ELSE {"None"},
              UNCHANGED <<asked, replies, diffie_hellman_key>>
       PROVE  OrderInv'
  <2>1. /\ reply.type = "Init" /\ Len(asked) = Len(replies) + 1
        /\ RightAnswer("Init", asked[Len(asked)], Len(replies))
    BY <1>10 DEF OrderInv, Owing
  <2>2. asked[Len(asked)] \in FrameKinds
    BY <1>2, <2>1, ElementOfSeq
  <2>3. asked[Len(asked)] = "Init"
    BY <2>1, <2>2 DEF RightAnswer, AnswersTo, FrameKinds
  <2>4. Answered("Auth", Len(replies))
    BY <2>1, <2>3 DEF RightAnswer
  <2>5. \A k, n : Answered(k, n)' <=> Answered(k, n)
    BY <1>10 DEF Answered
  <2>6. \A i \in 1..Len(replies') : RightAnswer(replies[i], asked[i], i - 1)'
    BY <1>10, <2>5 DEF OrderInv, RightAnswer, AnswersTo
  <2>7. Owing' => RightAnswer(reply.type, asked[Len(asked)], Len(replies))'
    BY <1>10, <2>3, <2>4, <2>5 DEF Owing, RightAnswer, AnswersTo
  <2>8. diffie_hellman_key' # NoKey <=>
          Answered("Auth", Len(replies))' \/ reply'.type = "Auth"
    BY <1>10, <2>1, <2>4, <2>5 DEF OrderInv
  <2>9. asked' # <<>> /\ Len(asked') = Len(replies') + 1
    BY <1>2, <1>10, <2>1
  <2> QED
    BY <1>1, <1>10, <2>6, <2>7, <2>8, <2>9 DEF OrderInv, Owing
<1>11. CASE InitReady
  <2>1. reply.type = "Init"
    BY <1>11 DEF InitReady, OrderInv
  <2>2. reply'.type \in {"Init", "InitError"}
    BY <1>11, <2>1 DEF InitReady, Plain
  <2> QED
    BY <1>10, <1>11, <2>2 DEF InitReady
<1>12. CASE InitPanics
  <2>1. reply'.type = "None"
    BY <1>12 DEF InitPanics, NoMsg, Plain
  <2> QED
    BY <1>10, <1>12, <2>1 DEF InitPanics
<1>13. CASE RecvSend
  <2>1. /\ rpc = "sending" /\ rpc' = "idle" /\ reply' = NoMsg
        /\ replies' = Append(replies, reply.type)
        /\ asked' = asked /\ diffie_hellman_key' = diffie_hellman_key
    BY <1>13 DEF RecvSend
  <2>2. reply.type \in MsgTypes /\ NoMsg.type = "None"
    BY <1>1 DEF TypeOK, Message, NoMsg, Plain
  <2>3. /\ Len(asked) = Len(replies) + 1
        /\ RightAnswer(reply.type, asked[Len(asked)], Len(replies))
    BY <2>1 DEF OrderInv, Owing
  <2>4. /\ Len(replies') = Len(replies) + 1
        /\ \A i \in 1..Len(replies) : replies'[i] = replies[i]
        /\ replies'[Len(replies) + 1] = reply.type
        /\ \A kind : \A n \in 0..Len(replies) :
              Answered(kind, n)' <=> Answered(kind, n)
        /\ \A kind :
              Answered(kind, Len(replies))' <=>
                  Answered(kind, Len(replies)) \/ reply.type = kind
    BY <1>2, <2>1, <2>2, ReplyAppended
  <2>5. ASSUME NEW i \in 1..Len(replies')
        PROVE  RightAnswer(replies[i], asked[i], i - 1)'
    <3>1. i - 1 \in 0..Len(replies)
      BY <1>2, <2>4
    <3>2. Answered("Auth", i - 1)' <=> Answered("Auth", i - 1)
      BY <2>4, <3>1
    <3>3. RightAnswer(replies'[i], asked[i], i - 1)
      <4>1. CASE i <= Len(replies)
        BY <1>2, <2>4, <4>1 DEF OrderInv
      <4>2. CASE i = Len(replies) + 1
        BY <1>2, <2>3, <2>4, <4>2
      <4> QED
        BY <1>2, <2>4, <4>1, <4>2
    <3> QED
      BY <2>1, <3>2, <3>3 DEF RightAnswer, AnswersTo
  <2>6. diffie_hellman_key' # NoKey <=>
          Answered("Auth", Len(replies))' \/ reply'.type = "Auth"
    BY <2>1, <2>2, <2>4 DEF OrderInv
  <2>7. ~Owing' /\ Len(asked') = Len(replies')
    BY <2>1, <2>3, <2>4 DEF Owing
  <2> QED
    BY <1>1, <2>1, <2>2, <2>5, <2>6, <2>7 DEF OrderInv
<1>14. CASE HandshakeDone \/ HandshakeFails \/ OwnerUnreadable \/ HandleIgnored
            \/ HandleUsage \/ RecvLock \/ RecvEnd
  BY <1>1, <1>14, OrderIdle DEF HandshakeDone, HandshakeFails, OwnerUnreadable,
       HandleIgnored, HandleUsage, RecvLock, RecvEnd
<1>15. CASE StreamNext \/ WatchNext \/ NetNext \/ UNCHANGED vars
  BY <1>1, <1>15, OrderIdle DEF StreamNext, StreamStart, StreamSnapshot, StreamPanics,
       StreamLock, StreamSend, StreamReport, WatchNext, WatchStarts, WatchEnds, Signal,
       NetNext, ClientRead, ClientLeaves, ClientVanishes, LinkTimesOut, vars
<1> QED
  BY <1>4, <1>5, <1>6, <1>7, <1>8, <1>9, <1>11, <1>12, <1>13, <1>14, <1>15
  DEF Next, RecvNext

(* However many frames there are and whatever the streamer sends between:   *)
(* answers come one for one, in order and of the right kind.                *)
THEOREM AnswersInOrder == Spec => []RepliesInOrder
<1>1. Init => OrderInv
  <2> SUFFICES ASSUME Init PROVE OrderInv
    OBVIOUS
  <2>1. TypeOK
    BY TypeInit
  <2>2. asked = <<>> /\ replies = <<>> /\ rpc = "handshake" /\ diffie_hellman_key = NoKey
    BY DEF Init
  <2>3. reply.type = "None" /\ ~Owing
    BY DEF Init, NoMsg, Plain, Owing
  <2>4. ~Answered("Auth", Len(replies))
    BY <2>2 DEF Answered
  <2> QED
    BY <2>1, <2>2, <2>3, <2>4 DEF OrderInv
<1>2. OrderInv => RepliesInOrder
  <2> SUFFICES ASSUME OrderInv PROVE RepliesInOrder
    OBVIOUS
  <2>1. Len(asked) \in Nat /\ Len(replies) \in Nat
    BY LenProperties DEF OrderInv, TypeOK
  <2>2. \A i \in 1..Len(replies) :
           /\ replies[i] \in AnswersTo(asked[i])
           /\ asked[i] = "Init" =>
                (replies[i] = "AuthError" <=> ~Answered("Auth", i - 1))
    BY DEF OrderInv, RightAnswer
  <2> QED
    BY <2>1, <2>2 DEF OrderInv, Owing, RepliesInOrder
<1> QED
  BY <1>1, <1>2, OrderStep, PTL DEF Spec
================================================================================
