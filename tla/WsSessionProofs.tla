---------------------------- MODULE WsSessionProofs ----------------------------
(* The theorems about WsSession and their proofs.                           *)
EXTENDS WsSession, SequenceTheorems, TLAPS

-------------------------------------------------------------------------------
(* Types.                                                                   *)

(* The message constructors make messages.                                  *)
LEMMA MessageTypes ==
    /\ \A t \in MsgTypes : Plain(t) \in Message
    /\ \A t \in MsgTypes, k \in SessionKey \cup {NoKey}, n \in 0..MaxSignals :
          Sealed(t, k, n) \in Message
    /\ \A k \in SessionKey : AuthReply(k) \in Message
    /\ NoMsg \in Message
BY BoundAssumption DEF Plain, Sealed, AuthReply, NoMsg, Message, MsgTypes, DataTypes,
                       ErrorTypes

(* A frame taken for an answer leaves the receive loop's variables typed.   *)
LEMMA TakeTypes ==
    ASSUME TypeOK, NEW kind \in FrameKinds, NEW m \in Message,
           NEW pc \in RecvStates, Take(kind, m, pc)
    PROVE  /\ rpc' \in RecvStates /\ reply' \in Message
           /\ frames' \in 0..MaxFrames /\ frames' = frames + 1
           /\ asked' \in Seq(FrameKinds) /\ replies' \in Seq(MsgTypes)
           /\ wanted' \in BOOLEAN
BY BoundAssumption DEF TypeOK, Take

(* A send keeps the socket's buffer within its capacity.                    *)
LEMMA PutTypes ==
    ASSUME TypeOK, NEW m \in Message, Put(m)
    PROVE  /\ out' \in 0..OutCap
           /\ sent' \in SUBSET Message
           /\ streamed' \in 0..MaxSignals
           /\ LinkAfterSend \in {"up", "lost", "closed", "down"}
BY BoundAssumption
DEF TypeOK, Put, StreamedAfter, Message, wireVars, LinkAfterSend

(* Waiting for the sink and dropping it keep the queue a queue of tasks.    *)
LEMMA SenderTypes ==
    ASSUME TypeOK
    PROVE  /\ \A task \in {"R", "S"} :
                Enqueue(task) => ws_sender' \in Seq({"R", "S"})
           /\ \A task \in {"R", "S"} :
                Holds(task) /\ Unlock => ws_sender' \in Seq({"R", "S"})
<1>1. ws_sender \in Seq({"R", "S"})
  BY DEF TypeOK
<1>2. \A task \in {"R", "S"} : Append(ws_sender, task) \in Seq({"R", "S"})
  BY <1>1, AppendProperties
<1>3. ws_sender # <<>> => Tail(ws_sender) \in Seq({"R", "S"})
  BY <1>1, HeadTailProperties
<1> QED
  BY <1>2, <1>3 DEF Enqueue, Unlock, Holds

(* The initial state is well typed.                                         *)
LEMMA TypeInit == Init => TypeOK
<1> USE BoundAssumption, MessageTypes
<1> SUFFICES ASSUME Init PROVE TypeOK
  OBVIOUS
<1>1. link \in {"up", "lost", "closed", "down"} /\ out \in 0..OutCap
      /\ sent \in SUBSET Message /\ streamed \in 0..MaxSignals
  BY DEF Init
<1>2. /\ rpc \in RecvStates /\ reply \in Message /\ frames \in 0..MaxFrames
      /\ asked \in Seq(FrameKinds) /\ replies \in Seq(MsgTypes)
  BY EmptySeq DEF Init, RecvStates
<1>5. wanted \in BOOLEAN
  BY DEF Init
<1>3. /\ diffie_hellman_key \in SessionKey \cup {NoKey} /\ accepted \in 0..frames
      /\ ws_sender \in Seq({"R", "S"})
  BY DEF Init
<1>4. /\ streaming_task \in StreamStates /\ skey \in SessionKey \cup {NoKey}
      /\ smsg \in Message
      /\ watcher \in {"none", "connecting", "watching", "ended"}
      /\ zk_stage \in 0..MaxSignals /\ signals \in 0..MaxSignals
  BY DEF Init, StreamStates
<1> QED
  BY <1>1, <1>2, <1>3, <1>4, <1>5 DEF TypeOK

(* Every step keeps the state well typed.                                   *)
LEMMA TypeStep == TypeOK /\ [Next]_vars => TypeOK'
<1> USE BoundAssumption, MessageTypes
<1> SUFFICES ASSUME TypeOK, [Next]_vars PROVE TypeOK'
  OBVIOUS
<1> USE DEF linkVars, wireVars, recvVars, keyVars, streamVars, stageVars, RecvStates,
            StreamStates
<1>1. CASE HandshakeDone
  BY <1>1 DEF HandshakeDone, TypeOK
<1>2. CASE HandshakeFails
  BY <1>2 DEF HandshakeFails, LinkAfterReceiver, TypeOK
<1>3. CASE OwnerUnreadable
  BY <1>3 DEF OwnerUnreadable, LinkAfterReceiver, TypeOK
<1>4. ASSUME NEW eph \in ClientKeys, AuthAccepted(eph)
      PROVE  TypeOK'
  <2> DEFINE k == [client |-> eph, node |-> accepted + 1]
  <2>1. k \in SessionKey
    BY <1>4 DEF AuthAccepted, Take, TypeOK, SessionKey
  <2> HIDE DEF k
  <2>2. Take("Auth", AuthReply(k), "lock")
    BY <1>4 DEF AuthAccepted, k
  <2>3. AuthReply(k) \in Message /\ "Auth" \in FrameKinds
    BY <2>1 DEF FrameKinds
  <2>4. /\ rpc' \in RecvStates /\ reply' \in Message
        /\ frames' \in 0..MaxFrames /\ frames' = frames + 1
        /\ asked' \in Seq(FrameKinds) /\ replies' \in Seq(MsgTypes)
        /\ wanted' \in BOOLEAN
    BY <2>2, <2>3, TakeTypes
  <2>5. diffie_hellman_key' \in SessionKey \cup {NoKey} /\ accepted' \in 0..frames'
    BY <1>4, <2>1, <2>4 DEF AuthAccepted, EstablishedKey, TypeOK, k
  <2> QED
    BY <1>4, <2>4, <2>5 DEF AuthAccepted, TypeOK
<1>5. CASE AuthRejected
  BY <1>5 DEF AuthRejected, Take, TypeOK, FrameKinds, MsgTypes, DataTypes, ErrorTypes
<1>6. CASE AuthPanics
  BY <1>6 DEF AuthPanics, LinkAfterReceiver, Take, TypeOK, FrameKinds, MsgTypes, DataTypes, ErrorTypes
<1>7. CASE HandleInit
  <2>1. Plain("AuthError") \in Message /\ "Init" \in FrameKinds
    BY DEF FrameKinds, MsgTypes, ErrorTypes
  <2>2. Sealed("Init", diffie_hellman_key, 0) \in Message
    BY DEF TypeOK, MsgTypes, DataTypes
  <2>3. PICK m \in Message, pc \in RecvStates : Take("Init", m, pc)
    BY <1>7, <2>1, <2>2 DEF HandleInit
  <2>4. /\ rpc' \in RecvStates /\ reply' \in Message
        /\ frames' \in 0..MaxFrames /\ frames' = frames + 1
        /\ asked' \in Seq(FrameKinds) /\ replies' \in Seq(MsgTypes)
        /\ wanted' \in BOOLEAN
    BY <2>1, <2>3, TakeTypes
  <2> QED
    BY <1>7, <2>4 DEF HandleInit, TypeOK
<1>8. CASE InitReady
  BY <1>8 DEF InitReady, TypeOK, MsgTypes, ErrorTypes
<1>9. CASE InitPanics
  BY <1>9 DEF InitPanics, LinkAfterReceiver, TypeOK
<1>10. CASE HandleTest
  BY <1>10 DEF HandleTest, Take, TypeOK, FrameKinds, MsgTypes, DataTypes, ErrorTypes
<1>11. CASE HandleInvalid
  BY <1>11 DEF HandleInvalid, Take, TypeOK, FrameKinds, MsgTypes, DataTypes, ErrorTypes
<1>12. CASE HandleIgnored
  BY <1>12 DEF HandleIgnored, TypeOK
<1>13. CASE HandleUsage
  BY <1>13 DEF HandleUsage, TypeOK
<1>14. CASE RecvLock
  BY <1>14 DEF RecvLock, Enqueue, TypeOK
<1>15. CASE RecvSend
  <2>1. reply \in Message /\ reply.type \in MsgTypes
    BY DEF TypeOK, Message
  <2>2. /\ out' \in 0..OutCap /\ sent' \in SUBSET Message
        /\ streamed' \in 0..MaxSignals
        /\ link' \in {"up", "lost", "closed", "down"}
    BY <1>15, <2>1, PutTypes DEF RecvSend
  <2>3. ws_sender' \in Seq({"R", "S"})
    BY <1>15, SenderTypes DEF RecvSend
  <2> QED
    BY <1>15, <2>1, <2>2, <2>3 DEF RecvSend, TypeOK
<1>16. CASE RecvEnd
  BY <1>16 DEF RecvEnd, LinkAfterReceiver, TypeOK
<1>17. CASE StreamStart
  <2>1. /\ streaming_task' \in StreamStates /\ skey' \in SessionKey \cup {NoKey}
        /\ smsg' \in Message
    BY <1>17 DEF StreamStart, TypeOK, MsgTypes, ErrorTypes
  <2> QED
    BY <1>17, <2>1 DEF StreamStart, TypeOK
<1>18. CASE StreamSnapshot
  <2>1. smsg' \in Message
    BY <1>18 DEF StreamSnapshot, TypeOK, MsgTypes, DataTypes
  <2> QED
    BY <1>18, <2>1 DEF StreamSnapshot, TypeOK
<1>19. CASE StreamPanics
  BY <1>19 DEF StreamPanics, LinkAfterStreamer, TypeOK
<1>20. CASE StreamLock
  BY <1>20 DEF StreamLock, Enqueue, TypeOK
<1>21. CASE StreamSend
  <2>1. smsg' \in Message /\ streaming_task' \in StreamStates
    BY <1>21 DEF StreamSend, NextSnapshot, AfterFailedSend, TypeOK, MsgTypes,
                  ErrorTypes
  <2>2. /\ out' \in 0..OutCap /\ sent' \in SUBSET Message
        /\ streamed' \in 0..MaxSignals
        /\ link' \in {"up", "lost", "closed", "down"}
    BY <1>21, PutTypes DEF StreamSend, TypeOK
  <2>3. ws_sender' \in Seq({"R", "S"})
    BY <1>21, SenderTypes DEF StreamSend
  <2> QED
    BY <1>21, <2>1, <2>2, <2>3 DEF StreamSend, TypeOK
<1>22. CASE StreamReport
  <2>1. /\ out' \in 0..OutCap /\ sent' \in SUBSET Message
        /\ streamed' \in 0..MaxSignals
        /\ link' \in {"up", "lost", "closed", "down"}
    BY <1>22, PutTypes DEF StreamReport, TypeOK
  <2>2. ws_sender' \in Seq({"R", "S"})
    BY <1>22, SenderTypes DEF StreamReport
  <2> QED
    BY <1>22, <2>1, <2>2 DEF StreamReport, TypeOK
<1>23. CASE WatchStarts
  BY <1>23 DEF WatchStarts, TypeOK
<1>24. CASE WatchEnds
  BY <1>24 DEF WatchEnds, TypeOK
<1>25. CASE Signal
  BY <1>25 DEF Signal, TypeOK
<1>26. CASE ClientRead
  BY <1>26 DEF ClientRead, TypeOK
<1>27. CASE ClientLeaves
  BY <1>27 DEF ClientLeaves, TypeOK
<1>28. CASE ClientVanishes
  BY <1>28 DEF ClientVanishes, TypeOK
<1>29. CASE LinkTimesOut
  BY <1>29 DEF LinkTimesOut, TypeOK
<1>30. CASE UNCHANGED vars
  BY <1>30 DEF vars, TypeOK
<1> QED
  BY <1>1, <1>2, <1>3, <1>4, <1>5, <1>6, <1>7, <1>8, <1>9, <1>10,
     <1>11, <1>12, <1>13, <1>14, <1>15, <1>16, <1>17, <1>18, <1>19, <1>20,
     <1>21, <1>22, <1>23, <1>24, <1>25, <1>26, <1>27, <1>28, <1>29, <1>30
  DEF Next, RecvNext, StreamNext, WatchNext, NetNext

(* Every reachable state is well typed, and no counter passes its bound.    *)
THEOREM TypeCorrect == Spec => []TypeOK
BY TypeInit, TypeStep, PTL DEF Spec

-------------------------------------------------------------------------------
(* The session key.  The inductive invariant: a data message and an Auth    *)
(* answer are right about the key, given where the key and its copy are.    *)

MessageOK(m) ==
    /\ IsData(m) => m.key = diffie_hellman_key /\ m.key # NoKey
    /\ m.type = "Auth" => /\ diffie_hellman_key # NoKey
                          /\ m.key = diffie_hellman_key <=> m.key.node = 1

SessionInv ==
    /\ TypeOK
    /\ KeyAgreed
    /\ \A m \in Messages : MessageOK(m)

(* A plain message says nothing about the key.                              *)
LEMMA PlainMessageOK ==
    \A t \in ErrorTypes \cup {"Test", "None"} : MessageOK(Plain(t))
BY DEF MessageOK, IsData, Plain, ErrorTypes, DataTypes

(* While the key stays, only the messages a step adds have to be looked at. *)
LEMMA SameKeyMessages ==
    ASSUME \A m \in Messages : MessageOK(m),
           diffie_hellman_key' = diffie_hellman_key,
           \A m \in Messages' : m \in Messages \/ MessageOK(m)
    PROVE  \A m \in Messages' : MessageOK(m)'
<1>1. \A m : MessageOK(m) => MessageOK(m)'
  BY DEF MessageOK, IsData
<1> QED
  BY <1>1

(* A send adds at most the message sent.                                    *)
LEMMA PutAdds ==
    ASSUME NEW m, Put(m)
    PROVE  sent' \subseteq sent \cup {m}
BY DEF Put, wireVars

(* The key, its copies and what is sealed with them agree in every step.    *)
LEMMA SessionInvStep == SessionInv /\ [Next]_vars => SessionInv'
<1> SUFFICES ASSUME SessionInv, [Next]_vars PROVE SessionInv'
  OBVIOUS
<1>1. TypeOK'
  BY TypeStep DEF SessionInv
<1> SUFFICES KeyAgreed' /\ \A m \in Messages' : MessageOK(m)'
  BY <1>1 DEF SessionInv
<1> USE DEF SessionInv, linkVars, wireVars, recvVars, keyVars, streamVars, stageVars
<1>2. CASE HandshakeDone
  <2>1. KeyAgreed' /\ diffie_hellman_key' = diffie_hellman_key
    BY <1>2 DEF HandshakeDone, KeyAgreed
  <2>2. \A m \in Messages' : m \in Messages \/ MessageOK(m)
    BY <1>2 DEF HandshakeDone, Messages
  <2> QED
    BY <2>1, <2>2, SameKeyMessages
<1>3. CASE HandshakeFails
  <2>1. KeyAgreed' /\ diffie_hellman_key' = diffie_hellman_key
    BY <1>3 DEF HandshakeFails, KeyAgreed
  <2>2. \A m \in Messages' : m \in Messages \/ MessageOK(m)
    BY <1>3 DEF HandshakeFails, Messages
  <2> QED
    BY <2>1, <2>2, SameKeyMessages
<1>4. CASE OwnerUnreadable
  <2>1. KeyAgreed' /\ diffie_hellman_key' = diffie_hellman_key
    BY <1>4 DEF OwnerUnreadable, KeyAgreed
  <2>2. \A m \in Messages' : m \in Messages \/ MessageOK(m)
    BY <1>4 DEF OwnerUnreadable, Messages
  <2> QED
    BY <2>1, <2>2, SameKeyMessages
<1>5. ASSUME NEW eph \in ClientKeys, AuthAccepted(eph)
      PROVE  KeyAgreed' /\ \A m \in Messages' : MessageOK(m)'
  <2>0. PICK k : k = [client |-> eph, node |-> accepted + 1]
    OBVIOUS
  <2>1. /\ reply' = AuthReply(k)
        /\ diffie_hellman_key' = EstablishedKey(k)
        /\ accepted' = accepted + 1
        /\ UNCHANGED <<sent, streaming_task, skey, smsg>>
    BY <1>5, <2>0 DEF AuthAccepted, Take
  <2>2. accepted \in Nat /\ k.node = accepted + 1 /\ k # NoKey
    <3>1. k \in SessionKey
      BY <1>5, <2>0, BoundAssumption DEF AuthAccepted, Take, TypeOK, SessionKey
    <3> QED
      BY <2>0, <3>1, BoundAssumption, KeyAssumption DEF TypeOK
  <2>3. AuthReply(k).type = "Auth" /\ AuthReply(k).key = k
    BY DEF AuthReply
  <2>4. Messages' = sent \cup {AuthReply(k), smsg}
    BY <2>1 DEF Messages
  <2>5. CASE diffie_hellman_key = NoKey
    <3>1. diffie_hellman_key' = k /\ accepted = 0 /\ skey = NoKey
      BY <2>1, <2>5 DEF EstablishedKey, KeyAgreed
    <3>2. \A m \in Messages : ~IsData(m) /\ m.type # "Auth"
      BY <2>5 DEF MessageOK
    <3>3. KeyAgreed'
      BY <2>1, <2>2, <3>1 DEF KeyAgreed
    <3>4. \A m \in sent \cup {smsg} : MessageOK(m)'
      BY <3>2 DEF MessageOK, Messages, IsData
    <3>5. MessageOK(AuthReply(k))'
      BY <2>2, <2>3, <3>1 DEF MessageOK, IsData, DataTypes
    <3> QED
      BY <2>4, <3>3, <3>4, <3>5
  <2>6. CASE diffie_hellman_key # NoKey
    <3>1. /\ diffie_hellman_key' = diffie_hellman_key
          /\ accepted # 0 /\ diffie_hellman_key.node = 1
      BY <2>1, <2>6 DEF EstablishedKey, KeyAgreed
    <3>2. KeyAgreed'
      BY <2>1, <2>2, <3>1 DEF KeyAgreed
    <3>3. MessageOK(AuthReply(k))
      BY <2>2, <2>3, <2>6, <3>1 DEF MessageOK, IsData, DataTypes
    <3>4. \A m \in Messages' : m \in Messages \/ MessageOK(m)
      BY <2>4, <3>3 DEF Messages
    <3> QED
      BY <3>1, <3>2, <3>4, SameKeyMessages
  <2> QED
    BY <2>5, <2>6
<1>6. CASE AuthRejected
  <2>1. KeyAgreed' /\ diffie_hellman_key' = diffie_hellman_key
    BY <1>6 DEF AuthRejected, KeyAgreed, Take
  <2>2. \A m \in Messages' : m \in Messages \/ MessageOK(m)
    BY <1>6, PlainMessageOK DEF AuthRejected, Messages, Take, ErrorTypes
  <2> QED
    BY <2>1, <2>2, SameKeyMessages
<1>7. CASE AuthPanics
  <2>1. KeyAgreed' /\ diffie_hellman_key' = diffie_hellman_key
    BY <1>7 DEF AuthPanics, KeyAgreed, Take
  <2>2. \A m \in Messages' : m \in Messages \/ MessageOK(m)
    BY <1>7, PlainMessageOK DEF AuthPanics, Messages, Take, NoMsg
  <2> QED
    BY <2>1, <2>2, SameKeyMessages
<1>8. CASE HandleInit
  <2>1. KeyAgreed' /\ diffie_hellman_key' = diffie_hellman_key
    BY <1>8 DEF HandleInit, Take, KeyAgreed
  <2>2. /\ sent' = sent /\ smsg' = smsg
        /\ \/ reply' = Plain("AuthError")
           \/ /\ diffie_hellman_key # NoKey
              /\ reply' = Sealed("Init", diffie_hellman_key, 0)
    BY <1>8 DEF HandleInit, Take
  <2>3. diffie_hellman_key # NoKey => MessageOK(Sealed("Init", diffie_hellman_key, 0))
    BY DEF MessageOK, Sealed, IsData
  <2>4. \A m \in Messages' : m \in Messages \/ MessageOK(m)
    BY <2>2, <2>3, PlainMessageOK DEF Messages, ErrorTypes
  <2> QED
    BY <2>1, <2>4, SameKeyMessages
<1>9. CASE InitReady
  <2>1. KeyAgreed' /\ diffie_hellman_key' = diffie_hellman_key
    BY <1>9 DEF InitReady, KeyAgreed
  <2>2. \A m \in Messages' : m \in Messages \/ MessageOK(m)
    BY <1>9, PlainMessageOK DEF InitReady, Messages, ErrorTypes
  <2> QED
    BY <2>1, <2>2, SameKeyMessages
<1>10. CASE InitPanics
  <2>1. KeyAgreed' /\ diffie_hellman_key' = diffie_hellman_key
    BY <1>10 DEF InitPanics, KeyAgreed
  <2>2. \A m \in Messages' : m \in Messages \/ MessageOK(m)
    BY <1>10, PlainMessageOK DEF InitPanics, Messages, NoMsg
  <2> QED
    BY <2>1, <2>2, SameKeyMessages
<1>11. CASE HandleTest
  <2>1. KeyAgreed' /\ diffie_hellman_key' = diffie_hellman_key
    BY <1>11 DEF HandleTest, KeyAgreed, Take
  <2>2. \A m \in Messages' : m \in Messages \/ MessageOK(m)
    BY <1>11, PlainMessageOK DEF HandleTest, Messages, Take
  <2> QED
    BY <2>1, <2>2, SameKeyMessages
<1>12. CASE HandleInvalid
  <2>1. KeyAgreed' /\ diffie_hellman_key' = diffie_hellman_key
    BY <1>12 DEF HandleInvalid, KeyAgreed, Take
  <2>2. \A m \in Messages' : m \in Messages \/ MessageOK(m)
    BY <1>12, PlainMessageOK DEF HandleInvalid, Messages, Take, ErrorTypes
  <2> QED
    BY <2>1, <2>2, SameKeyMessages
<1>13. CASE HandleIgnored
  <2>1. KeyAgreed' /\ diffie_hellman_key' = diffie_hellman_key
    BY <1>13 DEF HandleIgnored, KeyAgreed
  <2>2. \A m \in Messages' : m \in Messages \/ MessageOK(m)
    BY <1>13 DEF HandleIgnored, Messages
  <2> QED
    BY <2>1, <2>2, SameKeyMessages
<1>14. CASE HandleUsage
  <2>1. KeyAgreed' /\ diffie_hellman_key' = diffie_hellman_key
    BY <1>14 DEF HandleUsage, KeyAgreed
  <2>2. \A m \in Messages' : m \in Messages \/ MessageOK(m)
    BY <1>14 DEF HandleUsage, Messages
  <2> QED
    BY <2>1, <2>2, SameKeyMessages
<1>15. CASE RecvLock
  <2>1. KeyAgreed' /\ diffie_hellman_key' = diffie_hellman_key
    BY <1>15 DEF RecvLock, KeyAgreed
  <2>2. \A m \in Messages' : m \in Messages \/ MessageOK(m)
    BY <1>15 DEF RecvLock, Messages
  <2> QED
    BY <2>1, <2>2, SameKeyMessages
<1>16. CASE RecvSend
  <2>1. KeyAgreed' /\ diffie_hellman_key' = diffie_hellman_key
    BY <1>16 DEF RecvSend, KeyAgreed
  <2>2. \A m \in Messages' : m \in Messages \/ MessageOK(m)
    BY <1>16, PutAdds, PlainMessageOK DEF RecvSend, Messages, NoMsg
  <2> QED
    BY <2>1, <2>2, SameKeyMessages
<1>17. CASE RecvEnd
  <2>1. KeyAgreed' /\ diffie_hellman_key' = diffie_hellman_key
    BY <1>17 DEF RecvEnd, KeyAgreed
  <2>2. \A m \in Messages' : m \in Messages \/ MessageOK(m)
    BY <1>17 DEF RecvEnd, Messages
  <2> QED
    BY <2>1, <2>2, SameKeyMessages
<1>18. CASE StreamStart
  <2>1. KeyAgreed' /\ diffie_hellman_key' = diffie_hellman_key
    BY <1>18 DEF StreamStart, KeyAgreed
  <2>2. \A m \in Messages' : m \in Messages \/ MessageOK(m)
    BY <1>18, PlainMessageOK DEF StreamStart, Messages, ErrorTypes
  <2> QED
    BY <2>1, <2>2, SameKeyMessages
<1>19. CASE StreamSnapshot
  <2>1. KeyAgreed' /\ diffie_hellman_key' = diffie_hellman_key
    BY <1>19 DEF StreamSnapshot, KeyAgreed
  <2>2. skey = diffie_hellman_key /\ skey # NoKey
    BY <1>19 DEF StreamSnapshot, KeyAgreed
  <2>3. MessageOK(Sealed("Usage", skey, zk_stage))
    BY <2>2 DEF MessageOK, Sealed, IsData
  <2>4. \A m \in Messages' : m \in Messages \/ MessageOK(m)
    BY <1>19, <2>3 DEF StreamSnapshot, Messages
  <2> QED
    BY <2>1, <2>4, SameKeyMessages
<1>20. CASE StreamPanics
  <2>1. KeyAgreed' /\ diffie_hellman_key' = diffie_hellman_key
    BY <1>20 DEF StreamPanics, KeyAgreed
  <2>2. \A m \in Messages' : m \in Messages \/ MessageOK(m)
    BY <1>20 DEF StreamPanics, Messages
  <2> QED
    BY <2>1, <2>2, SameKeyMessages
<1>21. CASE StreamLock
  <2>1. KeyAgreed' /\ diffie_hellman_key' = diffie_hellman_key
    BY <1>21 DEF StreamLock, KeyAgreed
  <2>2. \A m \in Messages' : m \in Messages \/ MessageOK(m)
    BY <1>21 DEF StreamLock, Messages
  <2> QED
    BY <2>1, <2>2, SameKeyMessages
<1>22. CASE StreamSend
  <2>1. KeyAgreed' /\ diffie_hellman_key' = diffie_hellman_key
    BY <1>22 DEF StreamSend, KeyAgreed, NextSnapshot, AfterFailedSend
  <2>2. \A m \in Messages' : m \in Messages \/ MessageOK(m)
    BY <1>22, PutAdds, PlainMessageOK DEF StreamSend, Messages, ErrorTypes
  <2> QED
    BY <2>1, <2>2, SameKeyMessages
<1>23. CASE StreamReport
  <2>1. KeyAgreed' /\ diffie_hellman_key' = diffie_hellman_key
    BY <1>23 DEF StreamReport, KeyAgreed
  <2>2. \A m \in Messages' : m \in Messages \/ MessageOK(m)
    BY <1>23, PutAdds DEF StreamReport, Messages
  <2> QED
    BY <2>1, <2>2, SameKeyMessages
<1>24. CASE WatchStarts
  <2>1. KeyAgreed' /\ diffie_hellman_key' = diffie_hellman_key
    BY <1>24 DEF WatchStarts, KeyAgreed
  <2>2. \A m \in Messages' : m \in Messages \/ MessageOK(m)
    BY <1>24 DEF WatchStarts, Messages
  <2> QED
    BY <2>1, <2>2, SameKeyMessages
<1>25. CASE WatchEnds
  <2>1. KeyAgreed' /\ diffie_hellman_key' = diffie_hellman_key
    BY <1>25 DEF WatchEnds, KeyAgreed
  <2>2. \A m \in Messages' : m \in Messages \/ MessageOK(m)
    BY <1>25 DEF WatchEnds, Messages
  <2> QED
    BY <2>1, <2>2, SameKeyMessages
<1>26. CASE Signal
  <2>1. KeyAgreed' /\ diffie_hellman_key' = diffie_hellman_key
    BY <1>26 DEF Signal, KeyAgreed
  <2>2. \A m \in Messages' : m \in Messages \/ MessageOK(m)
    BY <1>26 DEF Signal, Messages
  <2> QED
    BY <2>1, <2>2, SameKeyMessages
<1>27. CASE ClientRead
  <2>1. KeyAgreed' /\ diffie_hellman_key' = diffie_hellman_key
    BY <1>27 DEF ClientRead, KeyAgreed
  <2>2. \A m \in Messages' : m \in Messages \/ MessageOK(m)
    BY <1>27 DEF ClientRead, Messages
  <2> QED
    BY <2>1, <2>2, SameKeyMessages
<1>28. CASE ClientLeaves
  <2>1. KeyAgreed' /\ diffie_hellman_key' = diffie_hellman_key
    BY <1>28 DEF ClientLeaves, KeyAgreed
  <2>2. \A m \in Messages' : m \in Messages \/ MessageOK(m)
    BY <1>28 DEF ClientLeaves, Messages
  <2> QED
    BY <2>1, <2>2, SameKeyMessages
<1>29. CASE ClientVanishes
  <2>1. KeyAgreed' /\ diffie_hellman_key' = diffie_hellman_key
    BY <1>29 DEF ClientVanishes, KeyAgreed
  <2>2. \A m \in Messages' : m \in Messages \/ MessageOK(m)
    BY <1>29 DEF ClientVanishes, Messages
  <2> QED
    BY <2>1, <2>2, SameKeyMessages
<1>30. CASE LinkTimesOut
  <2>1. KeyAgreed' /\ diffie_hellman_key' = diffie_hellman_key
    BY <1>30 DEF LinkTimesOut, KeyAgreed
  <2>2. \A m \in Messages' : m \in Messages \/ MessageOK(m)
    BY <1>30 DEF LinkTimesOut, Messages
  <2> QED
    BY <2>1, <2>2, SameKeyMessages
<1>31. CASE UNCHANGED vars
  <2>1. KeyAgreed' /\ diffie_hellman_key' = diffie_hellman_key
    BY <1>31 DEF vars, KeyAgreed
  <2>2. \A m \in Messages' : m \in Messages \/ MessageOK(m)
    BY <1>31 DEF vars, Messages
  <2> QED
    BY <2>1, <2>2, SameKeyMessages
<1> QED
  BY <1>2, <1>3, <1>4, <1>5, <1>6, <1>7, <1>8, <1>9, <1>10, <1>11,
     <1>12, <1>13, <1>14, <1>15, <1>16, <1>17, <1>18, <1>19, <1>20, <1>21,
     <1>22, <1>23, <1>24, <1>25, <1>26, <1>27, <1>28, <1>29, <1>30, <1>31
  DEF Next, RecvNext, StreamNext, WatchNext, NetNext

(* The session key invariant holds in every reachable state.                *)
THEOREM SessionInvariant == Spec => []SessionInv
<1>1. Init => SessionInv
  <2> SUFFICES ASSUME Init PROVE SessionInv
    OBVIOUS
  <2>1. TypeOK
    BY TypeInit
  <2>2. KeyAgreed
    BY DEF Init, KeyAgreed
  <2>3. \A m \in Messages : MessageOK(m)
    BY PlainMessageOK DEF Init, Messages, NoMsg
  <2> QED
    BY <2>1, <2>2, <2>3 DEF SessionInv
<1> QED
  BY <1>1, SessionInvStep, PTL DEF Spec

(* Every data message ever sent or prepared is sealed under the session's   *)
(* one key, for any number of clients' keys, frames and signals.            *)
THEOREM DataSealed == Spec => []DataSealedUnderSessionKey
<1>1. SessionInv => DataSealedUnderSessionKey
  BY DEF SessionInv, DataSealedUnderSessionKey, MessageOK
<1> QED
  BY <1>1, SessionInvariant, PTL

(* Of all Auth answers exactly those with the agent's first key let the     *)
(* client derive the session's key.                                         *)
THEOREM FirstHandshake == Spec => []OnlyFirstHandshakeAgrees
<1>1. SessionInv => OnlyFirstHandshakeAgrees
  BY DEF SessionInv, OnlyFirstHandshakeAgrees, MessageOK
<1> QED
  BY <1>1, SessionInvariant, PTL

-------------------------------------------------------------------------------
(* The session implements the channel.                                      *)

(* What S reports when it ends is an error, never data.                     *)
ReportIsError ==
    streaming_task \in {"report", "reporting"} => ~IsData(smsg)

(* A streamer only comes to report by preparing an error.                   *)
LEMMA ReportStep == ReportIsError /\ [Next]_vars => ReportIsError'
<1> SUFFICES ASSUME ReportIsError, [Next]_vars PROVE ReportIsError'
  OBVIOUS
<1> USE DEF ReportIsError, IsData, DataTypes, linkVars, wireVars, recvVars, keyVars,
            streamVars, stageVars
<1>1. CASE RecvNext
  BY <1>1 DEF RecvNext, HandshakeDone, HandshakeFails, OwnerUnreadable, AuthAccepted,
              AuthRejected, AuthPanics, HandleInit, InitReady, InitPanics, HandleTest,
              HandleInvalid, HandleIgnored, HandleUsage, RecvLock, RecvSend, RecvEnd
<1>2. CASE StreamNext
  BY <1>2 DEF StreamNext, StreamStart, StreamSnapshot, StreamPanics, StreamLock,
              StreamSend, StreamReport, Plain, NextSnapshot, AfterFailedSend
<1>3. CASE WatchNext
  BY <1>3 DEF WatchNext, WatchStarts, WatchEnds, Signal
<1>4. CASE NetNext
  BY <1>4 DEF NetNext, ClientRead, ClientLeaves, ClientVanishes, LinkTimesOut
<1>5. CASE UNCHANGED vars
  BY <1>5 DEF vars
<1> QED
  BY <1>1, <1>2, <1>3, <1>4, <1>5 DEF Next

Open == link \in {"up", "lost"}

(* A step that sends no data and keeps the key closes the channel or leaves *)
(* it alone.                                                                *)
LEMMA QuietStep ==
    ASSUME diffie_hellman_key' = diffie_hellman_key,
           Delivered' = Delivered,
           Open' => Open
    PROVE  [Channel!Next]_(Channel!vars)
<1>1. CASE Open /\ ~Open'
  BY <1>1 DEF Open, Channel!Next, Channel!Close
<1>2. CASE Open <=> Open'
  BY <1>2 DEF Open, Channel!vars
<1> QED
  BY <1>1, <1>2

(* A send of a message the session may send delivers data or is quiet.      *)
LEMMA SendStep ==
    ASSUME TypeOK, NEW m \in Message, MessageOK(m), Put(m),
           link' = LinkAfterSend, diffie_hellman_key' = diffie_hellman_key
    PROVE  [Channel!Next]_(Channel!vars)
<1>1. CASE Open /\ IsData(m)
  <2> DEFINE d == <<m.type, m.stage>>
  <2>1. sent' = sent \cup {m} /\ link' = link
    BY <1>1 DEF Open, Put, LinkAfterSend
  <2>2. m.key = diffie_hellman_key /\ diffie_hellman_key # NoKey
    BY <1>1 DEF MessageOK
  <2>3. d \in DataTypes \X (0..MaxSignals)
    BY <1>1 DEF Message, IsData
  <2>4. Delivered' = Delivered \cup {[key |-> diffie_hellman_key, data |-> d]}
    BY <1>1, <2>1, <2>2 DEF Delivered, IsData
  <2>5. Channel!Deliver(d)
    BY <1>1, <2>1, <2>2, <2>4 DEF Open, Channel!Deliver
  <2> QED
    BY <2>3, <2>5 DEF Channel!Next
<1>2. CASE ~Open \/ ~IsData(m)
  <2>1. Delivered' = Delivered
    BY <1>2 DEF Put, wireVars, Delivered, IsData, Open
  <2>2. Open' => Open
    BY DEF Open, LinkAfterSend
  <2> QED
    BY <2>1, <2>2, QuietStep
<1> QED
  BY <1>1, <1>2

(* Every step of the session is a step of the channel or leaves it alone.   *)
LEMMA ChannelStep ==
    SessionInv /\ ReportIsError /\ [Next]_vars => [Channel!Next]_(Channel!vars)
<1> SUFFICES ASSUME SessionInv, ReportIsError, [Next]_vars
             PROVE  [Channel!Next]_(Channel!vars)
  OBVIOUS
<1> USE DEF SessionInv, linkVars, wireVars, recvVars, keyVars, streamVars, stageVars
<1>1. ASSUME NEW eph \in ClientKeys, AuthAccepted(eph)
      PROVE  [Channel!Next]_(Channel!vars)
  <2>1. PICK k : k = [client |-> eph, node |-> accepted + 1]
    OBVIOUS
  <2>2. k \in SessionKey
    BY <1>1, <2>1, BoundAssumption DEF AuthAccepted, Take, TypeOK, SessionKey
  <2>3. UNCHANGED <<Delivered, Open>>
    BY <1>1 DEF AuthAccepted, Delivered, Open
  <2>4. diffie_hellman_key' = EstablishedKey(k)
    BY <1>1, <2>1 DEF AuthAccepted
  <2>5. CASE diffie_hellman_key = NoKey
    <3>1. Channel!Establish(k)
      BY <2>3, <2>4, <2>5 DEF EstablishedKey, Channel!Establish, Open
    <3> QED
      BY <2>2, <3>1 DEF Channel!Next
  <2>6. CASE diffie_hellman_key # NoKey
    BY <2>3, <2>4, <2>6, QuietStep DEF EstablishedKey
  <2> QED
    BY <2>5, <2>6
<1>2. CASE RecvSend
  <2>1. reply \in Message /\ MessageOK(reply)
    BY DEF TypeOK, Messages
  <2> QED
    BY <1>2, <2>1, SendStep DEF RecvSend
<1>3. CASE StreamSend
  <2>1. smsg \in Message /\ MessageOK(smsg)
    BY DEF TypeOK, Messages
  <2> QED
    BY <1>3, <2>1, SendStep DEF StreamSend
<1>4. CASE StreamReport
  <2>1. Delivered' = Delivered
    BY <1>4 DEF StreamReport, ReportIsError, Put, Delivered, IsData
  <2>2. Open' => Open
    BY <1>4 DEF StreamReport, Open, LinkAfterSend
  <2> QED
    BY <1>4, <2>1, <2>2, QuietStep DEF StreamReport
<1>5. ASSUME UNCHANGED <<sent, diffie_hellman_key>>, Open' => Open
      PROVE  [Channel!Next]_(Channel!vars)
  <2>1. Delivered' = Delivered
    BY <1>5 DEF Delivered
  <2> QED
    BY <1>5, <2>1, QuietStep
<1>6. CASE \/ HandshakeDone \/ AuthRejected \/ HandleInit \/ InitReady \/ HandleTest
           \/ HandleInvalid \/ HandleIgnored \/ HandleUsage \/ RecvLock
  BY <1>5, <1>6 DEF HandshakeDone, AuthRejected, HandleInit, InitReady, HandleTest,
                    HandleInvalid, HandleIgnored, HandleUsage, RecvLock, Open
<1>7. CASE HandshakeFails \/ OwnerUnreadable \/ AuthPanics \/ InitPanics \/ RecvEnd
  BY <1>5, <1>7 DEF HandshakeFails, OwnerUnreadable, AuthPanics, InitPanics, RecvEnd,
                    LinkAfterReceiver, Open
<1>8. CASE StreamStart \/ StreamSnapshot \/ StreamPanics \/ StreamLock
  BY <1>5, <1>8 DEF StreamStart, StreamSnapshot, StreamPanics, StreamLock,
                    LinkAfterStreamer, Open
<1>9. CASE WatchNext \/ NetNext \/ UNCHANGED vars
  BY <1>5, <1>9 DEF WatchNext, WatchStarts, WatchEnds, Signal, NetNext, ClientRead,
                    ClientLeaves, ClientVanishes, LinkTimesOut, vars, Open
<1> QED
  BY <1>1, <1>2, <1>3, <1>4, <1>6, <1>7, <1>8, <1>9
  DEF Next, RecvNext, StreamNext

(* A websocket session is a secure channel: one key, agreed once, and       *)
(* nothing on the wire that is not sealed with it.                          *)
THEOREM SessionIsChannel == Spec => ChannelSpec
<1>1. Init => Channel!Init
  BY DEF Init, Channel!Init, Delivered
<1>2. Init => ReportIsError
  BY DEF Init, ReportIsError
<1>3. Spec => []ReportIsError
  BY <1>2, ReportStep, PTL DEF Spec
<1> QED
  BY <1>1, <1>3, SessionInvariant, ChannelStep, PTL DEF Spec, ChannelSpec, Channel!Spec

(* One key, from the first accepted Auth; the streamer's copy is that key.  *)
THEOREM KeyIsAgreed == Spec => []KeyAgreed
<1>1. SessionInv => KeyAgreed
  BY DEF SessionInv
<1> QED
  BY <1>1, SessionInvariant, PTL

-------------------------------------------------------------------------------
(* The order of the stages.                                                 *)

IsUsage(m) == m.type = "Usage"

(* The inductive invariant: what was streamed is no newer than the snapshot *)
(* about to be streamed, that no newer than the stage stored last, and that *)
(* no newer than the last signal; and only a streaming S has a snapshot.    *)
StageInv ==
    /\ TypeOK
    /\ streamed <= zk_stage /\ zk_stage <= signals
    /\ streaming_task \in {"lock", "sending"} =>
         streamed <= smsg.stage /\ smsg.stage <= zk_stage
    /\ streaming_task \in {"report", "reporting"} => ~IsUsage(smsg)
    /\ ~IsUsage(reply)

(* Steps that send nothing and leave the streamer and the stage alone.      *)
LEMMA StageIdle ==
    ASSUME StageInv, TypeOK', ~IsUsage(reply'),
           UNCHANGED <<streamed, smsg, zk_stage, signals>>,
           streaming_task' \in {"lock", "sending", "report", "reporting"} =>
               streaming_task' = streaming_task
    PROVE  StageInv'
BY DEF StageInv, IsUsage

(* A send that is no snapshot is not noticed among the stages.              *)
LEMMA StagePut ==
    ASSUME NEW m, Put(m), ~IsUsage(m)
    PROVE  streamed' = streamed
BY DEF Put, StreamedAfter, IsUsage, wireVars

(* What R puts into reply is never a snapshot.                              *)
LEMMA RepliesAreNoSnapshots ==
    ASSUME StageInv, RecvNext
    PROVE  ~IsUsage(reply')
<1> USE DEF StageInv, IsUsage, linkVars, wireVars, recvVars, Plain, Sealed, AuthReply, NoMsg
<1>1. CASE \E eph \in ClientKeys : AuthAccepted(eph)
  BY <1>1 DEF AuthAccepted, Take
<1>2. CASE AuthRejected \/ AuthPanics \/ HandleInit \/ HandleTest \/ HandleInvalid
  BY <1>2 DEF AuthRejected, AuthPanics, HandleInit, HandleTest, HandleInvalid, Take
<1>3. CASE InitReady \/ InitPanics \/ RecvSend
  BY <1>3 DEF InitReady, InitPanics, RecvSend
<1>4. CASE HandshakeDone \/ HandshakeFails \/ OwnerUnreadable \/ HandleIgnored
           \/ HandleUsage \/ RecvLock \/ RecvEnd
  BY <1>4 DEF HandshakeDone, HandshakeFails, OwnerUnreadable, HandleIgnored, HandleUsage,
              RecvLock, RecvEnd
<1> QED
  BY <1>1, <1>2, <1>3, <1>4 DEF RecvNext

(* No step sends a stage out of order or stores one that is not the newest. *)
LEMMA StageStep == StageInv /\ [Next]_vars => StageInv'
<1> SUFFICES ASSUME StageInv, [Next]_vars PROVE StageInv'
  OBVIOUS
<1>1. TypeOK' /\ zk_stage \in Nat /\ signals \in Nat
      /\ smsg.stage \in Nat /\ streamed \in Nat
  <2>1. TypeOK /\ TypeOK'
    BY TypeStep DEF StageInv
  <2> QED
    BY <2>1, BoundAssumption DEF TypeOK, Message
<1> USE <1>1 DEF linkVars, wireVars, recvVars, keyVars, streamVars, stageVars
<1>2. CASE RecvNext /\ ~RecvSend
  <2>1. UNCHANGED <<streamed, smsg, zk_stage, signals>>
    BY <1>2 DEF RecvNext, HandshakeDone, HandshakeFails, OwnerUnreadable, AuthAccepted,
                AuthRejected, AuthPanics, HandleInit, InitReady, InitPanics, HandleTest,
                HandleInvalid, HandleIgnored, HandleUsage, RecvLock, RecvEnd
  <2>2. streaming_task' \in {streaming_task, "start"}
    BY <1>2 DEF RecvNext, HandshakeDone, HandshakeFails, OwnerUnreadable, AuthAccepted,
                AuthRejected, AuthPanics, HandleInit, InitReady, InitPanics, HandleTest,
                HandleInvalid, HandleIgnored, HandleUsage, RecvLock, RecvEnd
  <2> QED
    BY <1>2, <2>1, <2>2, RepliesAreNoSnapshots, StageIdle
<1>3. CASE RecvSend
  <2>1. ~IsUsage(reply) /\ ~IsUsage(reply')
    BY <1>3, RepliesAreNoSnapshots DEF StageInv, RecvNext
  <2>2. streamed' = streamed
    BY <1>3, <2>1, StagePut DEF RecvSend
  <2>3. UNCHANGED <<streaming_task, smsg, zk_stage, signals>>
    BY <1>3 DEF RecvSend
  <2> QED
    BY <2>1, <2>2, <2>3 DEF StageInv
<1>4. CASE StreamStart
  BY <1>4 DEF StreamStart, StageInv, IsUsage, Plain
<1>5. CASE StreamSnapshot
  BY <1>5 DEF StreamSnapshot, StageInv, Sealed
<1>6. CASE StreamPanics
  BY <1>6, StageIdle DEF StreamPanics, StageInv
<1>7. CASE StreamLock
  BY <1>7 DEF StreamLock, StageInv
<1>8. CASE StreamSend
  <2>1. streamed' \in {streamed, smsg.stage}
    BY <1>8 DEF StreamSend, Put, StreamedAfter
  <2>2. streamed' <= zk_stage
    BY <1>8, <2>1 DEF StreamSend, StageInv
  <2>3. streaming_task' \in {"report", "tick"} /\ (streaming_task' = "report" => ~IsUsage(smsg'))
    BY <1>8 DEF StreamSend, NextSnapshot, AfterFailedSend, IsUsage, Plain
  <2> QED
    BY <1>8, <2>2, <2>3 DEF StreamSend, StageInv
<1>9. CASE StreamReport
  <2>1. streamed' = streamed
    BY <1>9, StagePut DEF StreamReport, StageInv
  <2>2. streaming_task' = "done" /\ UNCHANGED <<reply, zk_stage, signals>>
    BY <1>9 DEF StreamReport
  <2> QED
    BY <2>1, <2>2 DEF StageInv
<1>10. CASE WatchStarts \/ WatchEnds \/ NetNext \/ UNCHANGED vars
  BY <1>10, StageIdle DEF WatchStarts, WatchEnds, NetNext, ClientRead, ClientLeaves,
                          ClientVanishes, LinkTimesOut, vars, StageInv
<1>11. CASE Signal
  <2>1. zk_stage' \in {zk_stage, signals + 1} /\ signals' = signals + 1
    BY <1>11 DEF Signal
  <2>2. UNCHANGED <<streamed, reply, streaming_task, smsg>>
    BY <1>11 DEF Signal
  <2>3. zk_stage <= zk_stage' /\ zk_stage' <= signals' /\ zk_stage' \in Nat
    BY <2>1 DEF StageInv
  <2>4. streamed <= zk_stage' /\ (smsg.stage <= zk_stage => smsg.stage <= zk_stage')
    BY <2>3 DEF StageInv
  <2> QED
    BY <2>2, <2>3, <2>4 DEF StageInv, IsUsage
<1> QED
  BY <1>2, <1>3, <1>4, <1>5, <1>6, <1>7, <1>8, <1>9, <1>10, <1>11
  DEF Next, StreamNext, WatchNext

(* However many signals and snapshots there are and however long S waits    *)
(* for the sink, a client never sees an older stage after a newer one.      *)
THEOREM StagesInOrder == Spec => StageNeverGoesBack
<1>1. Init => StageInv
  <2> SUFFICES ASSUME Init PROVE StageInv
    OBVIOUS
  <2>1. TypeOK /\ ~IsUsage(reply)
    BY TypeInit DEF Init, NoMsg, Plain, IsUsage
  <2> QED
    BY <2>1, BoundAssumption DEF Init, StageInv
<1>2. StageInv /\ [Next]_vars => [streamed <= streamed']_vars
  <2> SUFFICES ASSUME StageInv, Next PROVE streamed <= streamed'
    OBVIOUS
  <2> USE DEF linkVars, wireVars, recvVars, keyVars, streamVars, stageVars
  <2>1. CASE StreamSend
    <3>1. streamed <= smsg.stage /\ streamed \in Nat /\ smsg.stage \in Nat
      BY <2>1, BoundAssumption DEF StreamSend, StageInv, TypeOK, Message
    <3>2. streamed' \in {streamed, smsg.stage}
      BY <2>1 DEF StreamSend, Put, StreamedAfter
    <3> QED
      BY <3>1, <3>2
  <2>2. CASE RecvSend
    BY <2>2, StagePut, BoundAssumption DEF RecvSend, StageInv, TypeOK
  <2>3. CASE StreamReport
    BY <2>3, StagePut, BoundAssumption DEF StreamReport, StageInv, TypeOK
  <2>4. CASE UNCHANGED streamed
    BY <2>4, BoundAssumption DEF StageInv, TypeOK
  <2>5. Next => StreamSend \/ RecvSend \/ StreamReport \/ UNCHANGED streamed
    BY DEF Next, RecvNext, HandshakeDone, HandshakeFails, OwnerUnreadable, AuthAccepted,
           AuthRejected, AuthPanics, HandleInit, InitReady, InitPanics, HandleTest,
           HandleInvalid, HandleIgnored, HandleUsage, RecvLock, RecvEnd, StreamNext,
           StreamStart, StreamSnapshot, StreamPanics, StreamLock, WatchNext, WatchStarts,
           WatchEnds, Signal, NetNext, ClientRead, ClientLeaves, ClientVanishes,
           LinkTimesOut
  <2> QED
    BY <2>1, <2>2, <2>3, <2>4, <2>5
<1> QED
  BY <1>1, <1>2, StageStep, PTL DEF Spec, StageNeverGoesBack
================================================================================
