------------------------------- MODULE WsSession -------------------------------
(***************************************************************************)
(* One websocket connection of the Cyborg agent: handle_ws_connections of  *)
(* src/client/mod.rs and everything it runs for that connection.           *)
(*                                                                         *)
(* Four activities interleave.                                             *)
(*   R  the receive loop, which handles one frame at a time and answers    *)
(*      inline;                                                            *)
(*   S  the usage streamer, a task R spawns for the first "Usage" request; *)
(*   W  the D-Bus watcher, a task R spawns at the start, which stores the  *)
(*      zk stage the miner signals;                                        *)
(*   the client and the network.                                           *)
(* R and S share the sink ws_sender behind a FIFO-fair tokio Mutex, the    *)
(* session key behind an RwLock and the zk stage behind a Mutex.           *)
(***************************************************************************)
EXTENDS Naturals, Sequences

CONSTANTS
    ClientKeys,  \* the ephemeral public keys a client may send
    NoKey,       \* the session has no key: None in the source
    MaxFrames,   \* bound: frames handled in one session
    MaxSignals,  \* bound: zk signals emitted during one session
    OutCap       \* frames the socket's send buffer holds

(* A session key is what Diffie-Hellman makes of a client's ephemeral key  *)
(* and the agent's: the agent's n-th ephemeral key is the number n.        *)
SessionKey == [client : ClientKeys, node : 1..MaxFrames]

ASSUME KeyAssumption == NoKey \notin SessionKey
ASSUME BoundAssumption ==
    /\ MaxFrames \in Nat
    /\ MaxSignals \in Nat
    /\ OutCap \in Nat \ {0}

VARIABLES
    link,       \* the TCP connection: "up"; "lost" (peer gone, nothing heard
                \* of it); "closed" (peer's FIN arrived); "down" (sends fail)
    out,        \* frames in the socket's send buffer
    sent,       \* history: the messages the socket accepted from R and S
    streamed,   \* history: the stage of the snapshot it accepted last
    rpc,        \* where the receive loop is
    reply,      \* the answer R is about to send
    frames,     \* frames R has handled (bounded by MaxFrames)
    asked,      \* history: the frames R must answer, in order of arrival
    replies,    \* history: the types of R's answers, in the order sent
    wanted,     \* history: a "Usage" request was handled when there was a key
                \* and no streamer was running
    diffie_hellman_key,
    accepted,   \* accepted auth requests: key pairs made, aggregators spawned
    ws_sender,  \* the sink's mutex: queue of the tasks that hold or await it
    streaming_task,  \* where S is; "none" is Option::None
    skey,       \* S's copy of the session key
    smsg,       \* the message S is about to send
    watcher,    \* where W is
    zk_stage,   \* the number of the last signal W stored (0 before the first)
    signals     \* zk signals emitted so far (bounded by MaxSignals)

wireVars   == <<out, sent, streamed>>
linkVars   == <<link, wireVars>>
recvVars   == <<rpc, reply, frames, asked, replies, wanted>>
keyVars    == <<diffie_hellman_key, accepted>>
streamVars == <<streaming_task, skey, smsg>>
stageVars  == <<watcher, zk_stage, signals>>

vars == <<linkVars, recvVars, keyVars, ws_sender, streamVars, stageVars>>

-------------------------------------------------------------------------------
(* Messages.  Every message is a record of the same shape: data is sealed   *)
(* under a key, an Auth answer carries the key a client derives from it,    *)
(* everything else is plain.                                                *)

DataTypes  == {"Init", "Usage"}
ErrorTypes == {"AuthError", "InitError", "UsageError", "InvalidRequestError"}
MsgTypes   == DataTypes \cup ErrorTypes \cup {"Auth", "Test", "None"}

Message == [type  : MsgTypes,
            key   : SessionKey \cup {NoKey},
            stage : 0..MaxSignals]

Plain(type) == [type |-> type, key |-> NoKey, stage |-> 0]

Sealed(type, key, stage) == [type |-> type, key |-> key, stage |-> stage]

AuthReply(key) == [type |-> "Auth", key |-> key, stage |-> 0]

NoMsg == Plain("None")

FrameKinds == {"Auth", "BadKeyAuth", "Init", "Test", "Invalid"}

-------------------------------------------------------------------------------
(* Who still runs.  The socket is closed when its last owner is dropped.   *)

ReceiverLive == rpc \notin {"done", "panicked"}
StreamerLive == streaming_task \notin {"none", "done", "panicked"}

LinkAfterReceiver == IF StreamerLive THEN link ELSE "down"
LinkAfterStreamer == IF ReceiverLive THEN link ELSE "down"

(* The mutex of the sink: the head of the queue holds it.                  *)
Enqueue(task) == ws_sender' = Append(ws_sender, task)

(* Fault: the guard is leaked, so the mutex is never unlocked.             *)
KeepsGuard == ws_sender' = ws_sender

Unlock == ws_sender' = Tail(ws_sender)

Holds(task) == ws_sender # <<>> /\ Head(ws_sender) = task

(* What the socket has accepted last of the stages when it accepts m.       *)
StreamedAfter(m) == IF m.type = "Usage" THEN m.stage ELSE streamed

(* Fault: a send does not wait for room.                                   *)
PutAtOnce(m) ==
    /\ out' = out + 1
    /\ sent' = sent \cup {m}
    /\ streamed' = StreamedAfter(m)

(* Fault: a send to a peer that is gone waits for room instead of failing.  *)
PutOrWait(m) ==
    /\ out < OutCap
    /\ out' = out + 1
    /\ sent' = sent \cup {m}
    /\ streamed' = StreamedAfter(m)

(* Sink::send: waits for room in the send buffer.  A send to a peer that   *)
(* closed is accepted once and answered with a reset; then sends fail.     *)
Put(m) ==
    \/ /\ link \in {"up", "lost"}
       /\ out < OutCap
       /\ out' = out + 1
       /\ sent' = sent \cup {m}
       /\ streamed' = StreamedAfter(m)
    \/ /\ link \in {"closed", "down"}
       /\ UNCHANGED wireVars

LinkAfterSend == IF link = "closed" THEN "down" ELSE link

-------------------------------------------------------------------------------
Init ==
    /\ link = "up" /\ out = 0 /\ sent = {} /\ streamed = 0
    /\ rpc = "handshake" /\ reply = NoMsg /\ frames = 0
    /\ asked = <<>> /\ replies = <<>> /\ wanted = FALSE
    /\ diffie_hellman_key = NoKey /\ accepted = 0
    /\ ws_sender = <<>>
    /\ streaming_task = "none" /\ skey = NoKey /\ smsg = NoMsg
    /\ watcher = "none" /\ zk_stage = 0 /\ signals = 0

-------------------------------------------------------------------------------
(* R: the websocket handshake.                                              *)

(* accept_async succeeds and the task owner is readable: the watcher is     *)
(* spawned and the receive loop starts.                                     *)
HandshakeDone ==
    /\ rpc = "handshake"
    /\ link = "up"
    /\ rpc' = "idle"
    /\ watcher' = "connecting"
    /\ UNCHANGED <<linkVars, reply, frames, asked, replies, wanted, keyVars,
                   ws_sender, streamVars, zk_stage, signals>>

(* accept_async fails: the function returns and drops the stream.           *)
HandshakeFails ==
    /\ rpc = "handshake"
    /\ rpc' = "done"
    /\ link' = LinkAfterReceiver
    /\ UNCHANGED <<wireVars, reply, frames, asked, replies, wanted, keyVars,
                   ws_sender, streamVars, stageVars>>

(* task_owner.json is missing, malformed or holds no SS58 address: unwrap.  *)
OwnerUnreadable ==
    /\ rpc = "handshake"
    /\ link = "up"
    /\ rpc' = "panicked"
    /\ link' = LinkAfterReceiver
    /\ UNCHANGED <<wireVars, reply, frames, asked, replies, wanted, keyVars,
                   ws_sender, streamVars, stageVars>>

-------------------------------------------------------------------------------
(* R: one frame at a time.                                                  *)

(* R takes a frame that needs an answer, prepares m and goes on at pc.      *)
Take(kind, m, pc) ==
    /\ rpc = "idle"
    /\ frames < MaxFrames
    /\ frames' = frames + 1
    /\ asked' = Append(asked, kind)
    /\ reply' = m
    /\ rpc' = pc
    /\ UNCHANGED <<replies, wanted>>

(* Fault: the is_none test is dropped and every handshake replaces the key. *)
ReplacedKey(k) == k

(* construct_auth_response sets the key only while it is None.              *)
EstablishedKey(k) ==
    IF diffie_hellman_key = NoKey THEN k ELSE diffie_hellman_key

(* Auth, accepted: a new key pair every time, a log aggregator every time,  *)
(* and an answer with the new public key even when the old secret is kept.  *)
AuthAccepted(eph) ==
    LET k == [client |-> eph, node |-> accepted + 1]
    IN  /\ Take("Auth", AuthReply(k), "lock")
        /\ diffie_hellman_key' = EstablishedKey(k)
        /\ accepted' = accepted + 1
        /\ UNCHANGED <<linkVars, ws_sender, streamVars, stageVars>>

(* Fault: a rejected Auth leaves the handler before its answer is sent.     *)
RejectedSilently ==
    /\ Take("Auth", NoMsg, "idle")
    /\ UNCHANGED <<linkVars, keyVars, ws_sender, streamVars, stageVars>>

(* Auth, rejected: not hex, a bad signature or a timestamp out of window.   *)
AuthRejected ==
    /\ Take("Auth", Plain("AuthError"), "lock")
    /\ UNCHANGED <<linkVars, keyVars, ws_sender, streamVars, stageVars>>

(* Auth with a public key that is not 32 bytes: copy_from_slice panics.     *)
AuthPanics ==
    /\ Take("BadKeyAuth", NoMsg, "panicked")
    /\ link' = LinkAfterReceiver
    /\ UNCHANGED <<wireVars, keyVars, ws_sender, streamVars, stageVars>>

(* Fault: Init does not look whether there is a key.                        *)
InitWithoutKey ==
    /\ Take("Init", Sealed("Init", diffie_hellman_key, 0), "init")
    /\ UNCHANGED <<linkVars, keyVars, ws_sender, streamVars, stageVars>>

(* Init: the key is copied first; without one the answer is an AuthError.   *)
HandleInit ==
    /\ \/ /\ diffie_hellman_key = NoKey
          /\ Take("Init", Plain("AuthError"), "lock")
       \/ /\ diffie_hellman_key # NoKey
          /\ Take("Init", Sealed("Init", diffie_hellman_key, 0), "init")
    /\ UNCHANGED <<linkVars, keyVars, ws_sender, streamVars, stageVars>>

(* get_init ends: location, health and specs are there, or one of them      *)
(* failed.  R handles nothing else meanwhile, and get_init has no timeout.  *)
InitReady ==
    /\ rpc = "init"
    /\ reply' \in {reply, Plain("InitError")}
    /\ rpc' = "lock"
    /\ UNCHANGED <<linkVars, frames, asked, replies, wanted, keyVars,
                   ws_sender, streamVars, stageVars>>

(* The readers of the specs unwrap and slice what commands print.           *)
InitPanics ==
    /\ rpc = "init"
    /\ rpc' = "panicked"
    /\ reply' = NoMsg
    /\ link' = LinkAfterReceiver
    /\ UNCHANGED <<wireVars, frames, asked, replies, wanted, keyVars,
                   ws_sender, streamVars, stageVars>>

HandleTest ==
    /\ Take("Test", Plain("Test"), "lock")
    /\ UNCHANGED <<linkVars, keyVars, ws_sender, streamVars, stageVars>>

(* Text that is no request of a known format.                               *)
HandleInvalid ==
    /\ Take("Invalid", Plain("InvalidRequestError"), "lock")
    /\ UNCHANGED <<linkVars, keyVars, ws_sender, streamVars, stageVars>>

(* A request of an unknown type, a frame that is not text, a read error:    *)
(* nothing happens.                                                         *)
HandleIgnored ==
    /\ rpc = "idle"
    /\ frames < MaxFrames
    /\ frames' = frames + 1
    /\ UNCHANGED <<linkVars, rpc, reply, asked, replies, wanted, keyVars,
                   ws_sender, streamVars, stageVars>>

(* Usage: a streamer is spawned only if there has never been one.           *)
HandleUsage ==
    /\ rpc = "idle"
    /\ frames < MaxFrames
    /\ frames' = frames + 1
    /\ wanted' = (wanted \/ (diffie_hellman_key # NoKey /\ ~StreamerLive))
    /\ streaming_task' = IF streaming_task = "none" THEN "start"
                                                    ELSE streaming_task
    /\ UNCHANGED <<linkVars, rpc, reply, asked, replies, keyVars, ws_sender,
                   skey, smsg, stageVars>>

(* R waits for the sink, holds it over one send, and drops it.              *)
RecvLock ==
    /\ rpc = "lock"
    /\ rpc' = "sending"
    /\ Enqueue("R")
    /\ UNCHANGED <<linkVars, reply, frames, asked, replies, wanted, keyVars,
                   streamVars, stageVars>>

RecvSend ==
    /\ rpc = "sending"
    /\ Holds("R")
    /\ Put(reply)
    /\ link' = LinkAfterSend
    /\ Unlock
    /\ replies' = Append(replies, reply.type)
    /\ reply' = NoMsg
    /\ rpc' = "idle"
    /\ UNCHANGED <<frames, asked, wanted, keyVars, streamVars, stageVars>>

(* ws_receiver.next() returns None: the loop ends, S and W are not told.    *)
RecvEnd ==
    /\ rpc = "idle"
    /\ link \in {"closed", "down"}
    /\ rpc' = "done"
    /\ link' = LinkAfterReceiver
    /\ UNCHANGED <<wireVars, reply, frames, asked, replies, wanted, keyVars,
                   ws_sender, streamVars, stageVars>>

-------------------------------------------------------------------------------
(* S: the usage streamer.                                                   *)

(* stream_usage copies the key when it first runs, which may be after R has *)
(* handled further frames; without a key it returns an AuthError.           *)
StreamStart ==
    /\ streaming_task = "start"
    /\ \/ /\ diffie_hellman_key = NoKey
          /\ streaming_task' = "report"
          /\ smsg' = Plain("AuthError")
          /\ UNCHANGED skey
       \/ /\ diffie_hellman_key # NoKey
          /\ streaming_task' = "tick"
          /\ skey' = diffie_hellman_key
          /\ UNCHANGED smsg
    /\ UNCHANGED <<linkVars, recvVars, keyVars, ws_sender, stageVars>>

(* A tick, a snapshot that reads the zk stage, and the message sealed under *)
(* the copied key.                                                          *)
StreamSnapshot ==
    /\ streaming_task = "tick"
    /\ streaming_task' = "lock"
    /\ smsg' = Sealed("Usage", skey, zk_stage)
    /\ UNCHANGED <<linkVars, recvVars, keyVars, ws_sender, skey, stageVars>>

(* df cannot be run or prints what is not UTF-8: return_disk_usage panics.  *)
StreamPanics ==
    /\ streaming_task = "tick"
    /\ streaming_task' = "panicked"
    /\ link' = LinkAfterStreamer
    /\ UNCHANGED <<wireVars, recvVars, keyVars, ws_sender, skey, smsg,
                   stageVars>>

(* S queues for the sink, with a snapshot or with its last error.           *)
StreamLock ==
    /\ \/ streaming_task = "lock"   /\ streaming_task' = "sending"
       \/ streaming_task = "report" /\ streaming_task' = "reporting"
    /\ Enqueue("S")
    /\ UNCHANGED <<linkVars, recvVars, keyVars, skey, smsg, stageVars>>

(* Fault: the loop sends the snapshot it has, without taking a new one.     *)
SameSnapshot == "lock"

NextSnapshot == "tick"

(* Fault: a failed send is logged and the loop goes on.                     *)
KeepsStreaming == "tick"

AfterFailedSend == "report"

(* The snapshot is sent and the next one begins; a failed send ends the     *)
(* loop, drops the guard and leaves the error to be reported.               *)
StreamSend ==
    /\ streaming_task = "sending"
    /\ Holds("S")
    /\ Unlock
    /\ Put(smsg)
    /\ \/ /\ link = "down"
          /\ streaming_task' = AfterFailedSend
          /\ smsg' = Plain("UsageError")
       \/ /\ link # "down"
          /\ streaming_task' = NextSnapshot
          /\ UNCHANGED smsg
    /\ link' = LinkAfterSend
    /\ UNCHANGED <<recvVars, keyVars, skey, stageVars>>

(* The closure R spawned sends the error, ignores the result and ends.  R   *)
(* keeps its JoinHandle, so streaming_task never is None again.             *)
StreamReport ==
    /\ streaming_task = "reporting"
    /\ Holds("S")
    /\ Unlock
    /\ Put(smsg)
    /\ streaming_task' = "done"
    /\ link' = IF ReceiverLive THEN LinkAfterSend ELSE "down"
    /\ UNCHANGED <<recvVars, keyVars, skey, smsg, stageVars>>

-------------------------------------------------------------------------------
(* W: the D-Bus watcher.  Nothing stops it when the session ends.           *)

WatchStarts ==
    /\ watcher = "connecting"
    /\ watcher' = "watching"
    /\ UNCHANGED <<linkVars, recvVars, keyVars, ws_sender, streamVars,
                   zk_stage, signals>>

(* Fault: the watcher puts the stage back to its default when it ends.      *)
WatchEndsAfresh ==
    /\ watcher \in {"connecting", "watching"}
    /\ watcher' = "ended"
    /\ zk_stage' = 0
    /\ UNCHANGED <<linkVars, recvVars, keyVars, ws_sender, streamVars, signals>>

(* The bus cannot be reached, a signal does not deserialize or has no       *)
(* field, or the stream of signals ends.                                    *)
WatchEnds ==
    /\ watcher \in {"connecting", "watching"}
    /\ watcher' = "ended"
    /\ UNCHANGED <<linkVars, recvVars, keyVars, ws_sender, streamVars,
                   zk_stage, signals>>

(* The miner emits signal number n; W stores it if it is watching and the   *)
(* first field is a u8, and drops it otherwise.                             *)
Signal ==
    LET n == signals + 1
    IN  /\ signals < MaxSignals
        /\ signals' = n
        /\ zk_stage' \in IF watcher = "watching" THEN {zk_stage, n}
                                                 ELSE {zk_stage}
        /\ UNCHANGED <<linkVars, recvVars, keyVars, ws_sender, streamVars,
                       watcher>>

-------------------------------------------------------------------------------
(* The client and the network.                                              *)

ClientRead ==
    /\ link = "up"
    /\ out > 0
    /\ out' = out - 1
    /\ UNCHANGED <<link, sent, streamed, recvVars, keyVars, ws_sender,
                   streamVars, stageVars>>

(* The client closes: its end arrives at once, sends fail at once or later. *)
ClientLeaves ==
    /\ link = "up"
    /\ link' \in {"closed", "down"}
    /\ UNCHANGED <<wireVars, recvVars, keyVars, ws_sender, streamVars,
                   stageVars>>

(* The client's host disappears and nothing is heard of it.                 *)
ClientVanishes ==
    /\ link = "up"
    /\ link' = "lost"
    /\ UNCHANGED <<wireVars, recvVars, keyVars, ws_sender, streamVars,
                   stageVars>>

(* TCP gives up retransmitting; it never does while nothing is in flight.   *)
LinkTimesOut ==
    /\ link = "lost"
    /\ out > 0
    /\ link' = "down"
    /\ UNCHANGED <<wireVars, recvVars, keyVars, ws_sender, streamVars,
                   stageVars>>

-------------------------------------------------------------------------------
RecvNext ==
    \/ HandshakeDone \/ HandshakeFails \/ OwnerUnreadable
    \/ \E eph \in ClientKeys : AuthAccepted(eph)
    \/ AuthRejected \/ AuthPanics
    \/ HandleInit \/ InitReady \/ InitPanics
    \/ HandleTest \/ HandleInvalid \/ HandleIgnored \/ HandleUsage
    \/ RecvLock \/ RecvSend \/ RecvEnd

StreamNext ==
    \/ StreamStart \/ StreamSnapshot \/ StreamPanics
    \/ StreamLock \/ StreamSend \/ StreamReport

WatchNext == WatchStarts \/ WatchEnds \/ Signal

NetNext == ClientRead \/ ClientLeaves \/ ClientVanishes \/ LinkTimesOut

Next == RecvNext \/ StreamNext \/ WatchNext \/ NetNext

(* The scheduler runs every task that can run; a client that stays         *)
(* connected reads what it is sent; TCP gives up on a silent peer.  Nobody  *)
(* has to send a frame or a signal, and get_init may take for ever.         *)
Fairness ==
    /\ WF_vars(RecvLock) /\ WF_vars(RecvSend) /\ WF_vars(RecvEnd)
    /\ WF_vars(HandshakeFails /\ link \in {"closed", "down"})
    /\ WF_vars(StreamStart) /\ WF_vars(StreamSnapshot)
    /\ WF_vars(StreamLock) /\ WF_vars(StreamSend) /\ WF_vars(StreamReport)
    /\ WF_vars(ClientRead) /\ WF_vars(LinkTimesOut)

Spec == Init /\ [][Next]_vars

FairSpec == Spec /\ Fairness

-------------------------------------------------------------------------------
(* Properties.                                                              *)

RecvStates   == {"handshake", "idle", "init", "lock", "sending", "done",
                 "panicked"}
StreamStates == {"none", "start", "tick", "lock", "sending", "report",
                 "reporting", "done", "panicked"}

(* Every variable has its type and every counter its bound: the state of    *)
(* handle_ws_connections and of the tasks it spawns.                        *)
TypeOK ==
    /\ link \in {"up", "lost", "closed", "down"}
    /\ out \in 0..OutCap
    /\ sent \in SUBSET Message
    /\ streamed \in 0..MaxSignals
    /\ rpc \in RecvStates
    /\ reply \in Message
    /\ frames \in 0..MaxFrames
    /\ asked \in Seq(FrameKinds)
    /\ replies \in Seq(MsgTypes)
    /\ wanted \in BOOLEAN
    /\ diffie_hellman_key \in SessionKey \cup {NoKey}
    /\ accepted \in 0..frames
    /\ ws_sender \in Seq({"R", "S"})
    /\ streaming_task \in StreamStates
    /\ skey \in SessionKey \cup {NoKey}
    /\ smsg \in Message
    /\ watcher \in {"none", "connecting", "watching", "ended"}
    /\ zk_stage \in 0..MaxSignals
    /\ signals \in 0..MaxSignals

(* The messages the session has sent or is about to send.                   *)
Messages == sent \cup {reply, smsg}

IsData(m) == m.type \in DataTypes

(* Data is sealed under the key the session holds now: no usage or init     *)
(* message, sent or prepared, is under no key or under a key that a later   *)
(* Auth replaced, although R and S each copied the key earlier.             *)
DataSealedUnderSessionKey ==
    \A m \in Messages :
        IsData(m) => m.key = diffie_hellman_key /\ m.key # NoKey

(* The answer to the first accepted Auth, and no later one, lets the client *)
(* derive the key the agent seals with; an answer is only there with a key. *)
OnlyFirstHandshakeAgrees ==
    \A m \in Messages :
        m.type = "Auth" =>
            /\ diffie_hellman_key # NoKey
            /\ m.key = diffie_hellman_key <=> m.key.node = 1

(* The key comes from the first accepted Auth whatever number follows, and  *)
(* the copy S took, possibly between two Auths, is still the session's key. *)
KeyAgreed ==
    /\ diffie_hellman_key = NoKey <=> accepted = 0
    /\ diffie_hellman_key # NoKey => diffie_hellman_key.node = 1
    /\ skey # NoKey => skey = diffie_hellman_key
    /\ streaming_task \in {"tick", "lock", "sending"} => skey # NoKey

AnswersTo(kind) ==
    CASE kind = "Auth"       -> {"Auth", "AuthError"}
      [] kind = "BadKeyAuth" -> {"AuthError"}
      [] kind = "Init"       -> {"Init", "InitError", "AuthError"}
      [] kind = "Test"       -> {"Test"}
      [] kind = "Invalid"    -> {"InvalidRequestError"}

Answered(kind, upTo) == \E j \in 1..upTo : replies[j] = kind

(* R answers the frames that need an answer one for one and in their order, *)
(* whatever S sends in between; an Init is refused for want of a key        *)
(* exactly when no Auth was accepted before it.                             *)
RepliesInOrder ==
    /\ Len(replies) <= Len(asked)
    /\ Len(asked) - Len(replies) = IF rpc \in {"init", "lock", "sending"}
                                      THEN 1 ELSE
                                      IF rpc = "panicked" /\ asked # <<>>
                                      THEN 1 ELSE 0
    /\ \A i \in 1..Len(replies) :
          /\ replies[i] \in AnswersTo(asked[i])
          /\ asked[i] = "Init" =>
               (replies[i] = "AuthError" <=> ~Answered("Auth", i - 1))

Occurrences(task) == {i \in 1..Len(ws_sender) : ws_sender[i] = task}

(* The sink's mutex is queued for exactly by the tasks that are sending,    *)
(* and by none of them twice: no task holds it while it waits for a frame   *)
(* or a tick, and none that ended or panicked took it along.                *)
SenderQueueMatchesTasks ==
    /\ Occurrences("R") # {} <=> rpc = "sending"
    /\ Occurrences("S") # {} <=> streaming_task \in {"sending", "reporting"}
    /\ \A task \in {"R", "S"} :
          \A i, j \in Occurrences(task) : i = j

(* Streamed stages follow the miner: each snapshot put on the wire shows a  *)
(* stage at least as new as the one before it, hence as every one before,   *)
(* however long S waited for the sink and whatever was sent before.         *)
StageNeverGoesBack == [][streamed <= streamed']_vars

-------------------------------------------------------------------------------
(* Whoever waits for the sink gets it: neither R nor S starves the other,   *)
(* and a peer that disappears without a word does not hold it for ever.     *)
SenderWaitEnds ==
    /\ rpc = "sending" ~> rpc # "sending"
    /\ streaming_task \in {"sending", "reporting"} ~>
         streaming_task \notin {"sending", "reporting"}

(* When the client is gone the streamer finds out and ends, also while      *)
(* get_init keeps the receive loop; the loop ends too once the end of the   *)
(* connection reaches it, and after a client vanished without a word as     *)
(* soon as something is in flight, unless get_init never returns.           *)
TornDownAfterDisconnect ==
    /\ (link # "up" /\ StreamerLive) ~> ~StreamerLive
    /\ (link \in {"closed", "down"} \/ (link = "lost" /\ out > 0)) ~>
          (~ReceiverLive \/ rpc = "init")

Streams(n) == \E m \in sent : m.type = "Usage" /\ m.stage >= n

(* While a client streams, every stage the watcher stored reaches it, also  *)
(* one stored while S waits for the sink with a snapshot from before.       *)
StoredStageIsStreamed ==
    \A n \in 1..MaxSignals :
        (/\ zk_stage >= n
         /\ streaming_task \in {"tick", "lock", "sending"}
         /\ link = "up") ~>
            (Streams(n) \/ link # "up" \/ streaming_task = "panicked")

-------------------------------------------------------------------------------
(* The session as a channel: the key, the data on the wire and whether the  *)
(* socket still carries anything implement SecureChannel.                   *)
Delivered == {[key |-> m.key, data |-> <<m.type, m.stage>>] :
                 m \in {x \in sent : IsData(x)}}

Channel == INSTANCE SecureChannel WITH
               Keys      <- SessionKey,
               Data      <- DataTypes \X (0..MaxSignals),
               key       <- diffie_hellman_key,
               delivered <- Delivered,
               open      <- link \in {"up", "lost"}

(* Every step of the session is a step of the channel or leaves it alone.   *)
ChannelSpec == Channel!Spec

-------------------------------------------------------------------------------
(* What the repository says of the session and the code does not do.        *)

(* A Usage request made with a session key in place is streamed, unless the *)
(* connection or the streamer fails ("please try again later").             *)
RequestedUsageIsServed ==
    (wanted /\ link = "up") ~>
        (link # "up" \/ ~ReceiverLive \/ streaming_task = "panicked"
                     \/ \E m \in sent : m.type = "Usage")

(* An Auth with a public key of the wrong length is answered like any other *)
(* malformed Auth, not by ending the receive loop.                          *)
BadKeyIsAnswered ==
    rpc = "panicked" => \A i \in 1..Len(asked) : asked[i] # "BadKeyAuth"
================================================================================
