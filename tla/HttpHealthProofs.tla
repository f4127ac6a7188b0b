---------------------------- MODULE HttpHealthProofs ---------------------------
(* The theorems about HttpHealth and their proofs.                          *)
EXTENDS HttpHealth, SequenceTheorems, TLAPS

(* What has arrived, as a sequence: its length and its whole words.         *)
LEMMA ReceivedWords ==
    ASSUME request \in Seq(Words), arrived \in 0..Len(request),
           partly \in BOOLEAN
    PROVE  /\ Received \in Seq(Words \cup {"cut"})
           /\ Len(Received) = arrived + (IF partly THEN 1 ELSE 0)
           /\ \A i \in 1..arrived : Received[i] = request[i]
<1> DEFINE whole == SubSeq(request, 1, arrived)
           rest  == IF partly THEN <<"cut">> ELSE <<>>
<1>1. /\ whole \in Seq(Words \cup {"cut"})
      /\ Len(whole) = arrived
      /\ \A i \in 1..arrived : whole[i] = request[i]
  <2>1. request \in Seq(Words \cup {"cut"})
    BY SeqDef
  <2>2. \A i \in 1..arrived : request[i] \in Words \cup {"cut"}
    BY <2>1, ElementOfSeq
  <2> QED
    BY <2>1, <2>2, SubSeqProperties
<1>2. rest \in Seq(Words \cup {"cut"}) /\ Len(rest) = IF partly THEN 1 ELSE 0
  <2>1. CASE partly
    <3>1. rest = <<"cut">>
      BY <2>1
    <3>2. <<"cut">> \in Seq(Words \cup {"cut"}) /\ Len(<<"cut">>) = 1
      OBVIOUS
    <3> QED
      BY <2>1, <3>1, <3>2
  <2>2. CASE ~partly
    <3>1. rest = <<>>
      BY <2>2
    <3> QED
      BY <2>2, <3>1, EmptySeq
  <2> QED
    BY <2>1, <2>2
<1>3. Received = whole \o rest
  BY DEF Received
<1> HIDE DEF whole, rest
<1>4. /\ whole \o rest \in Seq(Words \cup {"cut"})
      /\ Len(whole \o rest) = Len(whole) + Len(rest)
      /\ \A i \in 1..Len(whole) : (whole \o rest)[i] = whole[i]
  <2>1. Len(whole) \in Nat /\ Len(rest) \in Nat
    BY <1>1, <1>2
  <2>2. /\ whole \o rest \in Seq(Words \cup {"cut"})
        /\ Len(whole \o rest) = Len(whole) + Len(rest)
        /\ \A i \in 1..Len(whole) + Len(rest) :
              (whole \o rest)[i] = IF i <= Len(whole) THEN whole[i]
                                                    ELSE rest[i - Len(whole)]
    BY <1>1, <1>2, ConcatProperties, Zenon
  <2>3. \A i \in 1..Len(whole) : i \in 1..Len(whole) + Len(rest) /\ i <= Len(whole)
    BY <2>1
  <2> QED
    BY <2>2, <2>3, Zenon
<1> QED
  BY <1>1, <1>2, <1>3, <1>4

(* A health check among what arrived is a health request, and answered with *)
(* a 200 only; nothing else has a 200 among its answers.                    *)
LEMMA ResponsesAreRight ==
    ASSUME request \in Seq(Words), arrived \in 0..Len(request),
           partly \in BOOLEAN, partly => arrived < Len(request)
    PROVE  LET answers == Responses(Received)
           IN  /\ answers \in {<<200>>, <<404>>, <<404, 404>>}
               /\ answers = <<200>> => IsHealthRequest
<1>1. /\ Len(Received) = arrived + (IF partly THEN 1 ELSE 0)
      /\ \A i \in 1..arrived : Received[i] = request[i]
  BY ReceivedWords
<1>2. Responses(Received) \in {<<200>>, <<404>>, <<404, 404>>}
  BY DEF Responses, HealthStatus
<1> DEFINE ok == <<200>>
<1>3. ASSUME Responses(Received) = ok PROVE IsHealthRequest
  <2>1. Len(Received) = 3 /\ IsHealthCheck(Received)
    BY <1>3 DEF Responses
  <2>2. arrived >= 2 /\ Len(request) >= 3
    BY <1>1, <2>1
  <2>3. request[1] = "GET" /\ request[2] = "/check-health"
    BY <1>1, <2>1, <2>2 DEF IsHealthCheck
  <2>4. /\ SubSeq(request, 1, 2) \in Seq(Words)
        /\ Len(SubSeq(request, 1, 2)) = 2
        /\ SubSeq(request, 1, 2)[1] = "GET"
        /\ SubSeq(request, 1, 2)[2] = "/check-health"
    BY <2>2, <2>3, SubSeqProperties, ElementOfSeq
  <2>5. SubSeq(request, 1, 2) = <<"GET", "/check-health">>
    <3> DEFINE found == SubSeq(request, 1, 2)
               path  == <<"GET", "/check-health">>
    <3>1. path \in Seq(Words) /\ Len(path) = 2
      BY WordsAssumption
    <3>2. \A i \in 1..2 : found[i] = path[i]
      BY <2>4
    <3> HIDE DEF found, path
    <3>3. found \in Seq(Words) /\ Len(found) = 2
      BY <2>4 DEF found
    <3>4. found = path
      BY <3>1, <3>2, <3>3, SeqEqual
    <3> QED
      BY <3>4 DEF found, path
  <2> QED
    BY <2>2, <2>5 DEF IsHealthRequest
<1> QED
  BY <1>2, <1>3

-------------------------------------------------------------------------------
(* What is written and what is pending make up one of the three answers.    *)
Parts ==
    \/ written = <<>> /\ pending \in {<<>>, <<200>>, <<404>>, <<404, 404>>}
    \/ written = <<200>> /\ pending = <<>>
    \/ written = <<404>> /\ pending \in {<<>>, <<404>>}
    \/ written = <<404, 404>> /\ pending = <<>>

(* The pieces of answers are sequences of codes, and all different.         *)
LEMMA PiecesDiffer ==
    /\ <<>> \in Seq({200, 404}) /\ Len(<<>>) = 0
    /\ <<200>> \in Seq({200, 404}) /\ Len(<<200>>) = 1
    /\ <<404>> \in Seq({200, 404}) /\ Len(<<404>>) = 1
    /\ <<404, 404>> \in Seq({200, 404}) /\ Len(<<404, 404>>) = 2
    /\ <<200>> # <<404>>
<1>1. <<200>>[1] = 200 /\ <<404>>[1] = 404
  OBVIOUS
<1>2. /\ <<>> \in Seq({200, 404}) /\ Len(<<>>) = 0
      /\ <<200>> \in Seq({200, 404}) /\ Len(<<200>>) = 1
      /\ <<404>> \in Seq({200, 404}) /\ Len(<<404>>) = 1
  OBVIOUS
<1>3. <<404, 404>> \in Seq({200, 404}) /\ Len(<<404, 404>>) = 2
  OBVIOUS
<1> QED
  BY <1>1, <1>2, <1>3

(* The second 404 after the first.                                         *)
LEMMA TwiceNotFound == Append(<<404>>, 404) = <<404, 404>>
<1> DEFINE s == Append(<<404>>, 404)
           t == <<404, 404>>
<1>1. /\ <<404>> \in Seq({404}) /\ Len(<<404>>) = 1 /\ <<404>>[1] = 404
      /\ t \in Seq({404}) /\ Len(t) = 2 /\ t[1] = 404 /\ t[2] = 404
  OBVIOUS
<1>2. s \in Seq({404}) /\ Len(s) = 2 /\ s[1] = 404 /\ s[2] = 404
  BY <1>1, AppendProperties
<1> HIDE DEF s, t
<1>3. \A i \in 1..Len(s) : s[i] = t[i]
  BY <1>1, <1>2
<1>4. s = t
  BY <1>1, <1>2, <1>3, SeqEqual
<1> QED
  BY <1>4 DEF s, t

(* What the client and the network decide.                                  *)
NetOK ==
    /\ request \in Seq(Words)
    /\ arrived \in 0..Len(request)
    /\ partly \in BOOLEAN
    /\ partly => arrived < Len(request)
    /\ peer \in {"open", "closed", "reset"}

(* The inductive invariant: the answer is in parts, nothing is answered     *)
(* before the read, and it is a 200 only if the request is a health request.*)
HealthInv ==
    /\ NetOK
    /\ pc \in {"reading", "writing", "done", "panicked"}
    /\ Parts
    /\ pc = "reading" => written = <<>> /\ pending = <<>>
    /\ pc = "writing" => pending # <<>>
    /\ written = <<200>> \/ pending = <<200>> => IsHealthRequest

(* More of the request arrives, but never more than there is.               *)
LEMMA NetStep ==
    ASSUME NetOK, Arrive \/ PeerEnds PROVE NetOK'
<1>1. Len(request) \in Nat
  BY LenProperties DEF NetOK
<1>2. CASE Arrive
  <2>1. UNCHANGED <<request, peer>> /\ arrived < Len(request)
    BY <1>2 DEF Arrive
  <2>2. CASE arrived' = arrived + 1 /\ partly' = FALSE
    <3>1. arrived' \in 0..Len(request')
      BY <1>1, <2>1, <2>2 DEF NetOK
    <3>2. request' = request /\ peer' = peer /\ ~partly' /\ partly' \in BOOLEAN
      BY <2>1, <2>2, Zenon
    <3> QED
      BY <3>1, <3>2, Zenon DEF NetOK
  <2>3. CASE ~partly /\ partly' = TRUE /\ UNCHANGED arrived
    BY <2>1, <2>3, Zenon DEF NetOK
  <2> QED
    BY <1>2, <2>2, <2>3 DEF Arrive
<1>3. CASE PeerEnds
  <2>1. request' = request /\ arrived' = arrived /\ partly' = partly
    BY <1>3 DEF PeerEnds
  <2>2. peer' \in {"open", "closed", "reset"}
    BY <1>3 DEF PeerEnds
  <2>3. partly' \in BOOLEAN /\ (partly' => arrived' < Len(request'))
    BY <2>1 DEF NetOK
  <2> QED
    BY <2>1, <2>2, <2>3 DEF NetOK
<1> QED
  BY <1>2, <1>3

(* Steps that neither read nor write leave the answer as it is.             *)
LEMMA AnswerIdle ==
    ASSUME HealthInv, NetOK', UNCHANGED <<request, pending, written>>,
           pc' = pc \/ pc' = "panicked"
    PROVE  HealthInv'
<1>1. Parts' /\ (IsHealthRequest' <=> IsHealthRequest)
  BY Zenon DEF HealthInv, Parts, IsHealthRequest
<1> QED
  BY <1>1 DEF HealthInv

(* Every step keeps it: the request never changes, so what one read made of *)
(* a part of it stays true of the whole.                                    *)
LEMMA HealthStep == HealthInv /\ [Next]_vars => HealthInv'
<1> SUFFICES ASSUME HealthInv, [Next]_vars PROVE HealthInv'
  OBVIOUS
<1>1. CASE Arrive \/ PeerEnds
  <2>1. NetOK'
    BY <1>1, NetStep DEF HealthInv
  <2>2. UNCHANGED <<request, pc, pending, written>>
    BY <1>1 DEF Arrive, PeerEnds
  <2> QED
    BY <2>1, <2>2, AnswerIdle
<1>2. ASSUME UNCHANGED netVars
      PROVE  NetOK' /\ (IsHealthRequest' <=> IsHealthRequest)
  BY <1>2, Zenon DEF netVars, HealthInv, NetOK, IsHealthRequest
<1>3. CASE Read
  <2>1. /\ Responses(Received) \in {<<200>>, <<404>>, <<404, 404>>}
        /\ Responses(Received) = <<200>> => IsHealthRequest
    BY ResponsesAreRight DEF HealthInv, NetOK
  <2>2. /\ written' = <<>> /\ pending' = Responses(Received) /\ pc' = "writing"
        /\ UNCHANGED netVars
    BY <1>3 DEF Read, HealthInv
  <2>3. Parts' /\ pending' # <<>> /\ written' # <<200>>
    BY <2>1, <2>2 DEF Parts
  <2> QED
    BY <1>2, <2>1, <2>2, <2>3 DEF HealthInv
<1>4. CASE IoPanics
  <2>1. UNCHANGED netVars /\ UNCHANGED <<pending, written>> /\ pc' = "panicked"
    BY <1>4 DEF IoPanics
  <2> QED
    BY <1>2, <2>1, AnswerIdle DEF netVars
<1>5. CASE Write
  <2>1. /\ written' = Append(written, Head(pending)) /\ pending' = Tail(pending)
        /\ pc' = (IF Len(pending) = 1 THEN "done" ELSE "writing")
        /\ pc = "writing" /\ UNCHANGED netVars
    BY <1>5 DEF Write
  <2>2. CASE written = <<>> /\ pending = <<200>>
    <3>1. written' = <<200>> /\ pending' = <<>> /\ pc' = "done"
      BY <2>1, <2>2
    <3>2. IsHealthRequest
      BY <2>2 DEF HealthInv
    <3> QED
      BY <1>2, <2>1, <3>1, <3>2 DEF HealthInv, Parts
  <2>3. CASE written = <<>> /\ pending = <<404>>
    <3>1. written' = <<404>> /\ pending' = <<>> /\ pc' = "done"
      BY <2>1, <2>3
    <3>2. Parts' /\ written' # <<200>> /\ pending' # <<200>>
      BY <3>1, PiecesDiffer DEF Parts
    <3> QED
      BY <1>2, <2>1, <3>1, <3>2 DEF HealthInv
  <2>4. CASE written = <<404>> /\ pending = <<404>>
    <3>1. Head(pending) = 404 /\ Tail(pending) = <<>> /\ Len(pending) = 1
      BY <2>4
    <3>2. written' = <<404, 404>> /\ pending' = <<>> /\ pc' = "done"
      BY <2>1, <2>4, <3>1, TwiceNotFound, Zenon
    <3>3. Parts' /\ written' # <<200>> /\ pending' # <<200>>
      BY <3>2, PiecesDiffer DEF Parts
    <3> QED
      BY <1>2, <2>1, <3>2, <3>3 DEF HealthInv
  <2>5. CASE written = <<>> /\ pending = <<404, 404>>
    <3>1. written' = <<404>> /\ pending' = <<404>> /\ pc' = "writing"
      BY <2>1, <2>5
    <3>2. Parts' /\ written' # <<200>> /\ pending' # <<200>> /\ pending' # <<>>
      BY <3>1, PiecesDiffer DEF Parts
    <3> QED
      BY <1>2, <2>1, <3>1, <3>2 DEF HealthInv
  <2> QED
    BY <2>1, <2>2, <2>3, <2>4, <2>5 DEF HealthInv, Parts
<1>6. CASE UNCHANGED vars
  BY <1>2, <1>6, AnswerIdle DEF vars, netVars
<1> QED
  BY <1>1, <1>3, <1>4, <1>5, <1>6 DEF Next

(* Bounded sequences of words are sequences of words.                       *)
LEMMA HealthInit == Init => HealthInv
<1> SUFFICES ASSUME Init PROVE HealthInv
  OBVIOUS
<1>1. request \in Seq(Words)
  <2>1. request \in UNION {[1..m -> Words] : m \in 0..MaxWords}
    BY DEF Init, BoundedSeq, SeqOf
  <2>2. PICK m \in 0..MaxWords : request \in [1..m -> Words]
    BY <2>1
  <2> QED
    BY <2>2, WordsAssumption, SeqDef
<1>2. Len(request) \in Nat
  BY <1>1, LenProperties
<1>3. arrived \in 0..Len(request) /\ peer \in {"open", "closed", "reset"}
  BY <1>2 DEF Init
<1>4. NetOK
  BY <1>1, <1>3, Zenon DEF Init, NetOK
<1> QED
  BY <1>4 DEF Init, HealthInv, Parts

(* The invariant holds of every behaviour.                                  *)
LEMMA HealthInvariant == Spec => []HealthInv
BY HealthInit, HealthStep, PTL DEF Spec

(* Types, and no more than two responses, for any words and any length of   *)
(* the request line.                                                        *)
THEOREM HealthTypeCorrect == Spec => []TypeOK
<1>1. HealthInv => TypeOK
  <2> SUFFICES ASSUME HealthInv PROVE TypeOK
    OBVIOUS
  <2>1. /\ pending \in Seq({200, 404}) /\ written \in Seq({200, 404})
        /\ Len(pending) + Len(written) <= 2
    <3>3. /\ pending \in {<<>>, <<200>>, <<404>>, <<404, 404>>}
          /\ written \in {<<>>, <<200>>, <<404>>, <<404, 404>>}
      BY DEF HealthInv, Parts
    <3>4. pending \in Seq({200, 404}) /\ written \in Seq({200, 404})
      <4> DEFINE answers == {<<>>, <<200>>, <<404>>, <<404, 404>>}
      <4>1. \A x \in answers : x \in Seq({200, 404})
        <5> TAKE x \in answers
        <5>1. CASE x = <<>>
          BY <5>1, EmptySeq
        <5>2. CASE x = <<200>>
          BY <5>2
        <5>3. CASE x = <<404>>
          BY <5>3
        <5>4. CASE x = <<404, 404>>
          BY <5>4
        <5> QED
          BY <5>1, <5>2, <5>3, <5>4
      <4>2. pending \in answers /\ written \in answers
        BY <3>3
      <4> HIDE DEF answers
      <4> QED
        BY <4>1, <4>2
    <3>5. \A w, p \in 0..2 :
             \/ w = 0 \/ p = 0 \/ (w = 1 /\ p = 1) => p + w <= 2
      OBVIOUS
    <3>6. Len(pending) + Len(written) <= 2
      <4>1. Len(pending) \in 0..2 /\ Len(written) \in 0..2
        BY <3>3, PiecesDiffer, SMT
      <4>2. \/ Len(written) = 0 \/ Len(pending) = 0
            \/ Len(written) = 1 /\ Len(pending) = 1
        BY PiecesDiffer DEF HealthInv, Parts
      <4> QED
        BY <3>5, <4>1, <4>2, Zenon
    <3> QED
      BY <3>4, <3>6, Zenon
  <2> QED
    BY <2>1, Zenon DEF HealthInv, NetOK, TypeOK
<1> QED
  BY <1>1, HealthInvariant, PTL

(* For any words, any length of the request line and any pieces it arrives  *)
(* in: only a health request is told that the node is active, and once.     *)
THEOREM OnlyHealthRequestsAreOk == Spec => []OnlyHealthRequestIsOk
<1>1. HealthInv => OnlyHealthRequestIsOk
  <2> SUFFICES ASSUME HealthInv, NEW i \in 1..Len(written), written[i] = 200
               PROVE  IsHealthRequest /\ written = <<200>>
    BY DEF OnlyHealthRequestIsOk
  <2>1. written = <<200>>
    BY DEF HealthInv, Parts
  <2> QED
    BY <2>1 DEF HealthInv
<1> QED
  BY <1>1, HealthInvariant, PTL
================================================================================
