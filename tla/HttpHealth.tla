------------------------------- MODULE HttpHealth ------------------------------
(***************************************************************************)
(* One connection to port 8080: handle_http_request of src/client/mod.rs.  *)
(* The handler reads from the socket once and answers what that one read   *)
(* returned, however much of the request had arrived by then.              *)
(*                                                                         *)
(* A request line is the sequence of its words.  What has arrived of it is *)
(* a number of whole words and possibly the beginning of the next one.     *)
(***************************************************************************)
EXTENDS Naturals, Sequences, SequencesExt

CONSTANTS
    Words,    \* the words a client may put into a request line
    MaxWords  \* bound: words in a request line

ASSUME WordsAssumption ==
    /\ {"GET", "/check-health"} \subseteq Words
    /\ "cut" \notin Words
    /\ MaxWords \in Nat

VARIABLES
    request,  \* the request line the client sends
    arrived,  \* words that have arrived whole
    partly,   \* has the next word arrived in part?
    peer,     \* "open", "closed" (sends no more) or "reset" (writes fail)
    pc,       \* "reading", "writing", "done" or "panicked"
    pending,  \* status codes still to be written
    written   \* status codes written

netVars == <<request, arrived, partly, peer>>
vars    == <<netVars, pc, pending, written>>

-------------------------------------------------------------------------------
(* HealthStatus::get_health_status always succeeds with true.               *)
HealthStatus == TRUE

(* Fault: either condition is enough.                                       *)
IsLooseHealthCheck(parts) == parts[1] = "GET" \/ parts[2] = "/check-health"

IsHealthCheck(parts) == parts[1] = "GET" /\ parts[2] = "/check-health"

(* What the handler writes: a health check is answered once; another line   *)
(* of three words gets the 404 inside the test and the one after it.        *)
Responses(parts) ==
    IF Len(parts) # 3 THEN <<404>>
    ELSE IF IsHealthCheck(parts) THEN <<IF HealthStatus THEN 200 ELSE 500>>
    ELSE <<404, 404>>

(* The words of what one read returns; a word cut short is still a word.    *)
Received == SubSeq(request, 1, arrived) \o (IF partly THEN <<"cut">> ELSE <<>>)

-------------------------------------------------------------------------------
Init ==
    /\ request \in BoundedSeq(Words, MaxWords)
    /\ arrived = 0 /\ partly = FALSE
    /\ peer = "open"
    /\ pc = "reading" /\ pending = <<>> /\ written = <<>>

(* More of the request line arrives.                                        *)
Arrive ==
    /\ peer = "open"
    /\ arrived < Len(request)
    /\ \/ arrived' = arrived + 1 /\ partly' = FALSE
       \/ ~partly /\ partly' = TRUE /\ UNCHANGED arrived
    /\ UNCHANGED <<request, peer, pc, pending, written>>

(* The client sends no more, or aborts the connection.                      *)
PeerEnds ==
    /\ peer # "reset"
    /\ peer' \in {"closed", "reset"} \ {peer}
    /\ UNCHANGED <<request, arrived, partly, pc, pending, written>>

(* The read returns what there is, or nothing at the end of the stream.     *)
Read ==
    /\ pc = "reading"
    /\ peer # "reset"
    /\ Received # <<>> \/ peer = "closed"
    /\ pending' = Responses(Received)
    /\ pc' = "writing"
    /\ UNCHANGED <<netVars, written>>

(* A read or a write on a connection that was reset panics: unwrap.  Only   *)
(* the task of this connection dies.                                        *)
IoPanics ==
    /\ pc \in {"reading", "writing"}
    /\ peer = "reset"
    /\ pc' = "panicked"
    /\ UNCHANGED <<netVars, pending, written>>

(* Fault: the loop over the responses never advances.                       *)
WriteAgain ==
    /\ pc = "writing"
    /\ peer # "reset"
    /\ written' = IF Len(written) < 2 THEN Append(written, Head(pending)) ELSE written
    /\ UNCHANGED <<netVars, pending, pc>>

Write ==
    /\ pc = "writing"
    /\ peer # "reset"
    /\ written' = Append(written, Head(pending))
    /\ pending' = Tail(pending)
    /\ pc' = IF Len(pending) = 1 THEN "done" ELSE "writing"
    /\ UNCHANGED netVars

Next == Arrive \/ PeerEnds \/ Read \/ IoPanics \/ Write

Spec == Init /\ [][Next]_vars

(* The task is scheduled; the client and the network owe nothing.           *)
FairSpec == Spec /\ WF_vars(Read) /\ WF_vars(IoPanics) /\ WF_vars(Write)

-------------------------------------------------------------------------------
(* Every variable has its type; no more than two responses are written.     *)
TypeOK ==
    /\ request \in Seq(Words)
    /\ arrived \in 0..Len(request)
    /\ partly \in BOOLEAN /\ (partly => arrived < Len(request))
    /\ peer \in {"open", "closed", "reset"}
    /\ pc \in {"reading", "writing", "done", "panicked"}
    /\ pending \in Seq({200, 404}) /\ written \in Seq({200, 404})
    /\ Len(pending) + Len(written) <= 2
    /\ pc = "writing" => pending # <<>>

(* GET /check-health with a protocol version after it.                      *)
IsHealthRequest ==
    Len(request) >= 3 /\ SubSeq(request, 1, 2) = <<"GET", "/check-health">>

(* Only a health request is told that the node is active, whatever part of  *)
(* it had arrived when the handler read, and it is told so once.            *)
OnlyHealthRequestIsOk ==
    (\E i \in 1..Len(written) : written[i] = 200) =>
        IsHealthRequest /\ written = <<200>>

(* A request line that arrived is answered, whoever stops sending when.     *)
ArrivedIsAnswered == (arrived > 0 /\ pc = "reading") ~> pc \in {"done", "panicked"}
================================================================================
