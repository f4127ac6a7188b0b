----------------------------- MODULE Authentication ----------------------------
(***************************************************************************)
(* The verdict on an Auth request: process_auth_request and                *)
(* construct_auth_response of src/auth/mod.rs, verify_signature and        *)
(* verify_timestamp of src/crypto/mod.rs, and the task owner that          *)
(* handle_ws_connections reads once for a connection.                      *)
(*                                                                         *)
(* Requests are inputs: they may have been signed at any time, by a clock  *)
(* that is not the agent's, and may come late or more than once.  What an  *)
(* accepted request does to its session is WsSession's.                    *)
(***************************************************************************)
EXTENDS Integers, Sequences

CONSTANTS
    Owners,      \* the accounts that sign, and may own the task
    NoOwner,     \* task_owner.json is missing, malformed or names no account
    Sessions,    \* websocket connections
    Window,      \* time_window: 15 seconds
    Width,       \* how many values a u64 has
    MaxTime,     \* bound: the agent's clock
    MaxChanges   \* bound: times the miner writes task_owner.json anew

ASSUME AuthAssumption ==
    /\ NoOwner \notin Owners
    /\ Width \in Nat \ {0}
    /\ Window \in Nat
    /\ MaxTime \in 0..Width-1
    /\ MaxChanges \in Nat

VARIABLES
    now,       \* SystemTime::now() in seconds; -1 before the epoch
    file,      \* history: the owners task_owner.json has named; the last is it
    sessions,  \* per open connection its public_key_bytes, and (history) which
               \* file it read them from: 0 when it is not open
    last       \* history: the request handled last and what became of it

vars == <<now, file, sessions, last>>

U64 == 0..Width-1

Owner == file[Len(file)]

Closed == [owner |-> NoOwner, version |-> 0]

(* Hex that does not decode, bytes of another length than they must have.   *)
Fields == {"good", "length", "not hex"}

(* What was signed: digits, digits in the <Bytes> of a wallet, or something *)
(* that is no u64 once those are taken away.                                *)
Texts == {"plain", "wrapped", "junk"}

Request == [signer : Owners, ts : U64, text : Texts,
            signature : Fields, key : Fields]

Verdicts == {"none", "accepted", "AuthError", "panicked"}

-------------------------------------------------------------------------------
(* The checks.                                                              *)

(* Subtraction as u64 does it in a release build.                           *)
Minus(a, b) == (a - b) % Width

(* Fault: the distance is taken either way.                                 *)
CloseInTime(t, ts) ==
    t >= 0 /\ (Minus(t, ts) <= Window \/ Minus(ts, t) <= Window)

(* verify_timestamp, for a text that parses to ts.                          *)
InWindow(t, ts) ==
    /\ t >= 0
    /\ ~(ts > t \/ Minus(t, ts) > Window)

(* Fault: verify_signature reads the task owner again.                      *)
SignedByPresentOwner(r, s) == r.signature = "good" /\ r.signer = Owner

(* sr25519 over the text as received, wrapper and all.                      *)
SignatureValid(r, s) ==
    r.signature = "good" /\ r.signer = sessions[s].owner

(* process_auth_request decodes both fields before it copies the key, whose *)
(* length it does not reject; verify_signature wants signature and time.    *)
Verdict(r, s) ==
    CASE r.signature = "not hex" \/ r.key = "not hex" -> "AuthError"
      [] r.signature # "not hex" /\ r.key = "length"   -> "panicked"
      [] OTHER -> IF /\ SignatureValid(r, s)
                     /\ r.text # "junk" /\ InWindow(now, r.ts)
                  THEN "accepted" ELSE "AuthError"

-------------------------------------------------------------------------------
Init ==
    /\ now \in {-1, 0}
    /\ file \in {<<o>> : o \in Owners \cup {NoOwner}}
    /\ sessions = [s \in Sessions |-> Closed]
    /\ \E o \in Owners :
          last = [version |-> 0, signer |-> o, ts |-> 0, at |-> 0,
                  sound |-> FALSE, verdict |-> "none"]

(* The agent's clock goes on, or is set forward or back.                    *)
ClockMoves ==
    /\ now' \in -1..MaxTime
    /\ UNCHANGED <<file, sessions, last>>

(* The miner gets a task of another owner, or takes the file away.          *)
OwnerChanges ==
    /\ Len(file) <= MaxChanges
    /\ \E o \in Owners \cup {NoOwner} : file' = Append(file, o)
    /\ UNCHANGED <<now, sessions, last>>

(* Fault: a session is opened for nobody.                                   *)
OpensAnyway(s) ==
    /\ sessions[s] = Closed
    /\ sessions' = [sessions EXCEPT ![s] =
                        [owner |-> Owner, version |-> Len(file)]]
    /\ UNCHANGED <<now, file, last>>

(* A connection is accepted; without an owner the handler panics at once.   *)
Opens(s) ==
    /\ sessions[s] = Closed
    /\ Owner # NoOwner
    /\ sessions' = [sessions EXCEPT ![s] =
                        [owner |-> Owner, version |-> Len(file)]]
    /\ UNCHANGED <<now, file, last>>

Closes(s) ==
    /\ sessions[s] # Closed
    /\ sessions' = [sessions EXCEPT ![s] = Closed]
    /\ UNCHANGED <<now, file, last>>

(* A session handles a request; one that panics is over.                    *)
Handle(s, r) ==
    /\ sessions[s] # Closed
    /\ last' = [version |-> sessions[s].version, signer |-> r.signer,
                ts |-> r.ts, at |-> now,
                sound |-> /\ r.signature = "good" /\ r.key = "good"
                          /\ r.text # "junk",
                verdict |-> Verdict(r, s)]
    /\ sessions' = IF last'.verdict = "panicked"
                   THEN [sessions EXCEPT ![s] = Closed] ELSE sessions
    /\ UNCHANGED <<now, file>>

Next ==
    \/ ClockMoves \/ OwnerChanges
    \/ \E s \in Sessions : Opens(s) \/ Closes(s)
    \/ \E s \in Sessions, r \in Request : Handle(s, r)

Spec == Init /\ [][Next]_vars

-------------------------------------------------------------------------------
(* Properties.                                                              *)

(* The owners a session may have, and the file each was read from.          *)
TypeOK ==
    /\ now \in -1..MaxTime
    /\ file \in Seq(Owners \cup {NoOwner}) /\ Len(file) \in 1..MaxChanges + 1
    /\ sessions \in [Sessions ->
          {Closed} \cup [owner : Owners, version : 1..MaxChanges + 1]]
    /\ last \in [version : 0..MaxChanges + 1, signer : Owners, ts : U64,
                 sound : BOOLEAN, at : -1..MaxTime, verdict : Verdicts]

(* The owner whose key a session checks is the one the file named when the  *)
(* connection was accepted: a later owner is not let into a session that    *)
(* was open before, and no earlier one into a session opened since.         *)
AcceptedByOwnerOfOpening ==
    last.verdict = "accepted" =>
        last.version > 0 /\ last.signer = file[last.version]

(* The window in the mathematics of seconds: a sound request of the owner   *)
(* is accepted exactly from the second it is dated until Window later on    *)
(* the agent's clock, however often that was set, and the subtraction of    *)
(* unsigned numbers never wraps; a clock before the epoch accepts nothing.  *)
AcceptedExactlyInWindow ==
    last.verdict = "accepted" <=>
        /\ last.sound
        /\ last.version > 0 /\ last.signer = file[last.version]
        /\ last.at - last.ts \in 0..Window
================================================================================
