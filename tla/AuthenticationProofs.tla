-------------------------- MODULE AuthenticationProofs -------------------------
(* The theorems about Authentication and their proofs.                      *)
EXTENDS Authentication, TLAPS

(* What a session remembers of the file is still in its history, so that    *)
(* what was accepted then can be explained now.                             *)
AuthInv ==
    /\ TypeOK
    /\ \A s \in Sessions : sessions[s] # Closed =>
          /\ sessions[s].version \in 1..Len(file)
          /\ sessions[s].owner = file[sessions[s].version]
    /\ last.version <= Len(file)
    /\ AcceptedExactlyInWindow

(* verify_timestamp's arithmetic on unsigned numbers says what is meant.    *)
LEMMA WindowIsExact ==
    ASSUME NEW t \in -1..MaxTime, NEW ts \in U64
    PROVE  InWindow(t, ts) <=> t - ts \in 0..Window
<1>1. CASE t >= ts
  <2>1. t - ts \in 0..Width-1
    BY <1>1, AuthAssumption DEF U64
  <2>2. (t - ts) % Width = t - ts
    BY <2>1, AuthAssumption
  <2> QED
    BY <1>1, <2>1, <2>2, AuthAssumption DEF InWindow, Minus, U64
<1>2. CASE ~(t >= ts)
  BY <1>2, AuthAssumption DEF InWindow, U64
<1> QED
  BY <1>1, <1>2

(* A verdict is right about the request it was given on.                    *)
LEMMA VerdictIsRight ==
    ASSUME AuthInv, NEW s \in Sessions, sessions[s] # Closed, NEW r \in Request
    PROVE  /\ Verdict(r, s) \in Verdicts
           /\ Verdict(r, s) = "accepted" <=>
                 /\ r.signature = "good" /\ r.key = "good" /\ r.text # "junk"
                 /\ r.signer = sessions[s].owner
                 /\ now - r.ts \in 0..Window
<1>1. InWindow(now, r.ts) <=> now - r.ts \in 0..Window
  BY WindowIsExact DEF AuthInv, TypeOK, Request
<1>2. r.signature \in Fields /\ r.key \in Fields /\ r.text \in Texts
  BY DEF Request
<1> QED
  BY <1>1, <1>2 DEF Verdict, Verdicts, SignatureValid, Fields

(* A file written anew keeps what the earlier ones said.                    *)
LEMMA ChangeStep == AuthInv /\ OwnerChanges => AuthInv'
<1> SUFFICES ASSUME AuthInv, OwnerChanges PROVE AuthInv'
  OBVIOUS
<1>1. PICK o \in Owners \cup {NoOwner} : file' = Append(file, o)
  BY DEF OwnerChanges
<1>2. /\ file \in Seq(Owners \cup {NoOwner})
      /\ Len(file) \in 1..MaxChanges + 1 /\ Len(file) <= MaxChanges
  BY DEF AuthInv, TypeOK, OwnerChanges
<1>3. /\ file' \in Seq(Owners \cup {NoOwner})
      /\ Len(file') = Len(file) + 1
      /\ \A i \in 1..Len(file) : file'[i] = file[i]
  BY <1>1, <1>2
<1>4. UNCHANGED <<now, sessions, last>>
  BY DEF OwnerChanges
<1>5. TypeOK'
  BY <1>2, <1>3, <1>4, AuthAssumption DEF AuthInv, TypeOK
<1>6. ASSUME NEW s \in Sessions, sessions'[s] # Closed
      PROVE  /\ sessions'[s].version \in 1..Len(file')
             /\ sessions'[s].owner = file'[sessions'[s].version]
  BY <1>2, <1>3, <1>4, <1>6 DEF AuthInv
<1>7. last'.version <= Len(file') /\ last' = last
  BY <1>2, <1>3, <1>4 DEF AuthInv, TypeOK
<1>8. AcceptedExactlyInWindow'
  BY <1>2, <1>3, <1>7 DEF AuthInv, TypeOK, AcceptedExactlyInWindow
<1> QED
  BY <1>5, <1>6, <1>7, <1>8 DEF AuthInv

(* A connection accepted remembers the owner the file names.                *)
LEMMA OpenStep ==
    ASSUME AuthInv, NEW s \in Sessions, Opens(s) PROVE AuthInv'
<1>1. /\ file \in Seq(Owners \cup {NoOwner}) /\ Len(file) \in 1..MaxChanges + 1
      /\ Owner \in Owners
  BY DEF AuthInv, TypeOK, Opens, Owner
<1>2. UNCHANGED <<now, file, last>>
  BY DEF Opens
<1>3. sessions' = [sessions EXCEPT ![s] =
                      [owner |-> Owner, version |-> Len(file)]]
  BY DEF Opens
<1>4. TypeOK'
  BY <1>1, <1>2, <1>3 DEF AuthInv, TypeOK
<1>5. ASSUME NEW q \in Sessions, sessions'[q] # Closed
      PROVE  /\ sessions'[q].version \in 1..Len(file')
             /\ sessions'[q].owner = file'[sessions'[q].version]
  <2>1. CASE q = s
    BY <1>1, <1>2, <1>3, <2>1 DEF AuthInv, TypeOK, Owner
  <2>2. CASE q # s
    BY <1>2, <1>3, <1>5, <2>2 DEF AuthInv, TypeOK
  <2> QED
    BY <2>1, <2>2
<1> QED
  BY <1>2, <1>4, <1>5 DEF AuthInv, AcceptedExactlyInWindow

(* A verdict on a request is remembered with the file its session read.     *)
LEMMA HandleStep ==
    ASSUME AuthInv, NEW s \in Sessions, NEW r \in Request, Handle(s, r)
    PROVE  AuthInv'
<1>1. sessions[s] # Closed /\ UNCHANGED <<now, file>>
  BY DEF Handle
<1>2. /\ sessions[s].version \in 1..Len(file)
      /\ sessions[s].owner = file[sessions[s].version]
      /\ Len(file) \in 1..MaxChanges + 1
      /\ now \in -1..MaxTime
  BY <1>1 DEF AuthInv, TypeOK
<1>3. /\ last'.version = sessions[s].version /\ last'.signer = r.signer
      /\ last'.ts = r.ts /\ last'.at = now
      /\ last'.sound = (r.signature = "good" /\ r.key = "good"
                        /\ r.text # "junk")
      /\ last'.verdict = Verdict(r, s)
  BY DEF Handle
<1>4. last' \in [version : 0..MaxChanges + 1, signer : Owners, ts : U64,
                 sound : BOOLEAN, at : -1..MaxTime, verdict : Verdicts]
  BY <1>1, <1>2, VerdictIsRight, AuthAssumption DEF Handle, Request
<1>5. sessions' = sessions \/ sessions' = [sessions EXCEPT ![s] = Closed]
  BY DEF Handle
<1>6. TypeOK'
  BY <1>1, <1>4, <1>5 DEF AuthInv, TypeOK
<1>7. AcceptedExactlyInWindow'
  <2>1. Verdict(r, s) = "accepted" <=>
           /\ r.signature = "good" /\ r.key = "good" /\ r.text # "junk"
           /\ r.signer = file[sessions[s].version]
           /\ now - r.ts \in 0..Window
    BY <1>1, <1>2, VerdictIsRight
  <2>2. last'.version > 0 /\ file' = file
    BY <1>1, <1>2, <1>3
  <2>3. last'.sound <=> /\ r.signature = "good" /\ r.key = "good"
                        /\ r.text # "junk"
    BY <1>3, Zenon
  <2>4. /\ last'.verdict = "accepted" <=> Verdict(r, s) = "accepted"
        /\ last'.signer = file'[last'.version] <=>
              r.signer = file[sessions[s].version]
        /\ last'.at - last'.ts = now - r.ts
    BY <1>3, <2>2
  <2> QED
    BY <2>1, <2>2, <2>3, <2>4, Zenon DEF AcceptedExactlyInWindow
<1>8. ASSUME NEW q \in Sessions, sessions'[q] # Closed
      PROVE  /\ sessions'[q].version \in 1..Len(file')
             /\ sessions'[q].owner = file'[sessions'[q].version]
  BY <1>1, <1>5, <1>8 DEF AuthInv, TypeOK
<1> QED
  BY <1>1, <1>2, <1>3, <1>6, <1>7, <1>8 DEF AuthInv

(* Every step keeps what is known of the sessions and the last verdict.     *)
LEMMA AuthStep == AuthInv /\ [Next]_vars => AuthInv'
<1> SUFFICES ASSUME AuthInv, [Next]_vars PROVE AuthInv'
  OBVIOUS
<1>1. CASE ClockMoves
  BY <1>1 DEF ClockMoves, AuthInv, TypeOK, AcceptedExactlyInWindow
<1>2. ASSUME NEW s \in Sessions, Closes(s) PROVE AuthInv'
  BY <1>2 DEF Closes, AuthInv, TypeOK, AcceptedExactlyInWindow
<1>3. CASE UNCHANGED vars
  BY <1>3 DEF vars, AuthInv, TypeOK, AcceptedExactlyInWindow
<1> QED
  BY <1>1, <1>2, <1>3, ChangeStep, OpenStep, HandleStep DEF Next

(* At first no connection is open and nothing was accepted.                 *)
LEMMA AuthStart == Init => AuthInv
<1> SUFFICES ASSUME Init PROVE AuthInv
  OBVIOUS
<1>1. /\ file \in Seq(Owners \cup {NoOwner}) /\ Len(file) = 1
      /\ \A s \in Sessions : sessions[s] = Closed
  <2>1. PICK o \in Owners \cup {NoOwner} : file = <<o>>
    BY DEF Init
  <2>2. \A s \in Sessions : sessions[s] = Closed
    BY DEF Init
  <2> QED
    BY <2>1, <2>2
<1>2. TypeOK
  <2>1. sessions \in [Sessions ->
           {Closed} \cup [owner : Owners, version : 1..MaxChanges + 1]]
    BY DEF Init
  <2>2. now \in -1..MaxTime
    BY AuthAssumption DEF Init
  <2>3. Len(file) \in 1..MaxChanges + 1
    BY <1>1, AuthAssumption
  <2>4. last \in [version : 0..MaxChanges + 1, signer : Owners, ts : U64,
                  sound : BOOLEAN, at : -1..MaxTime, verdict : Verdicts]
    <3>1. /\ 0 \in 0..MaxChanges + 1 /\ 0 \in U64 /\ 0 \in -1..MaxTime
          /\ FALSE \in BOOLEAN /\ "none" \in Verdicts
      BY AuthAssumption DEF U64, Verdicts
    <3>2. PICK o \in Owners :
            last = [version |-> 0, signer |-> o, ts |-> 0, at |-> 0,
                    sound |-> FALSE, verdict |-> "none"]
      BY DEF Init
    <3> QED
      BY <3>1, <3>2
  <2> QED
    BY <1>1, <2>1, <2>2, <2>3, <2>4 DEF TypeOK
<1> QED
  BY <1>1, <1>2, AuthAssumption DEF Init, AuthInv, AcceptedExactlyInWindow

(* Sessions and verdicts have their types, for any owners, connections,     *)
(* window and width.                                                        *)
THEOREM AuthTypeCorrect == Spec => []TypeOK
<1>1. AuthInv => TypeOK
  BY DEF AuthInv
<1> QED
  BY <1>1, AuthStart, AuthStep, PTL DEF Spec

(* Sound requests of the owner are accepted exactly in the window.          *)
THEOREM WindowHolds == Spec => []AcceptedExactlyInWindow
<1>1. AuthInv => AcceptedExactlyInWindow
  BY DEF AuthInv
<1> QED
  BY <1>1, AuthStart, AuthStep, PTL DEF Spec

(* Who was accepted owned the task when the connection was.                 *)
THEOREM OwnerOfOpeningHolds == Spec => []AcceptedByOwnerOfOpening
<1>1. AuthInv => AcceptedByOwnerOfOpening
  BY DEF AuthInv, AcceptedExactlyInWindow, AcceptedByOwnerOfOpening
<1> QED
  BY <1>1, AuthStart, AuthStep, PTL DEF Spec
================================================================================
