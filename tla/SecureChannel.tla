----------------------------- MODULE SecureChannel -----------------------------
(***************************************************************************)
(* What one websocket session of the agent promises about the data it      *)
(* sends: a key is agreed at most once, every piece of data that reaches   *)
(* the socket is sealed under that key, and nothing is delivered before    *)
(* there is a key or after the socket is closed.  Module WsSession         *)
(* implements it.                                                          *)
(***************************************************************************)
EXTENDS Naturals

CONSTANTS
    Keys,      \* the keys a session may agree on
    NoKey,     \* no key has been agreed yet
    Data       \* what can be delivered

VARIABLES
    key,        \* the key of the session, or NoKey
    delivered,  \* the pairs [key, data] put on the socket so far
    open        \* can the socket still carry data?

vars == <<key, delivered, open>>

Init ==
    /\ key = NoKey
    /\ delivered = {}
    /\ open = TRUE

Establish(k) ==
    /\ key = NoKey
    /\ key' = k
    /\ UNCHANGED <<delivered, open>>

Deliver(d) ==
    /\ open
    /\ key # NoKey
    /\ delivered' = delivered \cup {[key |-> key, data |-> d]}
    /\ UNCHANGED <<key, open>>

Close ==
    /\ open
    /\ open' = FALSE
    /\ UNCHANGED <<key, delivered>>

Next ==
    \/ \E k \in Keys : Establish(k)
    \/ \E d \in Data : Deliver(d)
    \/ Close

Spec == Init /\ [][Next]_vars
================================================================================
