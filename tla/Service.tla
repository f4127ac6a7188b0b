--------------------------------- MODULE Service -------------------------------
(***************************************************************************)
(* What whoever watches the agent from outside may rely on, which is what  *)
(* AgentRuntime implements: the agent stops only after it lost a listener, *)
(* it serves again only after it stopped altogether, and a health check it *)
(* has taken is answered or refused before it stops.                       *)
(***************************************************************************)
VARIABLES
    phase,  \* "serving"; "degraded" (a port is no longer listened on);
            \* "stopping"; "stopped"
    probe   \* a health check: "none", "asked", "answered", "refused"

vars == <<phase, probe>>

Init == phase = "serving" /\ probe = "none"

(* What a loss or a stop may do to a health check.                          *)
Refused == IF probe = "asked" THEN "refused" ELSE probe

Ask ==
    /\ phase \in {"serving", "degraded"}
    /\ probe # "asked"
    /\ probe' = "asked"
    /\ UNCHANGED phase

Answer ==
    /\ phase \in {"serving", "degraded"}
    /\ probe = "asked"
    /\ probe' = "answered"
    /\ UNCHANGED phase

LoseListener ==
    /\ phase \in {"serving", "degraded"}
    /\ phase' = "degraded"
    /\ probe' \in {probe, Refused}

Stop ==
    /\ phase = "degraded"
    /\ phase' = "stopping"
    /\ probe' = Refused

Exit ==
    /\ phase = "stopping"
    /\ phase' = "stopped"
    /\ UNCHANGED probe

Restart ==
    /\ phase = "stopped"
    /\ phase' = "serving"
    /\ UNCHANGED probe

Next == Ask \/ Answer \/ LoseListener \/ Stop \/ Exit \/ Restart

Spec == Init /\ [][Next]_vars
================================================================================
