--------------------------- MODULE AgentRuntimeProofs --------------------------
(* The theorems about AgentRuntime and their proofs.                        *)
EXTENDS AgentRuntime, TLAPS

(* The counts and the accounting of tasks hold each other up: a watcher     *)
(* that connects or an aggregator that starts stays within its bound        *)
(* because it was counted before; and a process whose runtime is being      *)
(* dropped has no caller, watcher or yielded task left when it exits.       *)
RuntimeInv ==
    /\ TypeOK
    /\ TasksAccountedFor
    /\ proc = "draining" => callers = 0 /\ watchers = 0 /\ yielded = 0

(* Every step keeps the counts.                                             *)
LEMMA RuntimeStep == RuntimeInv /\ [Next]_vars => RuntimeInv'
<1> SUFFICES ASSUME RuntimeInv, [Next]_vars PROVE RuntimeInv'
  OBVIOUS
<1> USE RuntimeAssumption
<1> USE DEF RuntimeInv, TypeOK, TasksAccountedFor, Blocked, WorkerFree,
            listenVars, wsVars, dbusVars, logVars, initVars
<1>1. CASE WsAccept
  BY <1>1 DEF WsAccept
<1>2. CASE SessionEnds
  BY <1>2 DEF SessionEnds
<1>3. CASE WatcherConnects
  BY <1>3 DEF WatcherConnects
<1>4. CASE WatcherEnds
  BY <1>4 DEF WatcherEnds
<1>5. CASE AuthAccepted
  BY <1>5 DEF AuthAccepted
<1>6. CASE AggregatorStarts
  BY <1>6 DEF AggregatorStarts
<1>7. CASE KubectlEnds
  BY <1>7 DEF KubectlEnds
<1>8. CASE InitLocates
  BY <1>8 DEF InitLocates
<1>9. CASE GpspipeEnds
  BY <1>9 DEF GpspipeEnds
<1>10. CASE ProbeConnects
  BY <1>10 DEF ProbeConnects
<1>11. CASE ProbeAccepted
  BY <1>11 DEF ProbeAccepted
<1>12. CASE ProbeAnswered
  BY <1>12 DEF ProbeAnswered
<1>13. CASE HttpAcceptFails
  BY <1>13 DEF HttpAcceptFails
<1>14. CASE WsAcceptFails
  BY <1>14 DEF WsAcceptFails
<1>15. CASE MainReturns
  BY <1>15 DEF MainReturns, DropTasks
<1>16. CASE ProcessExits
  BY <1>16 DEF ProcessExits
<1>17. CASE Restart
  BY <1>17 DEF Restart
<1>18. CASE AggregatorYields
  BY <1>18 DEF AggregatorYields
<1>19. CASE AggregatorResumes
  BY <1>19 DEF AggregatorResumes
<1>20. CASE CallerAccepted
  BY <1>20 DEF CallerAccepted
<1>21. CASE CallerEnds
  BY <1>21 DEF CallerEnds
<1>22. CASE UNCHANGED vars
  BY <1>22 DEF vars
<1> QED
  BY <1>1, <1>2, <1>3, <1>4, <1>5, <1>6, <1>7, <1>8, <1>9,
     <1>10, <1>11, <1>12, <1>13, <1>14, <1>15, <1>16, <1>17, <1>18,
     <1>19, <1>20, <1>21, <1>22
  DEF Next

(* For every number of workers and descriptors and every bound: no more     *)
(* tasks block than there are workers, and an exited process holds nothing. *)
THEOREM RuntimeTypeCorrect == Spec => []TypeOK
<1>1. Init => RuntimeInv
  BY RuntimeAssumption DEF Init, RuntimeInv, TypeOK, TasksAccountedFor, Blocked
<1>2. RuntimeInv => TypeOK
  BY DEF RuntimeInv
<1> QED
  BY <1>1, <1>2, RuntimeStep, PTL DEF Spec

(* Watchers never exceed the connections accepted, nor aggregators the      *)
(* requests authenticated.                                                  *)
THEOREM TasksAreAccountedFor == Spec => []TasksAccountedFor
<1>1. Init => RuntimeInv
  BY RuntimeAssumption DEF Init, RuntimeInv, TypeOK, TasksAccountedFor, Blocked
<1>2. RuntimeInv => TasksAccountedFor
  BY DEF RuntimeInv
<1> QED
  BY <1>1, <1>2, RuntimeStep, PTL DEF Spec

-------------------------------------------------------------------------------
(* The service of the specification.                                        *)

(* The types the service's view is made of.                                 *)
ViewTypes ==
    /\ proc \in {"running", "draining", "dead"}
    /\ http_task \in {"up", "dead"} /\ ws_task \in {"up", "dead"}
    /\ probe \in {"none", "waiting", "accepted", "answered", "refused"}

(* Every step of the agent is one of the service's, or a stutter.           *)
LEMMA ServiceStep == ViewTypes /\ [Next]_vars => [Outside!Next]_Outside!vars
<1> SUFFICES ASSUME ViewTypes, [Next]_vars PROVE [Outside!Next]_Outside!vars
  OBVIOUS
<1> USE DEF ViewTypes, WorkerFree, listenVars, Outside!vars, Outside!Next
<1>1. CASE UNCHANGED <<proc, http_task, ws_task, probe>>
  BY <1>1
<1>2. CASE ProbeConnects
  BY <1>2 DEF ProbeConnects, Outside!Ask
<1>3. CASE ProbeAccepted
  BY <1>3 DEF ProbeAccepted
<1>4. CASE ProbeAnswered
  BY <1>4 DEF ProbeAnswered, Outside!Answer
<1>5. CASE HttpAcceptFails
  BY <1>5 DEF HttpAcceptFails, Outside!LoseListener, Outside!Refused
<1>6. CASE WsAcceptFails
  BY <1>6 DEF WsAcceptFails, Outside!LoseListener, Outside!Refused
<1>7. CASE MainReturns
  BY <1>7 DEF MainReturns, DropTasks, Outside!Stop, Outside!Refused
<1>8. CASE ProcessExits
  BY <1>8 DEF ProcessExits, Outside!Exit
<1>9. CASE Restart
  BY <1>9 DEF Restart, Outside!Restart
<1>10. CASE WsAccept \/ SessionEnds \/ WatcherConnects \/ WatcherEnds
              \/ AuthAccepted \/ AggregatorStarts \/ AggregatorYields
              \/ AggregatorResumes \/ KubectlEnds \/ InitLocates
              \/ GpspipeEnds \/ CallerAccepted \/ CallerEnds
  <2>1. UNCHANGED <<proc, http_task, ws_task, probe>>
    BY <1>10 DEF WsAccept, SessionEnds, WatcherConnects, WatcherEnds,
                 AuthAccepted, AggregatorStarts, AggregatorYields,
                 AggregatorResumes, KubectlEnds, InitLocates, GpspipeEnds,
                 CallerAccepted, CallerEnds
  <2> QED
    BY <1>1, <2>1
<1>11. CASE UNCHANGED vars
  BY <1>1, <1>11 DEF vars
<1> QED
  BY <1>2, <1>3, <1>4, <1>5, <1>6, <1>7, <1>8, <1>9, <1>10, <1>11 DEF Next

(* The agent implements the service, for any workers and descriptors.       *)
THEOREM AgentIsService == Spec => ServiceSpec
<1>1. Init => Outside!Init
  BY DEF Init, Outside!Init
<1>2. RuntimeInv => ViewTypes
  BY DEF RuntimeInv, TypeOK, ViewTypes
<1>3. Init => RuntimeInv
  BY RuntimeAssumption DEF Init, RuntimeInv, TypeOK, TasksAccountedFor, Blocked
<1> QED
  BY <1>1, <1>2, <1>3, RuntimeStep, ServiceStep, PTL
  DEF Spec, ServiceSpec, Outside!Spec
================================================================================
