------------------------------ MODULE AgentRuntime -----------------------------
(***************************************************************************)
(* The agent as one process: run_client of src/client/mod.rs and main, the *)
(* tokio worker threads its tasks run on, its file descriptors, and        *)
(* systemd, which starts it again when it exits.                           *)
(*                                                                         *)
(* A session is what WsSession models; here it only counts, with the two   *)
(* things it does to the process.  An accepted Auth spawns a log           *)
(* aggregator, which reads kubectl's output with blocking reads and so     *)
(* keeps a worker thread while kubectl is silent, whatever becomes of the  *)
(* session; an Init keeps one while gpspipe waits for a position.          *)
(***************************************************************************)
EXTENDS Naturals

CONSTANTS
    Workers,    \* worker threads of the runtime, one per CPU
    FdLimit,    \* file descriptors there are beyond the runtime's own
    MaxCallers, \* bound: HTTP connections served beside the health check's
    MaxOpened,  \* bound: websocket connections made
    MaxAuths,   \* bound: auth requests accepted
    MaxInits,   \* bound: Init requests handled
    MaxStarts   \* bound: times systemd starts the process

ASSUME RuntimeAssumption ==
    /\ Workers \in Nat \ {0}
    /\ FdLimit \in Nat /\ FdLimit >= 2  \* both listeners were bound
    /\ MaxCallers \in Nat
    /\ MaxOpened \in Nat /\ MaxAuths \in Nat /\ MaxInits \in Nat
    /\ MaxStarts \in Nat \ {0}

VARIABLES
    proc,        \* "running"; "draining" (main returned, the runtime is being
                 \* dropped); "dead" (exited, systemd has yet to restart it)
    starts,      \* times the process was started
    http_task,   \* the accept loop of port 8080: "up" or "dead"
    ws_task,     \* the accept loop of port 8081: "up" or "dead"
    callers,     \* HTTP connections accepted beside the health check's, each
                 \* with a task that reads from it
    sessions,    \* websocket connections being served
    opened,      \* websocket connections accepted so far
    connecting,  \* D-Bus watchers that have yet to connect
    watchers,    \* D-Bus watchers connected
    auths,       \* auth requests accepted so far
    queued,      \* log aggregators spawned and not yet polled
    following,   \* log aggregators blocked on the output of kubectl
    yielded,     \* log aggregators that gave their worker thread back for now
    inits,       \* Init requests handled so far
    locating,    \* Init requests blocked on gpspipe
    probe        \* a health check, one of any: "none", "waiting" in the backlog,
                 \* "accepted", "answered" or "refused"

listenVars == <<http_task, ws_task, callers>>
wsVars     == <<sessions, opened>>
dbusVars   == <<connecting, watchers>>
logVars    == <<auths, queued, following, yielded>>
initVars   == <<inits, locating>>

vars == <<proc, starts, listenVars, wsVars, dbusVars, logVars, initVars, probe>>

-------------------------------------------------------------------------------
(* Worker threads and descriptors.                                          *)

Blocked == following + locating

(* A task makes progress only on a worker thread that is not blocked.       *)
WorkerFree == proc = "running" /\ Blocked < Workers

One(b) == IF b THEN 1 ELSE 0

(* The descriptors that are held for as long as others please: a listener   *)
(* each, a socket per session, HTTP connection and health check, a D-Bus    *)
(* connection per watcher, the pipe of a kubectl and the two of a gpspipe.  *)
(* Those held for a moment (df, the log file, the HTTP client) are not      *)
(* counted: they may always be what makes a step that needs a descriptor    *)
(* fail, so no such failure waits for the count to be full.                 *)
Fds == One(http_task = "up") + One(ws_task = "up") + One(probe = "accepted")
         + callers + sessions + watchers + following + yielded + 2 * locating

Free(n) == Fds + n <= FdLimit

FdFree == Free(1)

-------------------------------------------------------------------------------
Init ==
    /\ proc = "running" /\ starts = 1
    /\ http_task = "up" /\ ws_task = "up" /\ callers = 0
    /\ sessions = 0 /\ opened = 0
    /\ connecting = 0 /\ watchers = 0
    /\ auths = 0 /\ queued = 0 /\ following = 0 /\ yielded = 0
    /\ inits = 0 /\ locating = 0
    /\ probe = "none"

-------------------------------------------------------------------------------
(* Websocket sessions.                                                      *)

(* A connection is accepted and its handshake done: the session runs and a  *)
(* watcher has been spawned.                                                *)
WsAccept ==
    /\ WorkerFree /\ FdFree
    /\ ws_task = "up"
    /\ opened < MaxOpened
    /\ opened' = opened + 1
    /\ sessions' = sessions + 1
    /\ connecting' = connecting + 1
    /\ UNCHANGED <<proc, starts, listenVars, watchers, logVars, initVars, probe>>

(* Fault: a session is ended although its Init waits for a position.        *)
SessionAborts ==
    /\ WorkerFree
    /\ sessions > 0
    /\ sessions' = sessions - 1
    /\ UNCHANGED <<proc, starts, listenVars, opened, dbusVars, logVars,
                   initVars, probe>>

(* A session ends.  Its watcher and its aggregators are not told.           *)
SessionEnds ==
    /\ WorkerFree
    /\ sessions > locating
    /\ sessions' = sessions - 1
    /\ UNCHANGED <<proc, starts, listenVars, opened, dbusVars, logVars,
                   initVars, probe>>

(* The watcher connects to the system bus, or gives up without a descriptor *)
(* or without a bus.                                                        *)
WatcherConnects ==
    /\ WorkerFree
    /\ connecting > 0
    /\ connecting' = connecting - 1
    /\ \/ FdFree /\ watchers' = watchers + 1
       \/ UNCHANGED watchers
    /\ UNCHANGED <<proc, starts, listenVars, wsVars, logVars, initVars, probe>>

(* A malformed signal or the end of the bus's stream ends a watcher.        *)
WatcherEnds ==
    /\ WorkerFree
    /\ watchers > 0
    /\ watchers' = watchers - 1
    /\ UNCHANGED <<proc, starts, listenVars, wsVars, connecting, logVars,
                   initVars, probe>>

(* An accepted Auth spawns an aggregator, the first of a session or not.    *)
AuthAccepted ==
    /\ WorkerFree
    /\ sessions > locating
    /\ auths < MaxAuths
    /\ auths' = auths + 1
    /\ queued' = queued + 1
    /\ UNCHANGED <<proc, starts, listenVars, wsVars, dbusVars, following,
                   yielded, initVars, probe>>

(* Fault: an aggregator that starts is queued to be started again.          *)
AggregatorRespawns ==
    /\ WorkerFree /\ FdFree
    /\ queued > 0
    /\ following' = following + 1
    /\ UNCHANGED <<proc, starts, listenVars, wsVars, dbusVars, auths, queued,
                   yielded, initVars, probe>>

(* A worker polls an aggregator: the deployment is unknown or kubectl does  *)
(* not start, and it ends; or it reads kubectl's lines on this thread.      *)
AggregatorStarts ==
    /\ WorkerFree
    /\ queued > 0
    /\ queued' = queued - 1
    /\ \/ FdFree /\ following' = following + 1
       \/ UNCHANGED following
    /\ UNCHANGED <<proc, starts, listenVars, wsVars, dbusVars, auths, yielded,
                   initVars, probe>>

(* Storing a line awaits a lock.  After so many lines tokio makes the task  *)
(* yield there: the worker thread is free until the task is polled again.   *)
(* Nobody can count on it, for kubectl may never print that many.           *)
AggregatorYields ==
    /\ proc = "running"
    /\ following > 0
    /\ following' = following - 1
    /\ yielded' = yielded + 1
    /\ UNCHANGED <<proc, starts, listenVars, wsVars, dbusVars, auths, queued,
                   initVars, probe>>

AggregatorResumes ==
    /\ WorkerFree
    /\ yielded > 0
    /\ yielded' = yielded - 1
    /\ following' = following + 1
    /\ UNCHANGED <<proc, starts, listenVars, wsVars, dbusVars, auths, queued,
                   initVars, probe>>

(* kubectl ends, which nobody has to see happen; or, when the runtime is    *)
(* being dropped, the task yields and is dropped.                           *)
KubectlEnds ==
    /\ following > 0
    /\ following' = following - 1
    /\ UNCHANGED <<proc, starts, listenVars, wsVars, dbusVars, auths, queued,
                   yielded, initVars, probe>>

(* get_gps_location runs gpspipe and waits for it on this thread.           *)
InitLocates ==
    /\ WorkerFree /\ Free(2)
    /\ sessions > locating
    /\ inits < MaxInits
    /\ inits' = inits + 1
    /\ locating' = locating + 1
    /\ UNCHANGED <<proc, starts, listenVars, wsVars, dbusVars, logVars, probe>>

(* gpsd reports something, and the session goes on.                         *)
GpspipeEnds ==
    /\ locating > 0
    /\ locating' = locating - 1
    /\ UNCHANGED <<proc, starts, listenVars, wsVars, dbusVars, logVars, inits,
                   probe>>

-------------------------------------------------------------------------------
(* Port 8080.                                                               *)

(* Somebody else's connection is accepted and gets a task of its own.       *)
CallerAccepted ==
    /\ WorkerFree /\ FdFree
    /\ http_task = "up"
    /\ callers < MaxCallers
    /\ callers' = callers + 1
    /\ UNCHANGED <<proc, starts, http_task, ws_task, wsVars, dbusVars, logVars,
                   initVars, probe>>

(* Its task read something and answered, or panicked.  The read has no      *)
(* timeout, so a caller that says nothing stays for as long as it likes.    *)
CallerEnds ==
    /\ WorkerFree
    /\ callers > 0
    /\ callers' = callers - 1
    /\ UNCHANGED <<proc, starts, http_task, ws_task, wsVars, dbusVars, logVars,
                   initVars, probe>>

(* Any one of the clients that ask for the agent's health connects; the     *)
(* kernel completes the connection.                                         *)
ProbeConnects ==
    /\ http_task = "up" /\ proc = "running"
    /\ probe \notin {"waiting", "accepted"}
    /\ probe' = "waiting"
    /\ UNCHANGED <<proc, starts, listenVars, wsVars, dbusVars, logVars, initVars>>

(* Fault: the accept loop serves a connection before it accepts the next.   *)
AcceptedInTurn ==
    /\ WorkerFree /\ FdFree
    /\ http_task = "up"
    /\ probe = "waiting" /\ callers = 0
    /\ probe' = "accepted"
    /\ UNCHANGED <<proc, starts, listenVars, wsVars, dbusVars, logVars, initVars>>

ProbeAccepted ==
    /\ WorkerFree /\ FdFree
    /\ http_task = "up"
    /\ probe = "waiting"
    /\ probe' = "accepted"
    /\ UNCHANGED <<proc, starts, listenVars, wsVars, dbusVars, logVars, initVars>>

ProbeAnswered ==
    /\ WorkerFree
    /\ probe = "accepted"
    /\ probe' = "answered"
    /\ UNCHANGED <<proc, starts, listenVars, wsVars, dbusVars, logVars, initVars>>

-------------------------------------------------------------------------------
(* The end of the process and its restart.                                  *)

(* Fault: an accept that fails is passed over and the loop goes on.         *)
HttpAcceptGoesOn ==
    /\ WorkerFree
    /\ http_task = "up"
    /\ UNCHANGED vars

(* accept() fails for whoever connects, always so when no descriptor is     *)
(* free, and unwrap ends the loop and with it the listener: connections     *)
(* that wait are refused.                                                   *)
HttpAcceptFails ==
    /\ WorkerFree
    /\ http_task = "up"
    /\ http_task' = "dead"
    /\ probe' = IF probe = "waiting" THEN "refused" ELSE probe
    /\ UNCHANGED <<proc, starts, ws_task, callers, wsVars, dbusVars, logVars,
                   initVars>>

WsAcceptFails ==
    /\ WorkerFree
    /\ ws_task = "up"
    /\ ws_task' = "dead"
    /\ UNCHANGED <<proc, starts, http_task, callers, wsVars, dbusVars, logVars,
                   initVars, probe>>

(* Fault: connections that were not accepted are forgotten.                 *)
DropTasksSilently ==
    /\ proc' = "draining"
    /\ http_task' = "dead" /\ ws_task' = "dead" /\ callers' = 0
    /\ sessions' = locating
    /\ connecting' = 0 /\ watchers' = 0
    /\ queued' = 0 /\ yielded' = 0
    /\ probe' = IF probe = "accepted" THEN "refused" ELSE probe
    /\ UNCHANGED <<starts, opened, auths, following, initVars>>

(* The runtime is dropped: every task that is not blocked is dropped with   *)
(* what it holds.                                                           *)
DropTasks ==
    /\ proc' = "draining"
    /\ http_task' = "dead" /\ ws_task' = "dead" /\ callers' = 0
    /\ sessions' = locating
    /\ connecting' = 0 /\ watchers' = 0
    /\ queued' = 0 /\ yielded' = 0
    /\ probe' = IF probe \in {"waiting", "accepted"} THEN "refused" ELSE probe
    /\ UNCHANGED <<starts, opened, auths, following, initVars>>

(* Fault: main waits for both accept loops instead of either.               *)
JoinBoth ==
    /\ proc = "running"
    /\ http_task = "dead" /\ ws_task = "dead"
    /\ DropTasks

(* select! returns when either accept loop has ended.  It runs on the main  *)
(* thread, so blocked workers do not hold it up.                            *)
MainReturns ==
    /\ proc = "running"
    /\ http_task = "dead" \/ ws_task = "dead"
    /\ DropTasks

(* Dropping the runtime waits for every worker thread, the blocked ones     *)
(* included; then the process exits.                                        *)
ProcessExits ==
    /\ proc = "draining"
    /\ Blocked = 0
    /\ proc' = "dead"
    /\ sessions' = 0
    /\ UNCHANGED <<starts, listenVars, opened, dbusVars, logVars, initVars,
                   probe>>

(* Restart=always: three seconds later a new process starts with nothing of *)
(* the old one.                                                             *)
Restart ==
    /\ proc = "dead"
    /\ starts < MaxStarts
    /\ proc' = "running"
    /\ starts' = starts + 1
    /\ http_task' = "up" /\ ws_task' = "up"
    /\ UNCHANGED <<callers, wsVars, dbusVars, logVars, initVars, probe>>

-------------------------------------------------------------------------------
Next ==
    \/ WsAccept \/ SessionEnds \/ WatcherConnects \/ WatcherEnds
    \/ AuthAccepted \/ AggregatorStarts
    \/ AggregatorYields \/ AggregatorResumes \/ KubectlEnds
    \/ InitLocates \/ GpspipeEnds
    \/ CallerAccepted \/ CallerEnds
    \/ ProbeConnects \/ ProbeAccepted \/ ProbeAnswered
    \/ HttpAcceptFails \/ WsAcceptFails
    \/ MainReturns \/ ProcessExits \/ Restart

(* The accept loop is polled while a health check waits, and accepts it or, *)
(* without a descriptor, ends: the backlog is served in turn, so only those *)
(* who came before can be accepted first.                                   *)
HttpPolled ==
    \/ ProbeAccepted
    \/ ~FdFree /\ probe = "waiting" /\ HttpAcceptFails

(* Tasks that can run are run, the main thread and systemd too.  kubectl    *)
(* and gpspipe may go on for ever, and no client has to do anything.        *)
Fairness ==
    /\ WF_vars(WatcherConnects)
    /\ WF_vars(AggregatorStarts) /\ WF_vars(AggregatorResumes)
    /\ WF_vars(HttpPolled) /\ WF_vars(ProbeAnswered)
    /\ WF_vars(MainReturns) /\ WF_vars(ProcessExits) /\ WF_vars(Restart)

Spec == Init /\ [][Next]_vars

FairSpec == Spec /\ Fairness

-------------------------------------------------------------------------------
(* Properties.                                                              *)

(* Every count has its bound: no more tasks block than there are worker     *)
(* threads, no session is lost while it waits for a position, and a process *)
(* that has exited holds nothing.                                           *)
TypeOK ==
    /\ proc \in {"running", "draining", "dead"}
    /\ starts \in 1..MaxStarts
    /\ http_task \in {"up", "dead"} /\ ws_task \in {"up", "dead"}
    /\ callers \in 0..MaxCallers
    /\ opened \in 0..MaxOpened /\ sessions \in 0..opened
    /\ connecting \in 0..opened /\ watchers \in 0..opened
    /\ auths \in 0..MaxAuths
    /\ queued \in 0..auths /\ following \in 0..auths /\ yielded \in 0..auths
    /\ inits \in 0..MaxInits /\ locating \in 0..inits
    /\ locating <= sessions
    /\ Blocked <= Workers
    /\ probe \in {"none", "waiting", "accepted", "answered", "refused"}
    /\ proc = "dead" => callers + sessions + watchers + yielded + Blocked = 0

(* Watchers and aggregators are only as many as connections were accepted   *)
(* and requests authenticated: a task that outlives its session is counted  *)
(* once, never twice, and none is made out of nothing.                      *)
TasksAccountedFor ==
    /\ connecting + watchers <= opened
    /\ queued + following + yielded <= auths

(* A health check is answered, however many others are connected to the     *)
(* port and say nothing, unless every worker thread is blocked by an        *)
(* aggregator or an Init, or the process ends for want of a descriptor.     *)
HealthAnsweredUnlessStarved ==
    probe = "waiting" ~>
        (probe = "answered" \/ Blocked = Workers \/ proc # "running")

(* When an accept loop is lost the process ends and systemd brings back     *)
(* both, unless a blocked worker keeps the old process from exiting.        *)
LostListenerComesBack ==
    (proc = "running" /\ (http_task = "dead" \/ ws_task = "dead")) ~>
        \/ proc = "running" /\ http_task = "up" /\ ws_task = "up"
        \/ Blocked > 0
        \/ starts = MaxStarts

(* Watchers that outlive their sessions and callers that say nothing may    *)
(* use up every descriptor, and nothing in the process takes one back.  As  *)
(* soon as a health check meets that, the agent is on the way to a process  *)
(* that has descriptors again, unless a blocked worker keeps the old one.   *)
ExhaustionIsCleared ==
    (proc = "running" /\ ~FdFree /\ probe = "waiting") ~>
        \/ proc = "running" /\ FdFree
        \/ Blocked > 0
        \/ starts = MaxStarts

-------------------------------------------------------------------------------
(* The agent as a service: what its accept loops, its process and systemd   *)
(* make of it for whoever asks for its health.                              *)
Outside ==
    INSTANCE Service WITH
        phase <- CASE proc = "dead"     -> "stopped"
                   [] proc = "draining" -> "stopping"
                   [] OTHER -> IF http_task = "up" /\ ws_task = "up"
                               THEN "serving" ELSE "degraded",
        probe <- IF probe \in {"waiting", "accepted"} THEN "asked" ELSE probe

(* Every step of the agent is a step of the service or none of its concern: *)
(* it stops only when a listener is lost, no health check is left hanging   *)
(* by a stop, and it is restarted only when it is gone.                     *)
ServiceSpec == Outside!Spec

-------------------------------------------------------------------------------
(* What the repository says of the agent and the code does not do.          *)

(* The agent is able to check the health of the node at any time: a health  *)
(* check that reaches a running process is answered.                        *)
HealthAnswered ==
    probe = "waiting" ~> (probe = "answered" \/ proc # "running")

(* Restart=always: a service whose main function has returned runs again.   *)
ServiceRestarts ==
    (proc = "draining" /\ starts < MaxStarts) ~> proc = "running"
================================================================================
