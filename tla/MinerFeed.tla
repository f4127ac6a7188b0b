-------------------------------- MODULE MinerFeed ------------------------------
(***************************************************************************)
(* What usage snapshots take from the miner: the zk stage it signals over  *)
(* D-Bus (src/api/dbus.rs) and the log file it writes (read_logs of        *)
(* src/api/logs/mod.rs), as get_usage_snapshot of src/api/usage/mod.rs     *)
(* puts them together, for several sessions at a time.                     *)
(*                                                                         *)
(* The miner is another program.  Of it only this is assumed: it holds the *)
(* log file's lock exclusively while it writes, a line takes it more than  *)
(* one write, and a signal is a message the bus hands to each subscriber   *)
(* in order.  Locking is flock's, and blocks the worker thread it is       *)
(* called on.                                                              *)
(***************************************************************************)
EXTENDS Naturals, Sequences, FiniteSets

CONSTANTS
    Sessions,    \* websocket sessions that stream usage
    Workers,     \* worker threads of the runtime
    MaxLines,    \* bound: lines the miner logs
    MaxSignals   \* bound: signals the miner emits

ASSUME FeedAssumption ==
    /\ IsFiniteSet(Sessions)
    /\ Workers \in Nat \ {0}
    /\ MaxLines \in Nat /\ MaxSignals \in Nat

Kinds == {"u8", "other", "malformed"}

VARIABLES
    lines,     \* whole lines in the log file
    miner,     \* "idle"; "locked" (it has the file's lock); "midline" (and has
               \* written part of a line)
    emitted,   \* the signals emitted: their kind, and (history) the lines the
               \* log held then
    watcher,   \* per session: "starting", "watching", "ended"
    handled,   \* per session: how many of the signals its watcher is done with
    zk_stage,  \* per session: the number of the signal stored last, or 0
    phase,     \* per session, its streamer: "tick", "waiting" for the lock,
               \* "read"
    snap,      \* per session: the snapshot being taken
    shown      \* per session: the snapshot streamed last

minerVars  == <<lines, miner, emitted>>
watchVars  == <<watcher, handled, zk_stage>>
streamVars == <<phase, snap, shown>>
vars == <<minerVars, watchVars, streamVars>>

(* A snapshot: the stage, the lines of the log, whether the last of them is *)
(* cut off, and whether the log could be read at all.                       *)
Snapshot == [stage : 0..MaxSignals, lines : 0..MaxLines,
             torn : BOOLEAN, read : BOOLEAN]

NoSnapshot == [stage |-> 0, lines |-> 0, torn |-> FALSE, read |-> FALSE]

(* A streamer keeps its worker thread from the call of lock_shared to the   *)
(* end of read_logs.                                                        *)
Busy == {s \in Sessions : phase[s] = "waiting"}

(* Fault: a streamer that waits for the lock holds no worker thread.        *)
NothingHeld == TRUE

WorkerFree == Cardinality(Busy) < Workers

-------------------------------------------------------------------------------
Init ==
    /\ lines = 0 /\ miner = "idle" /\ emitted = <<>>
    /\ watcher = [s \in Sessions |-> "starting"]
    /\ handled = [s \in Sessions |-> 0]
    /\ zk_stage = [s \in Sessions |-> 0]
    /\ phase = [s \in Sessions |-> "tick"]
    /\ snap = [s \in Sessions |-> NoSnapshot]
    /\ shown = [s \in Sessions |-> NoSnapshot]

-------------------------------------------------------------------------------
(* The miner.                                                               *)

MinerLocks ==
    /\ miner = "idle"
    /\ lines < MaxLines
    /\ miner' = "locked"
    /\ UNCHANGED <<lines, emitted, watchVars, streamVars>>

MinerWrites ==
    /\ lines < MaxLines
    /\ \/ miner = "locked"  /\ miner' = "midline" /\ lines' = lines
       \/ miner = "midline" /\ miner' = "locked"  /\ lines' = lines + 1
    /\ UNCHANGED <<emitted, watchVars, streamVars>>

MinerUnlocks ==
    /\ miner = "locked"
    /\ miner' = "idle"
    /\ UNCHANGED <<lines, emitted, watchVars, streamVars>>

MinerSignals ==
    /\ Len(emitted) < MaxSignals
    /\ \E k \in Kinds : emitted' = Append(emitted, [kind |-> k, lines |-> lines])
    /\ UNCHANGED <<lines, miner, watchVars, streamVars>>

-------------------------------------------------------------------------------
(* The watchers.                                                            *)

(* The match rule is in place: signals from now on are delivered, and those *)
(* from before are not.                                                     *)
WatchStarts(s) ==
    /\ WorkerFree
    /\ watcher[s] = "starting"
    /\ watcher' = [watcher EXCEPT ![s] = "watching"]
    /\ handled' = [handled EXCEPT ![s] = Len(emitted)]
    /\ UNCHANGED <<minerVars, zk_stage, streamVars>>

(* Fault: the newest signal that has arrived is handled first.              *)
NewestFirst(s) == Len(emitted) - handled[s]

NextSignal(s) == handled[s] + 1

(* A u8 is stored, another field is passed over, and a body that is no      *)
(* structure ends the watcher.                                              *)
WatchHandles(s) ==
    /\ WorkerFree
    /\ watcher[s] = "watching"
    /\ handled[s] < Len(emitted)
    /\ LET n == NextSignal(s)
           k == emitted[n].kind
       IN  /\ zk_stage' = IF k = "u8" THEN [zk_stage EXCEPT ![s] = n] ELSE zk_stage
           /\ watcher' = IF k = "malformed" THEN [watcher EXCEPT ![s] = "ended"]
                                            ELSE watcher
    /\ handled' = [handled EXCEPT ![s] = @ + 1]
    /\ UNCHANGED <<minerVars, streamVars>>

-------------------------------------------------------------------------------
(* The streamers.                                                           *)

(* A tick and its second of measuring are over: the stage is read, and in   *)
(* the same poll the log file is opened and its lock asked for.             *)
SnapBegins(s) ==
    /\ WorkerFree
    /\ phase[s] = "tick"
    /\ phase' = [phase EXCEPT ![s] = "waiting"]
    /\ snap' = [snap EXCEPT ![s] = [NoSnapshot EXCEPT !.stage = zk_stage[s]]]
    /\ UNCHANGED <<minerVars, watchVars, shown>>

WithLogs(snapshot) == [snapshot EXCEPT !.lines = lines, !.read = TRUE,
                                       !.torn = miner = "midline"]

(* Fault: the file is read without its lock.                                *)
ReadsUnlocked(s) ==
    /\ phase[s] = "waiting"
    /\ phase' = [phase EXCEPT ![s] = "read"]
    /\ snap' = [snap EXCEPT ![s] = WithLogs(@)]
    /\ UNCHANGED <<minerVars, watchVars, shown>>

(* Fault: the lock is asked for on a worker thread of its own.              *)
LocksElsewhere(s) == WorkerFree /\ miner = "idle" /\ ReadsUnlocked(s)

(* lock_shared returns, the whole file is read and it is unlocked: nobody   *)
(* can write meanwhile, so this is one step.                                *)
ReadLogs(s) ==
    /\ phase[s] = "waiting"
    /\ miner = "idle"
    /\ phase' = [phase EXCEPT ![s] = "read"]
    /\ snap' = [snap EXCEPT ![s] = WithLogs(@)]
    /\ UNCHANGED <<minerVars, watchVars, shown>>

(* The file is not there, or not locked or read: the snapshot goes on with  *)
(* an empty text, and closing the file lets its lock go.                    *)
LogsUnreadable(s) ==
    /\ phase[s] = "waiting"
    /\ phase' = [phase EXCEPT ![s] = "read"]
    /\ UNCHANGED <<minerVars, watchVars, snap, shown>>

(* Fault: the stage is taken last, when everything else is there.           *)
StageTakenLast(s) == [snap[s] EXCEPT !.stage = zk_stage[s]]

Taken(s) == snap[s]

(* The snapshot is sent; the next one begins after a tick.                  *)
SnapSent(s) ==
    /\ WorkerFree
    /\ phase[s] = "read"
    /\ phase' = [phase EXCEPT ![s] = "tick"]
    /\ shown' = [shown EXCEPT ![s] = Taken(s)]
    /\ snap' = [snap EXCEPT ![s] = NoSnapshot]
    /\ UNCHANGED <<minerVars, watchVars>>

-------------------------------------------------------------------------------
MinerNext == MinerLocks \/ MinerWrites \/ MinerUnlocks \/ MinerSignals

WatchNext(s) == WatchStarts(s) \/ WatchHandles(s)

StreamNext(s) ==
    SnapBegins(s) \/ ReadLogs(s) \/ LogsUnreadable(s) \/ SnapSent(s)

Next == MinerNext \/ \E s \in Sessions : WatchNext(s) \/ StreamNext(s)

(* A miner that has the lock goes on until it gives it back, a task that    *)
(* time and again could have a worker gets one, and a streamer that time    *)
(* and again could have the lock gets it.                                   *)
Fairness ==
    /\ WF_vars(MinerWrites \/ MinerUnlocks)
    /\ \A s \in Sessions :
          /\ SF_vars(WatchHandles(s))
          /\ SF_vars(SnapBegins(s) \/ ReadLogs(s) \/ SnapSent(s))

Spec == Init /\ [][Next]_vars

FairSpec == Spec /\ Fairness

-------------------------------------------------------------------------------
(* Properties.                                                              *)

(* Snapshots, cursors and phases have their types, and no more streamers    *)
(* wait for the lock than there are workers.                                *)
TypeOK ==
    /\ lines \in 0..MaxLines
    /\ miner \in {"idle", "locked", "midline"}
    /\ emitted \in Seq([kind : Kinds, lines : 0..MaxLines])
    /\ Len(emitted) <= MaxSignals
    /\ watcher \in [Sessions -> {"starting", "watching", "ended"}]
    /\ handled \in [Sessions -> 0..MaxSignals]
    /\ zk_stage \in [Sessions -> 0..MaxSignals]
    /\ phase \in [Sessions -> {"tick", "waiting", "read"}]
    /\ snap \in [Sessions -> Snapshot]
    /\ shown \in [Sessions -> Snapshot]
    /\ Cardinality(Busy) <= Workers

(* No snapshot shows a line the miner was in the middle of.                 *)
NoTornLine == \A s \in Sessions : ~shown[s].torn /\ ~snap[s].torn

(* A stage a session holds, takes or shows is one the miner signalled as a  *)
(* u8, and the one it holds is the newest of those its watcher is done      *)
(* with: a signal that is passed over, or that ends the watcher, changes    *)
(* nothing.                                                                 *)
StagesAreSignalled ==
    \A s \in Sessions :
        /\ \A n \in {zk_stage[s], snap[s].stage, shown[s].stage} \ {0} :
              n <= handled[s] /\ emitted[n].kind = "u8"
        /\ zk_stage[s] > 0 =>
              \A n \in zk_stage[s]+1..handled[s] : emitted[n].kind # "u8"

(* A snapshot that shows a stage shows what the miner had logged when it    *)
(* reached it: the stage is older than the log beside it, never newer.      *)
LogsCoverStage ==
    \A s \in Sessions :
        shown[s].read /\ shown[s].stage > 0 =>
            emitted[shown[s].stage].lines <= shown[s].lines

(* Stages and logs a session shows never go back, whatever its neighbours   *)
(* and the miner do in between; a log that cannot be read is shown as an    *)
(* empty one, which is no news about it.                                    *)
FeedNeverGoesBack ==
    [][\A s \in Sessions :
          /\ shown[s].stage <= shown'[s].stage
          /\ shown[s].read /\ shown'[s].read =>
                shown[s].lines <= shown'[s].lines]_shown

(* When the miner has signalled its last, every watcher that still watches  *)
(* gets to the end of what it was sent, and every session shows the stage   *)
(* that was stored for it and nothing older: a streamer that keeps its      *)
(* worker thread while it waits for the log holds the others up, but not    *)
(* for good.                                                                *)
QuietFeedIsShown ==
    <>[](\A s \in Sessions :
            /\ watcher[s] = "watching" => handled[s] = Len(emitted)
            /\ shown[s].stage = zk_stage[s])
================================================================================
