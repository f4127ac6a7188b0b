----------------------------- MODULE MinerFeedProofs ---------------------------
(* The theorems about MinerFeed and their proofs.                           *)
EXTENDS MinerFeed, FiniteSetTheorems, TLAPS

Shot == [stage : Nat, lines : Nat, torn : BOOLEAN, read : BOOLEAN]

(* What the proof needs of the types.                                       *)
FeedTypes ==
    /\ lines \in Nat /\ miner \in {"idle", "locked", "midline"}
    /\ emitted \in Seq([kind : Kinds, lines : Nat])
    /\ watcher \in [Sessions -> {"starting", "watching", "ended"}]
    /\ handled \in [Sessions -> Nat] /\ zk_stage \in [Sessions -> Nat]
    /\ phase \in [Sessions -> {"tick", "waiting", "read"}]
    /\ snap \in [Sessions -> Shot] /\ shown \in [Sessions -> Shot]

(* A snapshot is of the past: its stage was stored and its lines written,   *)
(* and the lines that were there when the stage was signalled are in it.    *)
OfThePast(shot, s) ==
    /\ shot.stage <= zk_stage[s]
    /\ shot.lines <= lines
    /\ ~shot.torn
    /\ shot.read /\ shot.stage > 0 => emitted[shot.stage].lines <= shot.lines

(* Signals were emitted when the log was no longer than it is; what was     *)
(* stored was handled, and what was handled emitted; and the snapshot being *)
(* taken is no older than the one that was shown.                           *)
FeedInv ==
    /\ FeedTypes
    /\ \A i \in 1..Len(emitted) : emitted[i].lines <= lines
    /\ \A s \in Sessions :
          /\ zk_stage[s] <= handled[s] /\ handled[s] <= Len(emitted)
          /\ OfThePast(snap[s], s) /\ OfThePast(shown[s], s)
          /\ phase[s] # "tick" => shown[s].stage <= snap[s].stage
          /\ phase[s] = "waiting" => ~snap[s].read
          /\ snap[s].read /\ shown[s].read => shown[s].lines <= snap[s].lines

(* Signals are dated with numbers.                                          *)
LEMMA Dated ==
    ASSUME FeedTypes, NEW i \in 1..Len(emitted) PROVE emitted[i].lines \in Nat
<1> DEFINE Signal == [kind : Kinds, lines : Nat]
<1>1. emitted \in Seq(Signal)
  BY DEF FeedTypes
<1>2. \A x \in Signal : x.lines \in Nat
  OBVIOUS
<1> HIDE DEF Signal
<1>3. emitted[i] \in Signal
  BY <1>1
<1> QED
  BY <1>2, <1>3

(* A line more, or a lock taken or given back, leaves the past as it was.   *)
LEMMA MinerStep ==
    FeedInv /\ (MinerLocks \/ MinerWrites \/ MinerUnlocks) => FeedInv'
<1> SUFFICES ASSUME FeedInv, MinerLocks \/ MinerWrites \/ MinerUnlocks
             PROVE  FeedInv'
  OBVIOUS
<1>1. /\ lines' \in Nat /\ lines <= lines'
      /\ miner' \in {"idle", "locked", "midline"}
      /\ UNCHANGED <<emitted, watchVars, streamVars>>
  BY DEF FeedInv, FeedTypes, MinerLocks, MinerWrites, MinerUnlocks
<1>2. FeedTypes'
  BY <1>1 DEF FeedInv, FeedTypes, watchVars, streamVars
<1>3. ASSUME NEW i \in 1..Len(emitted') PROVE emitted'[i].lines <= lines'
  <2>1. i \in 1..Len(emitted) /\ emitted' = emitted
    BY <1>1
  <2>2. emitted[i].lines \in Nat /\ emitted[i].lines <= lines /\ lines \in Nat
    BY <2>1, Dated DEF FeedInv, FeedTypes
  <2> QED
    BY <1>1, <2>1, <2>2
<1>4. ASSUME NEW s \in Sessions, NEW shot \in Shot, OfThePast(shot, s)
      PROVE  OfThePast(shot, s)'
  BY <1>1, <1>4 DEF FeedInv, FeedTypes, OfThePast, Shot, watchVars
<1>5. \A s \in Sessions : snap[s] \in Shot /\ shown[s] \in Shot
  BY DEF FeedInv, FeedTypes
<1> QED
  BY <1>1, <1>2, <1>3, <1>4, <1>5 DEF FeedInv, OfThePast, watchVars, streamVars

(* A new signal is dated with the log as it is and changes no older one.    *)
LEMMA SignalStep == FeedInv /\ MinerSignals => FeedInv'
<1> SUFFICES ASSUME FeedInv, MinerSignals PROVE FeedInv'
  OBVIOUS
<1>1. PICK k \in Kinds : emitted' = Append(emitted, [kind |-> k, lines |-> lines])
  BY DEF MinerSignals
<1>2. /\ UNCHANGED <<lines, miner, watchVars, streamVars>>
      /\ emitted \in Seq([kind : Kinds, lines : Nat]) /\ lines \in Nat
  BY DEF MinerSignals, FeedInv, FeedTypes
<1>3. /\ emitted' \in Seq([kind : Kinds, lines : Nat])
      /\ Len(emitted') = Len(emitted) + 1 /\ Len(emitted) \in Nat
      /\ \A i \in 1..Len(emitted) : emitted'[i] = emitted[i]
      /\ emitted'[Len(emitted) + 1].lines = lines
  BY <1>1, <1>2
<1>4. FeedTypes'
  BY <1>2, <1>3 DEF FeedInv, FeedTypes, watchVars, streamVars
<1>5. ASSUME NEW i \in 1..Len(emitted') PROVE emitted'[i].lines <= lines'
  <2>1. CASE i = Len(emitted) + 1
    BY <1>2, <1>3, <2>1
  <2>2. CASE i \in 1..Len(emitted)
    BY <1>2, <1>3, <2>2 DEF FeedInv
  <2> QED
    BY <1>3, <2>1, <2>2
<1>6. ASSUME NEW s \in Sessions, NEW shot \in Shot, OfThePast(shot, s)
      PROVE  OfThePast(shot, s)'
  <2>1. zk_stage[s] \in Nat /\ zk_stage[s] <= Len(emitted)
    BY <1>3 DEF FeedInv, FeedTypes
  <2>2. shot.stage \in Nat /\ shot.stage <= Len(emitted)
    BY <1>3, <1>6, <2>1 DEF OfThePast, Shot
  <2>3. shot.stage > 0 => emitted'[shot.stage] = emitted[shot.stage]
    BY <1>3, <2>2
  <2> QED
    BY <1>2, <1>6, <2>3 DEF OfThePast, watchVars
<1>7. ASSUME NEW s \in Sessions
      PROVE  /\ snap[s] \in Shot /\ shown[s] \in Shot
             /\ zk_stage[s] <= handled[s] /\ handled[s] <= Len(emitted')
  BY <1>3 DEF FeedInv, FeedTypes
<1>8. \A s \in Sessions : OfThePast(snap[s], s)' /\ OfThePast(shown[s], s)'
  BY <1>2, <1>6, <1>7 DEF FeedInv, OfThePast, streamVars
<1> QED
  BY <1>2, <1>4, <1>5, <1>7, <1>8 DEF FeedInv, watchVars, streamVars

(* A watcher stores only what is newer than what it stored.                 *)
LEMMA WatchStep ==
    ASSUME FeedInv, NEW s \in Sessions, WatchNext(s) PROVE FeedInv'
<1>1. UNCHANGED <<minerVars, streamVars>>
  BY DEF WatchNext, WatchStarts, WatchHandles
<1>2. /\ Len(emitted) \in Nat
      /\ \A q \in Sessions : /\ handled[q] \in Nat /\ zk_stage[q] \in Nat
                             /\ zk_stage[q] <= handled[q]
                             /\ handled[q] <= Len(emitted)
  BY DEF FeedInv, FeedTypes
<1>3. /\ watcher' \in [Sessions -> {"starting", "watching", "ended"}]
      /\ handled' \in [Sessions -> Nat] /\ zk_stage' \in [Sessions -> Nat]
      /\ \A q \in Sessions : /\ zk_stage[q] <= zk_stage'[q]
                             /\ zk_stage'[q] <= handled'[q]
                             /\ handled'[q] <= Len(emitted)
  <2>1. CASE WatchStarts(s)
    BY <1>2, <2>1 DEF WatchStarts, FeedInv, FeedTypes
  <2>2. CASE WatchHandles(s)
    BY <1>2, <2>2 DEF WatchHandles, NextSignal, FeedInv, FeedTypes
  <2> QED
    BY <2>1, <2>2 DEF WatchNext
<1>4. FeedTypes'
  BY <1>1, <1>3 DEF FeedInv, FeedTypes, minerVars, streamVars
<1>5. ASSUME NEW q \in Sessions, NEW shot \in Shot, OfThePast(shot, q)
      PROVE  OfThePast(shot, q)'
  BY <1>1, <1>2, <1>3, <1>5 DEF OfThePast, Shot, minerVars
<1>6. \A q \in Sessions : /\ snap[q] \in Shot /\ shown[q] \in Shot
                          /\ OfThePast(snap[q], q) /\ OfThePast(shown[q], q)
  BY DEF FeedInv, FeedTypes
<1>7. \A q \in Sessions : OfThePast(snap[q], q)' /\ OfThePast(shown[q], q)'
  BY <1>1, <1>5, <1>6 DEF OfThePast, streamVars
<1> QED
  BY <1>1, <1>3, <1>4, <1>7 DEF FeedInv, minerVars, streamVars

(* A streamer's step concerns its own snapshots.                            *)
LEMMA StreamStep ==
    ASSUME FeedInv, NEW s \in Sessions, StreamNext(s) PROVE FeedInv'
<1>1. UNCHANGED <<minerVars, watchVars>>
  BY DEF StreamNext, SnapBegins, ReadLogs, ReadsUnlocked, LogsUnreadable,
         SnapSent
<1>2. \A q \in Sessions \ {s} :
         /\ snap'[q] = snap[q] /\ shown'[q] = shown[q] /\ phase'[q] = phase[q]
  BY DEF FeedInv, FeedTypes, StreamNext, SnapBegins, ReadLogs,
         LogsUnreadable, SnapSent
<1>3. /\ NoSnapshot \in Shot
      /\ lines \in Nat /\ zk_stage[s] \in Nat
      /\ snap[s] \in Shot /\ shown[s] \in Shot
      /\ miner \in {"idle", "locked", "midline"}
  BY DEF FeedInv, FeedTypes, NoSnapshot, Shot
<1>4. /\ phase' \in [Sessions -> {"tick", "waiting", "read"}]
      /\ snap' \in [Sessions -> Shot] /\ shown' \in [Sessions -> Shot]
  <2>1. CASE SnapBegins(s)
    BY <1>3, <2>1 DEF SnapBegins, FeedInv, FeedTypes, Shot
  <2>2. CASE ReadLogs(s)
    BY <1>3, <2>2 DEF ReadLogs, WithLogs, FeedInv, FeedTypes, Shot
  <2>3. CASE LogsUnreadable(s)
    BY <1>3, <2>3 DEF LogsUnreadable, FeedInv, FeedTypes
  <2>4. CASE SnapSent(s)
    BY <1>3, <2>4 DEF SnapSent, Taken, FeedInv, FeedTypes
  <2> QED
    BY <2>1, <2>2, <2>3, <2>4 DEF StreamNext
<1>5. FeedTypes'
  BY <1>1, <1>4 DEF FeedInv, FeedTypes, minerVars, watchVars
<1>6. /\ \A i \in 1..Len(emitted) : emitted[i].lines <= lines
      /\ zk_stage[s] <= Len(emitted) /\ Len(emitted) \in Nat
      /\ \A i \in 1..Len(emitted) : emitted[i].lines \in Nat
  <2>1. /\ Len(emitted) \in Nat /\ handled[s] \in Nat /\ zk_stage[s] \in Nat
        /\ zk_stage[s] <= handled[s] /\ handled[s] <= Len(emitted)
    BY DEF FeedInv, FeedTypes
  <2> QED
    BY <2>1, Dated DEF FeedInv
<1>7. /\ OfThePast(snap[s], s) /\ OfThePast(shown[s], s)
      /\ phase[s] # "tick" => shown[s].stage <= snap[s].stage
      /\ phase[s] = "waiting" => ~snap[s].read
      /\ snap[s].read /\ shown[s].read => shown[s].lines <= snap[s].lines
  BY DEF FeedInv
<1>8. /\ OfThePast(snap'[s], s) /\ OfThePast(shown'[s], s)
      /\ phase'[s] # "tick" => shown'[s].stage <= snap'[s].stage
      /\ phase'[s] = "waiting" => ~snap'[s].read
      /\ snap'[s].read /\ shown'[s].read => shown'[s].lines <= snap'[s].lines
  <2> USE <1>3, <1>6, <1>7 DEF OfThePast, Shot
  <2>1. CASE SnapBegins(s)
    BY <2>1 DEF SnapBegins, NoSnapshot, FeedInv, FeedTypes
  <2>2. CASE ReadLogs(s)
    <3>1. /\ snap'[s] = WithLogs(snap[s]) /\ shown' = shown
          /\ phase'[s] = "read" /\ phase[s] = "waiting" /\ miner = "idle"
      BY <2>2 DEF ReadLogs, FeedInv, FeedTypes
    <3>2. /\ snap'[s].stage = snap[s].stage /\ snap'[s].lines = lines
          /\ ~snap'[s].torn
      BY <3>1 DEF WithLogs
    <3> QED
      BY <3>1, <3>2
  <2>3. CASE LogsUnreadable(s)
    BY <2>3 DEF LogsUnreadable, FeedInv, FeedTypes
  <2>4. CASE SnapSent(s)
    BY <2>4 DEF SnapSent, Taken, NoSnapshot, FeedInv, FeedTypes
  <2> QED
    BY <2>1, <2>2, <2>3, <2>4 DEF StreamNext
<1>9. \A q \in Sessions :
         /\ OfThePast(snap[q], q)' /\ OfThePast(shown[q], q)'
         /\ (phase[q] # "tick" => shown[q].stage <= snap[q].stage)'
         /\ (phase[q] = "waiting" => ~snap[q].read)'
         /\ (snap[q].read /\ shown[q].read => shown[q].lines <= snap[q].lines)'
  BY <1>1, <1>2, <1>8 DEF FeedInv, OfThePast, minerVars, watchVars
<1> QED
  BY <1>1, <1>5, <1>9 DEF FeedInv, minerVars, watchVars

(* At first nothing was signalled, taken or shown.                          *)
LEMMA FeedStart == Init => FeedInv
  BY FeedAssumption DEF Init, FeedInv, FeedTypes, OfThePast, NoSnapshot, Shot

(* Every step keeps snapshots of the past.                                  *)
LEMMA FeedStep == FeedInv /\ [Next]_vars => FeedInv'
<1> SUFFICES ASSUME FeedInv, [Next]_vars PROVE FeedInv'
  OBVIOUS
<1>1. CASE UNCHANGED vars
  BY <1>1 DEF vars, minerVars, watchVars, streamVars, FeedInv, FeedTypes,
              OfThePast
<1> QED
  BY <1>1, MinerStep, SignalStep, WatchStep, StreamStep DEF Next, MinerNext

(* However many sessions and workers: no torn line is shown.                *)
THEOREM LinesAreWhole == Spec => []NoTornLine
<1>1. FeedInv => NoTornLine
  BY DEF FeedInv, OfThePast, NoTornLine
<1> QED
  BY <1>1, FeedStart, FeedStep, PTL DEF Spec

(* The log beside a stage is at least as new as the stage.                  *)
THEOREM StagesAreCovered == Spec => []LogsCoverStage
<1>1. FeedInv => LogsCoverStage
  BY DEF FeedInv, OfThePast, LogsCoverStage
<1> QED
  BY <1>1, FeedStart, FeedStep, PTL DEF Spec

(* Neither stage nor log of what a session shows goes back.                 *)
THEOREM FeedGoesOn == Spec => FeedNeverGoesBack
<1> DEFINE Forward(s) ==
      /\ shown[s].stage <= shown'[s].stage
      /\ shown[s].read /\ shown'[s].read => shown[s].lines <= shown'[s].lines
<1>1. FeedInv /\ [Next]_vars => [\A s \in Sessions : Forward(s)]_shown
  <2> SUFFICES ASSUME FeedInv, [Next]_vars, shown' # shown, NEW s \in Sessions
               PROVE  Forward(s)
    OBVIOUS
  <2>1. PICK q \in Sessions : SnapSent(q)
    BY DEF Next, MinerNext, WatchNext, StreamNext, MinerLocks, MinerWrites,
           MinerUnlocks, MinerSignals, WatchStarts, WatchHandles, SnapBegins,
           ReadLogs, LogsUnreadable, vars, minerVars, watchVars, streamVars
  <2>2. /\ shown'[s] = IF s = q THEN snap[s] ELSE shown[s]
        /\ shown[s] \in Shot /\ phase[q] = "read"
    BY <2>1 DEF SnapSent, Taken, FeedInv, FeedTypes
  <2> QED
    BY <2>2 DEF FeedInv, Shot
<1> QED
  BY <1>1, FeedStart, FeedStep, PTL DEF Spec, FeedNeverGoesBack

(* A session has no stage until its watcher has started: the signals a      *)
(* watcher passes over when it starts are older than any stage it will hold.*)
SignalInv ==
    /\ FeedInv
    /\ StagesAreSignalled
    /\ \A s \in Sessions : watcher[s] = "starting" => zk_stage[s] = 0

(* Only a watcher stores stages, and only its own streamer takes and shows  *)
(* them; what it stores is the signal it is at, and then it is past it.     *)
LEMMA SignalledStep == SignalInv /\ [Next]_vars => SignalInv'
<1> SUFFICES ASSUME SignalInv, [Next]_vars PROVE SignalInv'
  OBVIOUS
<1>1. FeedInv /\ FeedInv'
  BY FeedStep DEF SignalInv
<1> DEFINE Right(s) ==
      /\ \A n \in {zk_stage[s], snap[s].stage, shown[s].stage} \ {0} :
            n <= handled[s] /\ emitted[n].kind = "u8"
      /\ zk_stage[s] > 0 =>
            \A n \in zk_stage[s]+1..handled[s] : emitted[n].kind # "u8"
      /\ watcher[s] = "starting" => zk_stage[s] = 0
<1>2. SUFFICES ASSUME NEW s \in Sessions PROVE Right(s)'
  BY <1>1 DEF SignalInv, StagesAreSignalled
<1>3. Right(s)
  BY DEF SignalInv, StagesAreSignalled
<1>4. /\ handled[s] \in Nat /\ zk_stage[s] \in Nat /\ Len(emitted) \in Nat
      /\ zk_stage[s] <= handled[s] /\ handled[s] <= Len(emitted)
      /\ snap[s].stage \in Nat /\ shown[s].stage \in Nat
      /\ snap[s].stage <= zk_stage[s] /\ shown[s].stage <= zk_stage[s]
  BY <1>1 DEF FeedInv, FeedTypes, Shot, OfThePast
<1>5. CASE UNCHANGED <<emitted, watcher[s], handled[s], zk_stage[s], snap[s],
                       shown[s]>>
  BY <1>3, <1>5
<1>6. CASE MinerSignals
  <2>1. PICK k \in Kinds :
           emitted' = Append(emitted, [kind |-> k, lines |-> lines])
    BY <1>6 DEF MinerSignals
  <2>2. \A n \in 1..Len(emitted) : emitted'[n] = emitted[n]
    BY <1>1, <2>1 DEF FeedInv, FeedTypes
  <2>3. UNCHANGED <<watcher, handled, zk_stage, snap, shown>>
    BY <1>6 DEF MinerSignals, watchVars, streamVars
  <2>4. \A n \in 1..handled[s] : emitted'[n] = emitted[n]
    BY <1>4, <2>2
  <2> QED
    BY <1>3, <1>4, <2>3, <2>4
<1>7. CASE WatchStarts(s)
  <2>1. /\ watcher[s] = "starting" /\ watcher'[s] = "watching"
        /\ UNCHANGED <<zk_stage, snap, shown>>
    BY <1>1, <1>7 DEF WatchStarts, FeedInv, FeedTypes, streamVars
  <2>2. zk_stage'[s] = 0 /\ snap'[s].stage = 0 /\ shown'[s].stage = 0
    BY <1>3, <1>4, <2>1
  <2> QED
    BY <2>1, <2>2
<1>8. CASE WatchHandles(s)
  <2> DEFINE n == handled[s] + 1
  <2>1. /\ handled[s] < Len(emitted) /\ handled'[s] = n
        /\ watcher'[s] # "starting"
        /\ UNCHANGED <<emitted, snap, shown>>
        /\ zk_stage'[s] = IF emitted[n].kind = "u8" THEN n ELSE zk_stage[s]
    BY <1>1, <1>8 DEF WatchHandles, NextSignal, FeedInv, FeedTypes, minerVars,
                      streamVars
  <2> HIDE DEF n
  <2>2. n \in Nat /\ n = handled[s] + 1
    BY <1>4 DEF n
  <2>3. CASE emitted[n].kind = "u8"
    BY <1>3, <1>4, <2>1, <2>2, <2>3
  <2>4. CASE emitted[n].kind # "u8"
    BY <1>3, <1>4, <2>1, <2>2, <2>4
  <2> QED
    BY <2>3, <2>4
<1>9. CASE StreamNext(s)
  <2>1. UNCHANGED <<emitted, watcher, handled, zk_stage>>
    BY <1>9 DEF StreamNext, SnapBegins, ReadLogs, LogsUnreadable, SnapSent,
                minerVars, watchVars
  <2>2. /\ snap'[s].stage \in {0, zk_stage[s], snap[s].stage}
        /\ shown'[s].stage \in {shown[s].stage, snap[s].stage}
    <3>1. snap \in [Sessions -> Shot] /\ shown \in [Sessions -> Shot]
      BY <1>1 DEF FeedInv, FeedTypes
    <3> USE <3>1 DEF Shot
    <3>2. CASE SnapBegins(s)
      BY <3>2 DEF SnapBegins, NoSnapshot
    <3>3. CASE ReadLogs(s)
      BY <3>3 DEF ReadLogs, WithLogs
    <3>4. CASE LogsUnreadable(s)
      BY <3>4 DEF LogsUnreadable
    <3>5. CASE SnapSent(s)
      BY <3>5 DEF SnapSent, Taken, NoSnapshot
    <3> QED
      BY <1>9, <3>2, <3>3, <3>4, <3>5 DEF StreamNext
  <2> QED
    BY <1>3, <2>1, <2>2
<1>10. ASSUME NEW q \in Sessions \ {s}, WatchNext(q) \/ StreamNext(q)
       PROVE  Right(s)'
  <2>1. UNCHANGED <<emitted, watcher[s], handled[s], zk_stage[s], snap[s],
                    shown[s]>>
    BY <1>1, <1>10 DEF WatchNext, WatchStarts, WatchHandles, StreamNext,
                       SnapBegins, ReadLogs, LogsUnreadable, SnapSent,
                       minerVars, watchVars, streamVars, FeedInv, FeedTypes
  <2> QED
    BY <1>5, <2>1
<1>11. CASE MinerLocks \/ MinerWrites \/ MinerUnlocks \/ UNCHANGED vars
  BY <1>5, <1>11 DEF MinerLocks, MinerWrites, MinerUnlocks, vars, minerVars,
                     watchVars, streamVars
<1> HIDE DEF Right
<1> QED
  BY <1>6, <1>7, <1>8, <1>9, <1>10, <1>11 DEF Next, MinerNext, WatchNext

(* However many sessions and signals: stages are those the miner signalled, *)
(* and the one held is the newest of those the watcher is done with.        *)
THEOREM StagesSignalled == Spec => []StagesAreSignalled
<1>1. Init => SignalInv
  BY FeedStart DEF Init, SignalInv, StagesAreSignalled, NoSnapshot
<1>2. SignalInv => StagesAreSignalled
  BY DEF SignalInv
<1> QED
  BY <1>1, <1>2, SignalledStep, PTL DEF Spec

-------------------------------------------------------------------------------
(* The bounds of the runs, and the workers that waiting streamers hold.     *)
Bounded ==
    /\ lines <= MaxLines /\ Len(emitted) <= MaxSignals
    /\ Cardinality(Busy) <= Workers

(* A streamer begins to wait on a worker that is free, and no step but that *)
(* adds to those who wait.                                                  *)
LEMMA BoundedStep == FeedInv /\ Bounded /\ [Next]_vars => Bounded'
<1> SUFFICES ASSUME FeedInv, Bounded, [Next]_vars PROVE Bounded'
  OBVIOUS
<1>1. IsFiniteSet(Busy) /\ Cardinality(Busy) \in Nat
  BY FeedAssumption, FS_Subset, FS_CardinalityType DEF Busy
<1>2. /\ lines \in Nat /\ Len(emitted) \in Nat
      /\ MaxLines \in Nat /\ MaxSignals \in Nat /\ Workers \in Nat
      /\ phase \in [Sessions -> {"tick", "waiting", "read"}]
  BY FeedAssumption DEF FeedInv, FeedTypes
<1>3. Busy' \subseteq Busy => Cardinality(Busy') <= Workers
  BY <1>1, <1>2, FS_Subset, FS_CardinalityType DEF Bounded
<1>4. CASE MinerNext
  <2>1. Len(emitted') <= MaxSignals /\ lines' <= MaxLines
    <3>1. CASE MinerLocks \/ MinerWrites \/ MinerUnlocks
      BY <1>2, <3>1 DEF MinerLocks, MinerWrites, MinerUnlocks, Bounded
    <3>2. CASE MinerSignals
      <4>1. PICK k \in Kinds :
               emitted' = Append(emitted, [kind |-> k, lines |-> lines])
        BY <3>2 DEF MinerSignals
      <4>2. emitted \in Seq([kind : Kinds, lines : Nat])
        BY DEF FeedInv, FeedTypes
      <4>3. Len(emitted') = Len(emitted) + 1
        BY <1>2, <4>1, <4>2
      <4> QED
        BY <1>2, <3>2, <4>3 DEF MinerSignals, Bounded
    <3> QED
      BY <1>4, <3>1, <3>2 DEF MinerNext
  <2>2. phase' = phase
    BY <1>4 DEF MinerNext, MinerLocks, MinerWrites, MinerUnlocks,
                MinerSignals, streamVars
  <2> QED
    BY <1>3, <2>1, <2>2 DEF Bounded, Busy
<1>5. ASSUME NEW s \in Sessions, WatchNext(s) PROVE Bounded'
  BY <1>5 DEF WatchNext, WatchStarts, WatchHandles, minerVars, streamVars,
              Bounded, Busy
<1>6. ASSUME NEW s \in Sessions, SnapBegins(s) PROVE Bounded'
  <2>1. Busy' = Busy \cup {s}
    BY <1>2, <1>6 DEF SnapBegins, Busy
  <2>2. Cardinality(Busy') <= Cardinality(Busy) + 1
    BY <1>1, <2>1, FS_AddElement
  <2>3. IsFiniteSet(Busy') /\ Cardinality(Busy') \in Nat
    BY <1>1, <2>1, FS_AddElement, FS_CardinalityType
  <2>4. Cardinality(Busy) < Workers
    BY <1>6 DEF SnapBegins, WorkerFree
  <2>5. Cardinality(Busy') <= Workers
    BY <1>1, <1>2, <2>2, <2>3, <2>4
  <2> QED
    BY <1>6, <2>5 DEF SnapBegins, minerVars, Bounded
<1>7. ASSUME NEW s \in Sessions, ReadLogs(s) \/ LogsUnreadable(s) \/ SnapSent(s)
      PROVE  Bounded'
  <2>1. Busy' \subseteq Busy
    BY <1>2, <1>7 DEF ReadLogs, LogsUnreadable, SnapSent, Busy
  <2> QED
    BY <1>3, <1>7, <2>1 DEF ReadLogs, LogsUnreadable, SnapSent, minerVars, Bounded
<1>8. CASE UNCHANGED vars
  BY <1>8 DEF vars, minerVars, streamVars, Bounded, Busy
<1> QED
  BY <1>4, <1>5, <1>6, <1>7, <1>8 DEF Next, StreamNext

(* What is stored, taken and shown is within what was emitted and written.  *)
LEMMA FeedTyped == FeedInv /\ Bounded => TypeOK
<1> SUFFICES ASSUME FeedInv, Bounded PROVE TypeOK
  OBVIOUS
<1> DEFINE Signal == [kind : Kinds, lines : Nat]
           Dates  == [kind : Kinds, lines : 0..MaxLines]
<1>1. lines \in 0..MaxLines /\ Len(emitted) \in 0..MaxSignals
  BY FeedAssumption DEF FeedInv, FeedTypes, Bounded
<1>2. emitted \in Seq(Dates)
  <2>1. emitted \in Seq(Signal)
    BY DEF FeedInv, FeedTypes
  <2>2. \A x \in Signal : x.lines <= lines => x \in Dates
    BY <1>1, FeedAssumption
  <2>3. \A i \in 1..Len(emitted) : emitted[i].lines <= lines
    BY DEF FeedInv
  <2> HIDE DEF Signal, Dates
  <2>4. \A i \in 1..Len(emitted) : emitted[i] \in Dates
    BY <2>1, <2>2, <2>3
  <2> QED
    BY <2>1, <2>4
<1>3. handled \in [Sessions -> 0..MaxSignals] /\ zk_stage \in [Sessions -> 0..MaxSignals]
  <2>1. \A s \in Sessions :
           handled[s] \in 0..MaxSignals /\ zk_stage[s] \in 0..MaxSignals
    BY <1>1, FeedAssumption DEF FeedInv, FeedTypes
  <2> QED
    BY <2>1 DEF FeedInv, FeedTypes
<1>4. ASSUME NEW s \in Sessions, NEW shot \in Shot, OfThePast(shot, s)
      PROVE  shot \in Snapshot
  BY <1>1, <1>3, <1>4, FeedAssumption DEF OfThePast, Shot, Snapshot
<1>5. \A s \in Sessions : snap[s] \in Snapshot /\ shown[s] \in Snapshot
  BY <1>4 DEF FeedInv, FeedTypes
<1>6. snap \in [Sessions -> Snapshot] /\ shown \in [Sessions -> Snapshot]
  BY <1>5 DEF FeedInv, FeedTypes
<1> QED
  BY <1>1, <1>2, <1>3, <1>6 DEF TypeOK, FeedInv, FeedTypes, Bounded

(* For any number of sessions, workers, lines and signals the state has its *)
(* type, and streamers that wait for the lock hold no more workers than     *)
(* there are.                                                               *)
THEOREM FeedTypeCorrect == Spec => []TypeOK
<1>1. Init => Bounded
  <2> SUFFICES ASSUME Init PROVE Bounded
    OBVIOUS
  <2>1. Busy = {}
    BY DEF Init, Busy
  <2>2. Cardinality(Busy) = 0
    BY <2>1, FS_EmptySet
  <2>3. lines = 0 /\ Len(emitted) = 0
    BY DEF Init
  <2> QED
    BY <2>2, <2>3, FeedAssumption DEF Bounded
<1> QED
  BY <1>1, FeedStart, FeedStep, BoundedStep, FeedTyped, PTL DEF Spec
================================================================================
