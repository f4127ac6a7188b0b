# Cyborg Agent: TLA+ models, checks and proofs

The Cyborg Agent (`Cyborg-smart-client`) is one tokio process on a miner. It
answers health checks on port 8080, serves websocket clients on port 8081
(authentication, an `Init` report, a stream of usage figures), watches D-Bus for
the zk stage of the miner, and follows container logs with `kubectl`. This
directory models the concurrent core of it and the small algorithms it decides
with in TLA+, checks the models with TLC on small instances and proves every safety
property with TLAPS for every value of the constants.

    tlc -workers 2 -config MCWsSession_safety.cfg MCWsSession     a run
    tlapm WsSessionProofs.tla                                     the proofs

`PROJECT.json` lists the components, the runs, the faults each property detects
(an operator whose comment starts with "Fault:" replaces the definition of the
code), the source lines of every definition, the findings, the hazards and the
theorems.

## 1. Inventory

| Component | Source | State | Operations |
|---|---|---|---|
| websocket session | `client/mod.rs:151-275` | the split socket, `ws_sender` (tokio Mutex), `diffie_hellman_key` (RwLock), `zk_stage` (tokio Mutex), `log_storage`, `streaming_task` | handshake; one handler per frame kind (Auth, Init, Usage, Test, invalid, ignored); end of stream |
| authentication, session key | `auth/mod.rs`, `crypto/mod.rs` | the key, set once | decode, verify signature and timestamp, key pair, shared secret, spawn an aggregator, answer |
| usage streamer | `api/usage/mod.rs` | its copy of the key, an interval | start, snapshot, send, report an error, panic |
| Init report | `api/init`, `api/location`, `api/specs` | none | location (gpspipe, else HTTP), health, specs (free, df, sysinfo) |
| zk stage watcher | `api/dbus.rs` | a D-Bus connection and stream | connect, store a signal, ignore it, end |
| log aggregation | `api/logs/mod.rs` | `log_storage`, the log file | follow kubectl; read the log file under flock |
| client errors | `error_handling/mod.rs` | none | an error as a message |
| process | `main.rs`, `client/mod.rs:284-325`, the unit file in the installer | two listeners, the runtime | accept, spawn, select!, drop the runtime; systemd restarts |
| HTTP health check | `client/mod.rs:89-149`, `api/health_status` | a 1024-byte buffer | one read, one or two answers |
| configuration file | `config.rs`, `config/migrations` | `~/.config/cyborg/config.toml` | create (with or without `--force`), load, migrate |
| request and command macros | `macros.rs` | none | `make_request!`, part of the Init report's specs; the others serve the CLI |
| formats, CLI table, `Command` derive | `formats.rs`, `cli/`, `proc.rs` | none | conversions and generated code nothing in `main` reaches |

How they interact. `run_client` spawns the two accept loops and returns when
either ends. An accepted websocket is one task, the receive loop **R**; R spawns
the watcher **W** at once and, for the first `Usage` request, the streamer **S**.
R and S share the sink, the key and the stage; W shares the stage. Every accepted
Auth spawns a log aggregator. None of these tasks is stopped when R ends: each has
to notice by itself, and those that do not (W, the aggregators) outlive the
session. The aggregators and `gpspipe` block the worker thread they run on.

What is hard, and what makes each part correct:

* *Session.* R and S interleave at every await. Each copies the key before it
  awaits and uses the copy afterwards; S reads the stage, then waits for the sink.
  Correct: data is always sealed under the session's one key; answers come one for
  one and in order; nobody keeps the sink; stages do not go back; a lost client is
  noticed by whoever sends.
* *Key.* Repeated handshakes keep the old secret and answer with a new public key.
  Correct: exactly the first answer lets the client derive the key.
* *Process.* Workers and descriptors are finite, tasks leak, and the end of one
  accept loop has to become a restart of both. Correct: a health check is answered
  and a lost listener comes back unless workers are blocked.
* *Health check.* A request may arrive in pieces. Correct: 200 only for a health
  request, and an answer to whatever arrived.
* *Configuration.* The test and the write are apart, and a process may be killed
  in between. Correct: without `--force` a file that was there stays; whoever wrote
  last left a file that loads.
* *Authentication.* The owner is read when a connection is accepted, the window is
  on unsigned seconds of a clock anybody may set. Correct: exactly the requests of
  that owner, inside the window, are accepted.
* *Init report.* Readers follow one another and each may fail or panic; children are
  left unwaited for. Correct: a report is made of its own request's data, its numbers
  are right, and there is a bound on how many there can be.
* *Miner feed.* Stage and log of a snapshot are read apart, the log under a lock that
  blocks a worker. Correct: no line is torn, the log is never older than the stage
  beside it, nothing goes back, and the last stage is shown in the end.

## 2. Modules

| Module | Models | Proofs |
|---|---|---|
| `WsSession` (`MCWsSession`) | one websocket session: R, S, W, client and network | `WsSessionProofs` |
| `SecureChannel` | what a session promises about its data: the abstract specification | (implemented by `WsSession`) |
| `AgentRuntime` | the process: accept loops, workers, descriptors, leaked tasks, restart | `AgentRuntimeProofs` |
| `Service` | what the process promises from outside: the abstract specification | (implemented by `AgentRuntime`) |
| `Authentication` (`MCAuthentication`) | the verdict on an Auth request, over a clock and an owner file that change | `AuthenticationProofs` |
| `InitReport` | `get_init`: its readers, its numbers, the children it leaves | `InitReportProofs` |
| `MinerFeed` | the miner's stages and log in the snapshots of several sessions | `MinerFeedProofs` |
| `HttpHealth` | one connection to port 8080 | `HttpHealthProofs` |
| `ConfigFile` | concurrent `create-config` processes and the file they leave | `ConfigFileProofs` |

`WsSession` also has `WsSessionOrderProofs`, on the queue for the sink and the order
of answers.

How the modules fit together. `WsSession` takes the verdict on an Auth, the outcome of
`get_init` and the next stage as choices, so that every behaviour of `Authentication`,
`InitReport` and `MinerFeed` is one it allows; those modules look inside the choice.
`AgentRuntime` in turn takes a session as what it does to the process. Only `WsSession`
over `SecureChannel` and `AgentRuntime` over `Service` are checked and proved as
refinements; the split along the choices is by reading.

### WsSession

| Variable | In the code |
|---|---|
| `rpc`, `reply`, `frames` | where R is in `handle_ws_connections`, the answer it is about to send, how many frames it took |
| `diffie_hellman_key`, `accepted` | the key; the number of accepted Auths (each makes a key pair) |
| `ws_sender` | the queue of the sink's tokio Mutex, which is FIFO-fair; the head holds the guard |
| `streaming_task`, `skey`, `smsg` | S and its locals; `"none"` is `Option::None`, and no ended state returns to it |
| `watcher`, `zk_stage`, `signals` | W, the stage, the signals emitted |
| `link`, `out` | the connection as the agent's socket sees it, and the frames in its send buffer |
| `sent`, `streamed`, `asked`, `replies`, `wanted` | history variables the properties speak of; no guard reads them |

The grain is the await point: what happens between two awaits of a task is one
action, since a handler of the receive loop shares nothing outside locks it takes
in that stretch. An answer is therefore three steps (prepare, queue for the sink,
send) and a streamed snapshot is three as well (snapshot, queue, send). The guard
of R and of S lives to the end of the send, so the send and the release are one
step.

Abstractions. A frame is its kind: what makes an Auth acceptable (hex, signature,
time window) is one nondeterministic verdict, because no property of the session
depends on which test failed (`Authentication` has them); the public key of the wrong length is kept apart
since it panics. The key is the pair of the client's and the agent's ephemeral
key. A snapshot is the stage it shows; a stage is the number of its signal, so
that "newer" has a meaning. Figures, wording and nonces are left out. The locks of
the stage and of the key are held over no await and so are part of a step. `df`,
`flock` and the other reads of a snapshot are assumed to return or panic
(`StreamPanics`). A poisoned RwLock cannot occur: nothing panics while it is held.
A socket whose client closed takes one more send and then fails; a client that
vanishes leaves the buffer to fill until TCP gives up.

### SecureChannel

Three variables (`key`, `delivered`, `open`) and three actions (`Establish`,
`Deliver`, `Close`). The mapping reads the key as it is, `delivered` as the data
messages among `sent`, and `open` as "the link is up or lost". An Auth that is
accepted again, a test message or an error is a stutter.

### AgentRuntime

A session is a number here, with the two things it does to the process: an
accepted Auth makes an aggregator (`queued`, then `following` on a blocked worker,
`yielded` when tokio's cooperative budget makes it yield at the storage's lock), an
Init blocks a worker on `gpspipe` (`locating`). `WorkerFree` guards every step of a
task. `Fds` counts the descriptors held for as long as somebody else pleases: the
listeners, a socket for every session and every HTTP connection, a watcher's D-Bus
connection, the pipe of `kubectl` and the two of `gpspipe`. `FdFree` guards the steps
that take one of these. Descriptors held for a moment (`df`, the log file, the HTTP
client, sysinfo) are not counted, and so a step that needs one may fail, in the model,
at any time and not only when the count is full; an accept that fails ends its loop.
Of the HTTP connections one is the health check the properties follow (`probe`), which
may be any; `callers` are the others, served at the same time, and each may stay silent
for ever since the read has no timeout. `MainReturns` runs on the main
thread, which no worker blocks. Dropping the runtime drops every task that is not
blocked and waits for those that are; then systemd starts the process again
(`Restart=always`). Also abstracted: tokio's pool of blocking
threads, which the agent's own code does not use, and the memory of a session.

### Service

Two variables: the phase (`serving`, `degraded`, `stopping`, `stopped`) and a health
check. The agent stops only after a listener was lost, serves again only after it
stopped altogether, and answers or refuses a health check it has taken before it
stops. In the mapping a process is `degraded` when an accept loop is dead, `stopping`
while the runtime drains; sessions, workers, descriptors and children are stutters.

### Authentication

| Variable | In the code |
|---|---|
| `now` | `SystemTime::now()` in seconds, -1 before the epoch, where `duration_since` fails |
| `file` | `task_owner.json` as the miner writes it, all its versions so far |
| `sessions` | `public_key_bytes` of each connection, read once when it is accepted |
| `last` | history: the request handled last and its verdict |

`ClockMoves` sets the clock anywhere, forward or back. A request has a signer, a date,
a text (`plain`, `wrapped` in `<Bytes>`, or `junk`) and two hex fields that are good,
of the wrong length, or no hex. `Verdict` has the order of the code: both fields are
decoded, then the key is copied (and panics if it has the wrong length), then the
signature and the window are tested. `Minus` is the subtraction of u64 in a release
build, modulo `Width`. A signature is the signer it names: sr25519 is external.

### InitReport

`step` is the reader `get_init` is at. A position is a whole number of the smallest
steps `f64` has near it, `Grain` steps to a micro-degree; `Rounded` is `f64::round`,
halves away from zero, and `AsI32` the saturating cast. `return_total_storage` is the
loop over `df`'s lines as a fold, wrapping at `Width`. `zombies` counts the `free`
children, which are spawned for a pipe and never waited for; all else that runs is
waited for. A report needs two free places at the same time (`free` and `grep`).
ipinfo.io's "NaN", which parses as a float, is left out: it casts to 0.

### MinerFeed

The miner is external: only that it writes under the exclusive lock, in more than one
write a line, and that D-Bus delivers in order, is assumed of it. A streamer that waits
for the lock holds its worker (`Busy`), since `flock` blocks; `WorkerFree` guards
every step another task begins. Stage and log are read in that order, in different
steps. A signal that is not a u8 is passed over, a malformed one ends the watcher.
The miner's death in the middle of a line (which frees its lock) and the rotation of
the log are left out: nothing in this repository says what the miner does then.

### HttpHealth

The handler reads once. A request line is a sequence of words, and what has arrived
of it is a number of words and perhaps the beginning of the next. `Responses` is
the control of the handler, the second 404 after a line of three words included. A
header section that does not fit the buffer comes after the request line and so
never changes the answer.

### ConfigFile

`fs::write` is an open that truncates and a write of the whole string from the
start of the file, so two writers can leave the tail of a longer file behind a
shorter one (`Garbled`). A killed creator may leave the file empty. `Load` is
`load_config` as far as its result goes; `main` has the call to it commented out,
so there is no action for it. Two creators without `--force` may both find no file,
and the later write wins: no document promises otherwise, and `ExistingFileKept`
speaks of a file that was there from the start.

## 3. Runs

`CHECK_DEADLOCK FALSE` stands in every configuration because everything here
really stops: sessions and processes end, counters reach their bounds.

| Run | Instance | Shows |
|---|---|---|
| `session_safety` | 2 client keys, 4 frames, 1 signal, buffer 1; keys symmetric; 2.1 million states | type invariant; keys, answers, stages and the sink's queue are never mixed up; refinement of `SecureChannel` |
| `session_live` | 1 key, 3 frames, 1 signal, buffer 1; 200 000 states | the sink is obtained, disconnects are noticed, stages arrive |
| `session_usage_retry` | 1 key, 3 frames | **violation**: a `Usage` request after a failed one is never served |
| `session_bad_key` | 1 key, 2 frames | **violation**: a public key of the wrong length ends R without an answer |
| `runtime_service` | 2 workers, 5 descriptors, 3 silent HTTP connections, 2 sessions, 2 Auths, 1 Init, 2 starts; 63 000 states | type invariant, accounting of leaked tasks; health checks are answered beside silent connections, a lost listener comes back and used-up descriptors are free again, as long as no worker is blocked; refinement of `Service` |
| `runtime_health` | 2 workers, 1 connection, 2 Auths | **violation**: two Auths stop every health check |
| `runtime_restart` | 2 workers, 1 Auth, 2 starts | **violation**: a blocked worker keeps the old process from exiting |
| `health_answers` | all lines of up to 4 of 4 words; 43 000 states | 200 only for health requests; every arrived line is answered |
| `config_create` | 2 creators, every initial file, kills anywhere; 2 300 states | an existing file is kept; the last successful creator's file loads |
| `authentication` | 2 accounts, 2 connections, 1 new owner, clock up to 4 and below the epoch, window 2, u64 of 6 values; accounts and connections symmetric; 40 000 states | exactly the requests of the owner at opening, inside the window, are accepted |
| `init_report` | positions of -7..7 steps, 4 to a micro-degree, an i32 of -2..1, 2 `df` lines, u64 of 6 values, 3 processes, 4 Inits; 1.1 million states | place and disk space of every report are right, and reports are bounded |
| `miner_feed` | 2 sessions, 1 worker, 1 line, 2 signals; 480 000 states | snapshots are whole, show stages that were signalled, cover their stage and do not go back; the last stage is shown |

Why these bounds are enough. Four frames are an Auth, a second Auth, a Usage and an
Init in any order, with panics and disconnects between; a fifth repeats one of them.
One client key would hide whether the key of a later Auth of *another* key pair wins,
two do not. A buffer of one makes every second send wait. The descriptors can be used
up by HTTP connections alone and by leaked watchers with one of them, and the two
Auths and the Init are one blocking task more than there are workers. A u64 of six
values lets a date lie in the future and wrap into the window if the guard did not
stop it, and two disks overflow it. Positions reach beyond the i32 on both sides and
have halves between them. Three processes are used up by four Inits. With one worker a
streamer that waits for the log holds up everybody else. The safety properties do not
rest on the bounds: all of them are proved.

Symmetry is used in `session_safety` and `authentication`, where no liveness is
checked. `ClientKeys` and `Sessions` occur in no definition but as sets, `Owners` only
as a set and in comparisons for equality, so every permutation of them maps behaviours
to behaviours, and the action properties and the refinement are invariant under it.

Fairness. Weak fairness on a step of a task says that the scheduler polls a task that
is ready: tokio runs every ready task on some worker (in `AgentRuntime` only a worker
that is not blocked). Queueing for the sink is FIFO, hence no fairness is needed to
obtain it beyond that of the holder's send. `ClientRead` is weakly fair: a client that
stays connected is *assumed* to read. One that does not, and keeps its receive window
at zero, is no case of `ClientVanishes`, since TCP goes on probing a peer that
answers: its send, and the sink with it, would wait for ever, and no timeout in the
code ends that (a hazard without a property). `LinkTimesOut` is weakly fair with data
in flight only: TCP gives up retransmitting, but never speaks up on an idle
connection, and there is no ping. Restarts are weakly fair (systemd). The accept loop
of port 8080 is polled while a health check waits (`HttpPolled`): it takes it or,
without a descriptor, ends. The backlog is served in turn, so other callers do not
take every descriptor that comes free. Not fair: frames, signals, health probes,
`get_init` (`InitReady`), `kubectl`, an aggregator's yield, `gpspipe`, disconnects,
kills, new lines and signals of the miner, a log that cannot be read. So a session may
sit in `get_init` for ever, and `TornDownAfterDisconnect` says so. In `MinerFeed` the
miner is weakly fair once it has the lock: it goes on and gives it back. The steps of
a watcher and of a streamer need *strong* fairness there, since a free worker and a
free lock come and go: tokio's queues are served in turn, and `flock` wakes those who
wait when the lock is given back. That the *miner* gets its lock is not assumed:
shared locks may overlap for ever.

## 4. Proofs

TLAPS proves, from the named assumptions on the constants only (`KeyAssumption`,
`BoundAssumption`, `RuntimeAssumption`, `CreatorsAssumption`, `AuthAssumption`,
`ReportAssumption`, `FeedAssumption`, `WordsAssumption`), for all
keys, bounds, buffers, numbers of workers, descriptors, creators, accounts, positions
and words:

| Theorem | Inductive invariant, and why it is needed |
|---|---|
| `TypeCorrect` | `TypeOK` of the session is inductive on its own; one step per action |
| `DataSealed`, `FirstHandshake`, `KeyIsAgreed` | `SessionInv`: `TypeOK`, `KeyAgreed`, and of every message sent or prepared that it is sealed under the key there is now and that an Auth answer is for that key exactly when it is the first. The key is written at most once, so no later write falsifies a message in `sent` |
| `SessionIsChannel` | `SessionInv` and `ReportIsError`. The lemma `ChannelStep` sends the first accepted Auth to `Establish`, a send of data to `Deliver`, the end of the link to `Close`, everything else to a stutter |
| `StagesInOrder` | `StageInv`: the stage put on the wire last is no newer than the snapshot in hand, and that no newer than the stage |
| `SenderQueueIsRight` | exactly the tasks that send are queued, none of them twice. `QueueInv` spells the queue out (empty, one task, or both in either order): from the property alone a step could not tell what is left behind the head |
| `AnswersInOrder` | `OrderInv`: the answer *prepared* is right for the request it is owed to, and the key is there iff an Auth answer was sent or is prepared, which decides whether an Init may be refused |
| `RuntimeTypeCorrect`, `TasksAreAccountedFor` | `RuntimeInv`: both properties, and that a draining process has no caller, watcher or yielded task left, which is why one that exited holds nothing |
| `AgentIsService` | `ViewTypes`, the types of what the mapping reads; `ServiceStep` goes through the actions |
| `AuthTypeCorrect`, `OwnerOfOpeningHolds`, `WindowHolds` | `AuthInv`: an open session has the owner of the version it read, and versions are never rewritten; the lemma `WindowIsExact` is the arithmetic modulo `Width` |
| `ReportsAreBounded` | `ProcessInv`: a request past the memory reader has left a zombie no report has been counted for yet |
| `ReportTypeCorrect` | `ReportTypeInv`: `TypeOK`, and that a request in hand has not been counted as a report yet, which keeps the count within its bound; the disk space is in a u64 by `TotalIsSpaceOfDevices`, the place in an i32 by `ConvertedIsNearest` |
| `TotalIsSpaceOfDevices` | no invariant: for every table, what the loop over the lines adds up, wrapping at every line, is the space of the devices modulo `Width` |
| `DiskIsSumOfDevices` | `DiskInv`: past the disk reader, and in a report, the figure is the one of this request's table; the rest is `TotalIsSpaceOfDevices` |
| `PlaceIsNearest` | `PlaceInv`: past the location the coordinates are of this request's position; `ConvertedIsNearest` is about rounding and saturating, for every grain and span |
| `LinesAreWhole`, `StagesAreCovered`, `FeedGoesOn` | `FeedInv`: every snapshot, taken or shown, is of the past (`OfThePast`), and the one being taken is no older than the one shown |
| `StagesSignalled` | `SignalInv`: a watcher still starting holds no stage. Starting jumps past the signals emitted before it, so a stage held earlier could no longer be the newest one handled |
| `FeedTypeCorrect` | `FeedInv` and `Bounded`: a streamer begins to wait only where a worker is free |
| `HealthTypeCorrect`, `OnlyHealthRequestsAreOk` | `HealthInv`: what was read is a beginning of what arrived, cut between or inside words; `ResponsesAreRight` is the handler as a function |
| `ConfigTypeCorrect` | `TypeOK` is inductive on its own |
| `ExistingFileIsKept` | `KeptInv`: where nobody forces no creator gets past the test of a file that was there from the start |
| `SucceededCreatorLoads` | `WriterInv`: without overlap only the last creator to truncate is about to write, and the file is empty until it does |

The sum over `df`'s lines is a fold, which rests on a recursive function chosen with
CHOOSE; the induction theorems of the library take an operator and cannot be used. The
lemmas of `InitReportProofs` go around that: `NatSetInduction` is induction for the *set*
of naturals with a property, from the least-element principle (`WFMin`);
`RecursionOnSubsets` shows that the recursion of the fold has a solution, so that CHOOSE picks one;
`AnyOrder` and `SumAlong` take the sum apart in any order and along a sequence; and
`ModAdd` lets the code wrap at every line where the property wraps once.

Only model-checked: the liveness properties, since fairness and ENABLED are beyond the
prover.

## 5. What the runs found

1. `session_usage_retry`: `streaming_task` is set on the first `Usage` request and
   never reset. A request before authentication ends S with an error that asks the
   client to try again, and every further request on that connection is ignored.
2. `session_bad_key`: an ephemeral public key of a length other than 32 bytes is
   noticed, printed and then panics in `copy_from_slice`.
3. `runtime_health`: aggregators read `kubectl`'s output with blocking reads on
   runtime workers, one per accepted Auth, and outlive the session. While `kubectl`
   is silent, as many of them as there are workers stop everything.
4. `runtime_restart`: after the loss of an accept loop the process waits for the
   blocked workers before it exits, so `Restart=always` does not come into play.

## 6. Not modelled, and the plan

The order was: the session first (it is what the program is for), the channel it
promises, the process around it, the two small sequential parts, then what the session
left to choice (authentication, report, feed) and the service the process amounts to.
What is left to do, in order:

1. A specification of the miner, if its repository comes into reach: its death in
   mid-line and the rotation of `worker_log.txt` would then be actions of `MinerFeed`.
2. The composition of sessions with the runtime's workers as one module: today a
   session step needs a worker only in `AgentRuntime`, where it is abstract.
3. More than two frames in flight and larger buffers in `session_live`, whose state
   space is what bounds it.

Left out for good, and why:

* The log storage: it is only ever pushed to. `retrieve_new_logs` has no caller, so
  there is no order, loss or bound to state; only the aggregators' workers,
  descriptors and children count.
* `formats.rs`: deserializers of a request type nothing constructs.
* `proc.rs`, `clap.rs`, `cli/` and the macros of `macros.rs` other than
  `make_request!` (used at `specs/mod.rs:58`): compile-time code generation and a
  command table `main` never reaches.
* The commented-out client at the end of `client/mod.rs` and the unit tests, which
  `main.rs` does not compile.
* The installer's downloads: shell I/O; only `Restart=always` is used.
* The cryptography itself: sealing is a pair of key and data, a signature a pair of
  signer and text.
* The places in the process table that `sudo kubectl` children keep when they end:
  when they do is outside the agent, and `InitReport` has the same effect for `free`.
* Names, versions, usage figures and addresses, which nothing in the agent tells
  apart (the page ifconfig.me sends is reported whatever its status says).
