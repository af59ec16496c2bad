# Verification of radar-egui

TLA+ specifications of the concurrent parts of radar-egui, a desktop program
(Rust, egui) that runs on the radar operator's machine in a RoboMaster match.
It starts and watches the external programs of a match, exchanges frames with
the referee system over a serial port, bridges data over ZMQ, and shows video,
point clouds and a map.  Paths below are relative to the crate (`src/`,
`docs/`).

Every module is written from the source; `PROJECT.json` maps each definition to
the lines it stands for, lists the runs, the theorems, the mutants each property
is tested with, and the hazards in the code that the properties are for.

## 1. The system

| Component | Source | State it keeps | Status |
|---|---|---|---|
| Process actor | `services/process_runtime.rs` | command channel, `ProcessSnapshot`, pending `Sequence` / `FailedSequence` / `LaserConfiguration`, one deadline | modelled |
| Script runner | `services/script_runner.rs` | child handles, active laser script, ffplay handle; indirectly the laser daemon and its FIFO | modelled |
| Process control facade, buttons | `services/process_control.rs`, `app/laser_process_controls.rs` | a watch receiver | modelled: what the panel offers, what the facade sends |
| Serial lifecycle | `app/mod.rs`, `serial/serial.rs` | open flag, stop flag, health flag, two thread handles, notification slot | modelled |
| Radar decision | `serial/serial_parser.rs`, `serial/serial.rs` | `radar_cmd`, last game progress, chance counts | modelled |
| Serial framing | `serial/serial_parser.rs`, `serial_package.rs`, `serial_crc.rs` | byte buffer of unparsed input | modelled |
| ZMQ bridge | `zmq/zmq.rs`, `runtime/mod.rs` | rate-limit stamps, notification slot, PUB channel | modelled |
| Laser video reader | `laser/video.rs`, `app/video_texture.rs` | mapping of the shared memory, last sequence number, last frame, texture | modelled |
| Point cloud reader | `pointcloud/reader.rs` | as above, and the number of the cloud last given to Rerun | modelled |
| PCD viewer | `pointcloud/pcd_viewer.rs`, `pcd_loader.rs` | generation, status, bounded event channel, progress slot | modelled |
| Shared state | `state.rs`, `shared_data.rs` | the mutex-protected `SharedData` | partly: in the modules of the threads that use it; the robots' ids in `RobotInteraction` |
| Laser observation decoding | `laser/protocol.rs`, `laser/observer.rs` | none | not modelled: a straight-line decoder no running code starts |
| Visualisation | `rerun_visualizer.rs`, `pointcloud/rerun_visualizer.rs`, ... | a Rerun stream | not modelled: output only |
| User interface | `app/*.rs`, `widgets/`, `theme.rs` | the serial log; layout | partly: the process panel (`ProcessUi`) and the serial log (`RefereeViews`); the rest is drawing |
| Entry point, logging | `main.rs`, `logging.rs` | none | not modelled |

### How the components interact

* The UI thread runs `RadarApp::update` every 100 ms.  It owns the
  `ProcessControl`, whose calls only put a command in an unbounded Tokio channel
  and never block; it reads the actor's state from a `watch` channel.
* The process actor is one task on its own thread.  It owns the script runner
  and calls it synchronously.  It takes commands, the expiry of its deadline and
  a periodic probe in one `select!`, so each handler runs to its end before the
  next one starts.
* The processes live outside: they end when they like, and a laser *wrapper
  script* leaves behind a daemon that the program can reach only through a FIFO
  and `pkill`.
* The serial receiver parses frames into `SharedData` and notifies the ZMQ PUB
  thread and the serial transmitter; the ZMQ SUB thread writes coordinates into
  `SharedData` and notifies the transmitter through a slot that the UI fills
  when it opens the port and empties when it closes it.
* Video and point clouds arrive in shared memory from another process; two
  reader threads poll it.

### What is hard, and what correct means

* **Process actor and script runner.**  A command, a deadline, a probe and the
  death of a child race.  A start that fails half way leaves a *failed sequence*
  that can be resumed much later, after other things were started and stopped.
  One deadline serves two kinds of pending operation.  The snapshot duplicates
  the runner's handles.  Correct means: no orchestration is mixed with another
  one, what is shown is what runs, nothing pending is stuck or outlives its
  cancellation, a resumed start stands on what it started, and closing the
  application ends and gives every handle back.
* **Serial lifecycle.**  Closing joins a thread that blocks in `recv()` without
  a timeout: everything depends on the order in which the senders are dropped.
  Workers may fail on their own.  Correct means: no worker of a closed
  connection survives, closing ends, a dead worker is noticed.
* **Radar decision.**  A counter that has to follow a match is driven by frames
  that may be lost or repeated.
* **Shared-memory readers.**  No lock with the producer: torn frames, stale
  indices, restarts of the producer.
* **ZMQ bridge.**  The SDR sends as fast as it likes into an unbounded channel
  whose reader sleeps; what is sent is read when its turn comes.  Correct means:
  the rate limits bound the backlog, coordinates are not sent long after they
  expired, a frame's sender and receiver are of one team, and whoever listens to
  the PUB sockets ends up with what `SharedData` holds.
* **Serial framing.**  A stream cut anywhere, with damage in it.  Correct means:
  the reads do not matter, and damage costs at most one frame's length.
* **PCD viewer.**  Progress goes through a slot and events through a channel, and
  a file may be rewritten, with other fields even, between its two openings.  Correct
  means: one load at a time, a status that is about the right load and true of it, every
  point with its own colour, and an end to every load.

## 2. The modules

| Module | What it is |
|---|---|
| `ScriptRunner` | the runner's state, its operations as fragments of steps, and what the external programs may do on their own |
| `ProcessActor` | the actor: EXTENDS the runner; one action per command, per deadline branch and for the probe |
| `ProcessUi` | the facade's calls and the panel: which commands are offered by the snapshot it was drawn from |
| `ProcessActorProperties` | what the actor and the panel promise |
| `StartAllOrder` | abstract specification of Start All, implemented by `ProcessActor` |
| `MCProcessActor` | sets of commands for TLC |
| `ProcessActorProofs` | the theorems about it: the runner's operations, the handlers, the order of Start All |
| `SerialLifecycle`, `SerialLifecycleProperties`, `MCSerialLifecycle` | opening and closing the port: UI, receiver, transmitter and SUB thread; what they promise |
| `SerialProofs` | the theorems about it, and those about `SerialFraming` |
| `RadarDecision` | `radar_cmd` over a sequence of matches, against the referee; with its properties |
| `RefereeViews` | EXTENDS `RadarDecision`: the ZMQ PUB thread and the serial log of the UI, which watch the same data |
| `RefereeViewsProofs` | the theorems about `RadarDecision`, that `RefereeViews` implements it, and the theorems about the watchers |
| `RobotInteraction` | the robots' ids and the three `u16` in front of a 0x0301 |
| `SdrBridge` | EXTENDS `RobotInteraction`: the SUB thread's SDR messages, the rate limits, the transmitter with its sleeps, in discrete time; with its properties |
| `SdrBridgeProofs` | the theorems about it |
| `SerialFraming`, `MCSerialFraming` | framing of packages and the sliding-window parser, on a stream cut anywhere; with its properties |
| `ShmProducer` | external: the producer of a double-buffered shared-memory object, its restarts and deaths |
| `VideoReader` | EXTENDS `ShmProducer`: the polling task, the cell, the UI's texture; with its properties |
| `PointCloudReader` | EXTENDS `ShmProducer`: the same for point clouds; with its properties |
| `ShmProducerProofs`, `VideoReaderProofs`, `PointCloudReaderProofs` | what a reader may rely on, and the theorems about the two readers |
| `PcdLoader` | `load_pcd` as operators on headers and records |
| `PcdViewer`, `MCPcdViewer` | EXTENDS `PcdLoader`: the viewer's UI side, its workers, slot and channel; with its properties |
| `PcdLoadJob` | abstract specification of the viewer's status line, implemented by `PcdViewer` |
| `PcdViewerProofs` | the theorems about `PcdLoader` and `PcdViewer` |

### ScriptRunner

`child[c]` is the handle of a component: `"none"`, `"alive"`, or `"exited"` (the
process ended and `poll_exits` has not reaped it).  `side[c]` is the side the
process was last given: the `--side` argument for radar and SDR, the `enemy`
command for the laser (named by the side the configuration is *for*).  `active`
is `ScriptRunner.active`.  `daemons` and `fifo` are not fields of the code; they
are the two things it controls without owning them.  A daemon is `"owned"`
while the wrapper that launched it holds the laser handle and an `"orphan"`
afterwards, whether the wrapper was reaped by a probe or killed by a stop it
outran.

`StopDaemon` follows `stop()`: it does anything to the daemon only while `active`
is a daemon script, and it kills the wrapper *after* the `pkill`, so a wrapper
that had not launched its daemon may do so in between.  `ConfigureLaser` is
three FIFO writes and stops at the first that fails; its failure may come after
the enemy was delivered.  The section "Environment" lets any child exit, the
wrapper launch its daemon, and a daemon end with or without removing the FIFO.

### ProcessActor

A step is one turn of `select!` with all the backend calls of its handler.
That is the grain the code has: the actor owns its state, the calls are
synchronous, and nothing else writes the snapshot.  What the outside can do in
the middle of a handler is in the operation it matters to (the launch during
`stop`, the daemon that is up before the FIFO writes of the same turn).

| Code | Specification |
|---|---|
| `ProcessRuntime::send` | `Send` |
| `Drop for ProcessRuntime` | `DropRuntime`, `JoinThread` |
| `reject_start_if_busy` | `Busy`, `RejectStart` |
| `handle_command` | `StartAll`, `RetryFailed`, `StartRadar`, `StartSdr`, `StartLaser`, `SendLaserCommand`, `StopRadar`, `StopSdr`, `StopLaser`, `StopAll`, `Shutdown` |
| `advance_sequence`, `sequence_failed` | `AdvanceSequence` and its arms, `SequenceFailed` |
| `configure_standalone_laser` | `StandaloneResult` |
| `finish_component`, `fail_component` | `ComponentStarted` |
| `stop_component` | `StopComponent`, `ManagedPhase` |
| the `sleep_until` branch | `DeadlineSequence`, `DeadlineLaser` |
| the probe, `reconcile_process_exits`, `publish_daemon_availability` | `DaemonProbe` |

Abstractions: the options that only reach a command line (record, stream,
`laser_auto`) and the text of a FIFO command are dropped; an error message is a
Boolean; a time is "armed" or not, an armed deadline may expire at any moment;
the phases that are published and replaced inside a turn (`Starting*`,
`Stopping`) are left out; on `Shutdown` the actor's local variables disappear,
which is modelled as their reset.  `try_wait` failing is treated by the code
like an exit and is covered by it.  The branch for a closed command channel is
not modelled: `Drop` sends `Shutdown` before it drops the sender.

### ProcessUi

Operators on the actor's snapshot, not actions: `Send` already lets the user
send every command at any time, which covers a panel drawn from an old snapshot.
`Offered` is what the panel of the present snapshot has buttons for, and
`ButtonsMatchActor` compares it with what the actor and the runner would do.

### StartAllOrder

What Start All promises with no commands, timers or processes in sight: three
components come up in a fixed order, the first failure pauses the rest, which
can be resumed at the same place; any stop or exit cancels; while it is under
way nothing else is started.  `ProcessActorProperties` instantiates it with
`up` := the managed components, `mode` := which of `sequence` and `failed` is
set, `todo` := the components still to come.

### SerialLifecycle

Every `open_serial` makes its own stop flag, health flag and channel and the
threads capture them, so a connection has a number and what belongs to it is
indexed by the number; a thread that outlived its connection would still read
*its* flags.  `conn` is the connection whose two handles and two flags the UI
holds: the code has four `Option`s, set together in `open_serial` and taken
together in the close.  `slot` is the sender the SUB thread holds.  `late`
counts frames written after the stop flag; it is a history variable.

The UI is a sequence of frames, `reconcile` then `view`, and a close is the
sequence of steps in which it can be interleaved with the workers: empty the
slot, set the flag, join the receiver, join the transmitter.  `open_serial` is
one step: until it returns the UI itself holds a sender, and the new threads
only see flags nobody else has yet.  The lock on `SharedData` is held by the
transmitter while it writes a minimap or decision frame (`tx[c] = "write"`) and
dropped before a broadcast; the actors that need it wait for it.

| Code | Specification |
|---|---|
| `open_serial`, `serial_open_failed` | `OpenSerial`, `OpenSerialFails` |
| `reconcile_serial_workers` | `ReconcileFailed`, `ReconcileHealthy`, `WorkerFailed` |
| `close_serial`, `close_serial_workers`, `on_exit` | `CloseSerial`, `BeginClose`, `SetStop`, `JoinRx`, `JoinTx` |
| `serial_start_receiver`, `Serial::receive_data` | `RxCheck`, `RxRead`, `RxParse`, `RxLeave` |
| the notifications of `SerialParser::parser` | `Notify`, `Batch` |
| `serial_start_transmitter` | `TxCheck`, `TxRecv`, `TxDisconnected`, `TxWrite`, `TxCast`, `TxCastWrite`, `TxLeave` |
| `set_tx_notify`, `notify_tx` | `BeginClose`, `OpenSerial`, `SubNotifies` |
| panics of the two threads, a device that goes away | `RxPanics`, `TxPanics`, `PortLost` (external) |

### RadarDecision

The parser and the transmitter against an external referee.  The parser's
actions are the 0x0001 frame (`ReceiveGameState`), which stores the stage, and
the 0x020E frame (`ReceiveDecisionSync`), which stores the chances and raises or
resets `radar_cmd` by the stage *last heard of*; `Raised` and `Settle` are its
two branches.  `pending` counts the notifications in the channel, and
`SendDecision` sends what `radar_cmd` is when the transmitter gets to one.  A
frame carries the referee's state at the moment it arrives; a frame that is
lost is a `Receive` that does not happen, and `SendDecision` may lose its frame.

The referee goes through preparation, match and settlement, grants up to two
chances in a match, remembers the highest `radar_cmd` it received and carries
requests out one after the other.  `Lossy` says whether a whole settlement may
pass without the program receiving a 0x0001 and, after it, a 0x020E.

### RefereeViews

The parser notifies the PUB thread of a frame *before* it is done with it (the
settlement clears the chance afterwards), but holds the lock to the end of the
batch, so the notification and the change are one step and the publication is
another.  `waiting` is the set of kinds notified and not published: notifications
of one kind are interchangeable, because a payload is built from what `SharedData`
holds by then.  `UiFrame` is `update_serial_state_log`: compare with the
observation of the frame before, push a line for each group that differs, drop
the oldest lines.  `Diff` goes through the three groups as `diff_serial_state` does.
What is compared is not what is shown: of the game a change of the progress (the type
and the timestamp go its way) gives a line as well, but the line has only the time that
remains; of the marks only the `Shown` ones are compared (five of sixteen in the code),
and a line has only the labels that changed.  So a line is a function from the items it
shows to their values.  The payloads and the screen do not affect each other, so a
behaviour follows one of the four (`follows`), and frames the one it follows has no use
for do not arrive in it.

### SdrBridge

The one module with a clock: a tick is 50 ms, the pause after each broadcast
frame and the longest a write takes.  `since` are the two rate-limit stamps of
`zmq_start_sub` (and the referee's 1 Hz 0x020E), `coords` the age of what
`minimap_receive` holds, `queue` the channel, `tx` where the transmitter is.
`AtRest` keeps time from passing while a thread has something to do.
`ChooseTeam` is the panel's `update_shared_team_side`; `BeginBroadcast` copies
sender and targets, `SendDecision` reads the team when its turn comes.

### SerialFraming

One byte per field, a check sum that tells any change of one byte, and no
sequence number (the parser ignores it): the scan, its stops and what it skips
are the code's.  `Receive` appends any prefix of the line to the buffer and calls the
parser, `Turn` is one turn of its loop, `Return` the `drain` behind it.  Nobody can
look at the parser between two turns, but the turns are what the proofs go by.  The
referee may send between any two of them.  `sent` is a history of all bytes, `frames`
of where each frame begins; `at` in what is stored is history as well, the rest of it
is what the code puts into `SharedData`.

### PcdLoader, PcdViewer, PcdLoadJob

A poll is three steps of the UI thread (`TakeProgress` behind a `try_lock`, two
of `DrainEvent`), `start` polls first (`BeginPoll` with a path, then `Start`).
The worker of each generation opens the file for the header, opens it again for
the records, reports progress through the slot (`LockSlot`, `StoreProgress`; the
slot is locked in between), reads record by record and sends at most two events.
`Rewrite` writes any other file in between, also one with other fields.  The records are
then read with the indices of the first header (`ReadWith`): a record whose used fields lie
elsewhere has whatever stands at these indices instead (`OtherValues`, and finite
coordinates or not), and an index it does not have is a panic (`RecordUsable`).
`PcdLoader` decides as `load_pcd` does:
which headers are refused, which colour source is taken, which records are
skipped or end the load, how fallback values become shades.  `PcdLoadJob` knows
none of it: a phase that only goes forward and a count that only grows.

### ShmProducer, VideoReader, PointCloudReader

The producer is another program.  `ShmProducer` is what the readers and the
protocol document (`docs/laser-protocol.md`, `docs/pointcloud-producer-spec.md`)
take it to do: write the buffer `write_idx` does not name, flip, count.  It may
stop at any step, leave its object or unlink it, and come back in a new object
or in the old one: the readers have a branch for each.  For clouds there is a second
kind, `OneShot`, the one `pointcloud-producer-spec.md:41-51` describes: it opens an object of the
name with whatever it holds, writes the header and then one cloud into the *first*
buffer, which `write_idx` already names, sets `frame_seq` to 1 and goes.  Its second
run, while the reader reads the first cloud once more, is a write in place: two halves
of different clouds without any flip.  `inPlace` marks an object from the beginning of such a write
until its cloud is counted.  A picture is two halves,
each carrying the number of the frame it shows, so a torn picture is one whose
halves differ.

In the readers every access to the shared memory is a step, in the order of the
code: sequence number, magic number, index, (count,) first half, second half.
`place` is where the task is, `local` the locals of one turn of the loop with
some history, `cell` the frame behind the mutex (`place = "update"` is
where the video task holds it).  `elapsed` is "more than 800 ms since the last
frame" and may become true at any time.  The loops differ: the video starts from
the sequence number it finds, the cloud from 0; only the cloud reads a count;
only the cloud waits without a timeout for its first frame (`TimedOut`).
`recording` is whether the UI is connected to Rerun: it tries (`Connect`) and may never
succeed, and a build without the feature `rerun` (`Cargo.toml:15,31`, not a default) never does.

| Code | Specification |
|---|---|
| `open_shm` and the branches on its result | `Open` |
| the assignments before the loop | `Attach`, `FirstSeq` (the cloud's are part of `Open`) |
| the loop body | `Stalled`, `NewSeq`, `CheckMagic`, `ReadIndex`, `ReadCount`, then `CopyHalf` or `ParseHalf`, `Update` |
| after the loop, and the sleep | `Disconnect`, `Wait` |
| `shutdown.changed()` | `Shutdown` |
| `ensure_started` | `EnsureStarted` |
| `VideoTextureCache::refresh`, `update_pointcloud` | `Refresh`, `LogCloud` |
| `RerunVisualizer::ensure_connected` | `Connect` |

## 3. The runs

| Run | Instance | Question |
|---|---|---|
| `actor_safety` | all commands, both sides | Do snapshot, handles, pending operations, deadline, phase and buttons stay consistent; can starts for two sides get mixed in one Start All; does the actor implement `StartAllOrder`; does Retry Failed keep what runs? |
| `actor_liveness` | fair; one side, the commands that keep the actor busy | Does a pending operation settle, does closing end with everything given back, is an exit noticed? |
| `actor_stop_all` | expected violation | Does Stop All always end the laser daemon, as `todo.md` says? |
| `serial` | fair; two opens, three notifications in the channel | Does any worker outlive its connection, any sender its channel's close; what is written after the stop flag; does every close get through its joins; is a dead worker noticed? |
| `serial_lost_port` | expected violation, fair | Is a device that is gone noticed, as the design document says? |
| `decision` | fair; two matches, two notifications in the channel, a log of two lines | Does `radar_cmd` start at 0, rise monotonically and stop at 2; is every granted chance asked for; do the PUB sockets and the log tell the truth? |
| `decision_second` | expected violation | Is the second request made during the first effect, as the comment says? |
| `video` | fair; two objects, three frames | What do two buffers guarantee a reader without a lock, whatever dies and restarts; is a counted frame shown, a dead picture cleared, a new object found? |
| `cloud` | fair; two objects, two frames, both kinds of producers | The same guarantee with the count of each frame; does a static cloud come back after each timeout, is an unlinked cloud cleared? |
| `pcd` | fair; two loads, two paths, 15 files of every kind, one rewriting | One load at a time, a true status, each point its colour, an end to every load; does the viewer implement `PcdLoadJob`? |
| `sdr` | the code's periods in ticks of 50 ms; 200 ms for the limit of 2 s | How long does a notification wait, how old are coordinates that are sent, do the teams get mixed? |
| `framing` | noise of up to three bytes, every cut-off and every damaged frame, then up to four frames, read in every way | Do the reads matter; what does damage cost? |

What the properties say:

* `SnapshotTracksRunner`: a component is managed exactly while the runner has a
  handle for it, and the active script shown is the runner's.
* `PendingExclusive`: a running Start All, a failed one and a standalone laser
  configuration exclude one another, and the deadline is armed exactly while
  something waits for it.
* `PrefixStarted`: a Start All that runs, or could be resumed, stands on
  components that are still managed and were given *its* side.
* `PhaseTrue`: the phase the buttons are gated on tells what is pending and does
  not lie about what runs.
* `ButtonsMatchActor`: Start All is offered exactly when the actor would take
  it, Retry Failed whenever something is kept, Stop for what has a handle.
* `StartAllAgrees`, `RetryKeepsStarted`: what a step may never do to a Start All.
* `PendingSettles`, `CloseCompletes` (the thread ends and no handle is left),
  `ExitsNoticed`: liveness.
* `WorkersOwned`, `SlotLive`, `StopsWithinOneFrame`: a running worker belongs to
  the connection shown as open; the SUB thread holds no sender of a connection
  being closed (it would keep the transmitter in `recv()` for ever); at most one
  frame follows the stop flag.
* `CloseReturns`, `DeadWorkerNoticed`: the joins return, a dead worker leads to a
  close.
* `MatchStartsAtZero`, `NeverWithdrawn`, `ChanceRequested`: no request is carried
  over to the next match, none is taken back within one, and no chance is
  wasted by lost frames.
* `WatchersTrue`: a listener who has been told all there is to tell has the
  payload of the present state; the log is bounded, the newest line with an item (the
  time that remains, the site, each label) shows what was observed of it last, and
  neither the site nor a label is shown twice running with one value.  Lines of the
  game do repeat: one is logged when only the progress, the type or the timestamp
  has changed, and shows none of them.
* `BacklogBounded`: what waits in the unbounded channel is at most 8 ticks of
  work.  `NoExpiredMinimap`: no 0x0305 carries an update older than the limit and
  that wait.  `OneTeam`: whatever the user clicks, the ids of a frame on the wire
  are of one team.
* `CutIndependent`: what is stored is what one pass over all bytes would store, what
  is kept is what it would leave over, and that is less than one frame.
  `Resynchronises`: of the frames that begin one longest frame after the damage, and
  of all frames if there is none, exactly those that decode are stored, in order and
  as soon as they have arrived.
* `LoadsApart`, `StatusIsTrue`, `ColoursMatchPoints`, `ImplementsJob`,
  `LoadSettles`: the PCD viewer, as in section 1.
* `PictureSound`, `CloudSound`: the two guarantees the order of the reads gives
  without a lock, each within one life of the producer: a picture is whole if the
  buffers were not flipped during the copy, a cloud if besides no single cloud was begun in its
  place, and neither is older than its number.
* `Delivered`, `Reattaches`, `DeadPictureCleared`, `StaticCloudShown`,
  `UnlinkedCleared`: the timeout swallows no counted frame; a reader of a dead
  object comes over to the new one; old pictures go away, old clouds come back, and
  those of an object that is gone do not.  `Delivered` is about the cell behind the mutex: the
  texture skips a picture with the number of the one it has (`video_texture.rs:22-28`);
  and a producer that begins anew, in the same object or in another, excuses the frame.

Bounds.  `FifoAttempts = 2` (the code has 100): one attempt that is retried and
one that is the last; the counter is compared with nothing else.  `MaxQueue = 1`
for the commands the user sends (the channel is unbounded); the `Shutdown` of
`Drop` goes on top, so the actor also meets a `Shutdown` behind another command.
A longer queue only delays commands, and a delayed command is a command sent
later: no handler looks at the queue.  One side is enough for liveness, where
sides are not compared.  In `MCProcessActor` one daemon script (`Competition`) and one that is
not (`Preview`) stand for the four.  Deadlock is not checked: the system stops
for good once the runtime has been dropped.

Serial: `MaxOpens = 2` is the first number at which a worker, a sender or a
handle of an earlier connection can meet a later one; `MaxQueue = 3` holds the
longest batch of one read with a notification of the SUB thread before or behind
it, and lets the transmitter find work behind the stop flag.  Radar:
`MaxMatches = 1` is two matches, so a value can be carried over;
`MaxPending = 2` lets a notification of one
match be answered in the next; the log of two lines (80 in the code) is full after
one change of each of two groups, so the third line of one comparison drops the first;
two marks that are shown and one that is not, a time that remains of 0 or 1 and two values
of the site tell what is compared from what is logged (the theorems hold for all of these).  Shared memory: two objects
are a mapped one and the one that replaced it; three frames are the fewest with
which a buffer is overwritten that already held a counted frame.  The clouds, with two
kinds of producers, have two frames: enough for a cloud written over another in place and
for a restart in the middle of one; a flip under the parser needs three and is left to
the theorem (`CloudCorrect`) and to the run of the video.  SDR: the periods
are the code's; `FreshLimit` is 4 ticks instead of 40, with ages told apart up to
`FreshLimit + MaxWait + 1`; `MaxQueue` is above what the channel ever holds,
so it never cuts anything off.  Framing: bytes are 0..3, a package is 5 to 8
bytes, so a damaged length claims up to two following frames; four
frames are two within the reach of the damage and two behind it.  `LineMax = 5` lets
two frames wait on the line, so a read may bring one frame and a part of another or
all of both.  PCD: two
generations are an old and a new one; two paths tell whose progress is shown; of the
14 files of the one path any may replace any other between the two openings: they have
every refusal, every colour source, the same fields in another order, fewer and more
fields, and records that are skipped or panic; the other path has a file of its own.
One value (`OtherValues`) stands for what is read from a wrong field.  Deadlock is not checked where the program or its input may end.

Fairness of the actor.  `WF(ReceiveCommand)`, `WF(Deadline)`, `WF(DaemonProbe)`: the actor has
a thread and a runtime of its own, `select!` picks a ready branch at random each
turn, every handler ends.  Weak fairness suffices for a command and for the
deadline because both stay ready until taken or cancelled.  `WF(JoinThread)`:
`join()` returns after the thread has ended.  Nothing is assumed of the user, of
the children or of the daemon.

Fairness of the serial port.  The UI repaints every 100 ms and its thread runs
(`WF` of the reconcile and of each step of a close), the two worker threads run
(`WF`), and the lock on `SharedData` is given to a thread that asks for it again
and again (`SF` where it is taken).  Nothing is assumed of the user, of the SUB
thread, of the port's input or of panics.

Fairness of the readers.  The task polls every 2 ms and sleeps at most 5 s
(`WF` of its step), time passes (`WF(Elapse)`), and while the laser tab is shown
the UI repaints and gets the mutex (`SF`; a cloud that is cleared every 800 ms is
seen by a UI that looks every 100 ms).  `LogCloud` is enabled only with a connection to
Rerun, and nothing makes `Connect` happen: what `StaticCloudShown` says of Rerun it says of a
program that is connected.  Nothing is assumed of the producer.

Fairness of the PCD viewer.  The UI polls in each frame (`WF`), the worker thread
runs, and the library and the launcher return (`WF`): the launcher flushes with a
timeout of 30 s.

Fairness of the radar decision.  The referee repeats its frames at a fixed rate,
so some 0x0001 and some 0x020E arrive at last (`SF` for the 0x020E, which needs
room in the bounded channel); the transmitter runs; and of the 0x0121 frames,
one of which answers every 0x020E of a match, some arrive (`SF`).  Nothing is
assumed of what the referee grants or carries out.

### Findings

* `actor_stop_all` — `todo.md:56` says the stop button reliably stops the
  daemon and cleans up the FIFO.  `stop()` does so only while `active` is a
  daemon script.  The wrapper script may end after it has disowned its daemon;
  the next probe reaps it and clears `active`; from then on neither Stop Laser
  nor Stop All reaches the daemon.
* `serial_lost_port` — the serial lifecycle design document
  (`docs/superpowers/specs/2026-07-31-serial-lifecycle-design.md:43`) says that a
  failed worker must not leave the UI showing an open connection.  The receiver
  does not fail on a read error: it logs it and reads again, so a port whose
  device is gone is shown as open until the user closes it.
* `decision_second` — `serial_parser.rs:178-179` says that the first request is
  made with no effect in force and the second during the effect of the first.
  The code does not look at `double_weakness_active`: two 0x020E frames with a
  chance raise `radar_cmd` to 2.  The line before (177) and a unit test
  (`tests/unit/serial.rs:247-249`: a second frame with `active=0` gives 2) side with the
  code, so it is lines 178-179 and `docs/data-flow.md:220` that are wrong.

Noted while modelling, not stated as runs:

* The comment at `pointcloud/reader.rs:193-194` excepts static clouds from the stale
  timeout, but the flag the code tests is set by the first frame of any cloud: a static
  cloud is cleared and read again about every 800 ms.  `StaticCloudShown` states what the
  code does (the cell is empty again and again, and has the cloud again and again), which
  contradicts the comment.
* `update_pointcloud` (`app/mod.rs:378`) compares a cloud's number with the last one
  logged, which is never reset: a one-shot producer numbers every cloud 1, so the
  cloud of its second run does not reach Rerun.  `StaticCloudShown` speaks of the number
  and does not see it.
* The second run of a one-shot producer writes over a cloud that may be read at that
  moment, in place and with no flip to tell: nothing in the code keeps the halves of two
  clouds from being shown as one (`CloudSound` excepts it, `untouched`).
* `load_pcd` takes the indices of the header into records that it reads at a second
  opening of the file (`pcd_loader.rs:67`, `147`): of a file that got other fields in
  between it shows wrong points or colours as `Ready`, without an error, or it panics,
  which ends the load as failed.
* `docs/data-flow.md:119-120` has the SDR data broadcast to five robots 5 ms apart,
  the decision first and for each SDR message; the code sends to three robots
  50 ms apart, and the decision only for a 0x020E.
* The 5 Hz limit is one of notifications: a frame held up by a broadcast is
  followed at once by those behind it, so a second may see seven 0x0305.
* A frame whose data hold a SOF byte and two bytes that happen to be a header with
  its CRC8 can keep the parser out of step as long as such frames follow one
  another; behind noise `Resynchronises` is about frames that do not, and
  `MCSerialFraming` assumes so of its own (`HeadersOnlyInFront`).  In a stream without
  noise such frames do no harm (`CleanStreamCorrect`).
* The branch of `PcdViewerRuntime::poll` for an event of another generation is
  never taken, by `LoadsApart`; for progress it is.
* The first observation after the program starts logs nothing, and opening or
  closing the port does not reset it: the first frame of a new connection is
  compared with the last of the old one.
* `radar_side` may differ from the side the running processes were started with:
  the panel writes it at once, the processes keep theirs.
* `ZmqPubRuntime::stop` joins a thread that ends only when the last sender is gone,
  and the parser keeps a clone; only a test calls it.

`README.md:85` says the SDR bridge is
given the enemy side, the code and `docs/data-flow.md:238` give it the same side
as the radar.  `radar_cmd` is reset by a 0x020E of the settlement and by nothing
else, so a settlement without one leaves it at its old value (`Lossy`).
`docs/laser-protocol.md:272` calls the buffer that is read stable, which it is
until the next flip (`PictureSound` is what holds), and line 269 has the
consumer wait while `frame_seq` is 0, which the reader does not after a restart in
place.  `point_count` is one field for two buffers, so it may be that of a later
frame (`CloudSound` is what holds).

## 4. The proofs

TLC checks one instance; the theorems hold for every set of sides, every set of
commands, every number of FIFO attempts that fits a `u8`, every number of opens, of
matches, of loads, of objects and of frames, every content of the PCD files, every
byte stream and every way to read it, and every queue bound.

| Theorem | Module | States |
|---|---|---|
| `TypeCorrect` | `ProcessActorProofs` | `Spec => []TypeOK` |
| `TracksCorrect` | `ProcessActorProofs` | `Spec => []SnapshotTracksRunner` |
| `ExclusiveCorrect` | `ProcessActorProofs` | `Spec => []PendingExclusive` |
| `PrefixCorrect` | `ProcessActorProofs` | `Spec => []PrefixStarted` |
| `PhaseCorrect` | `ProcessActorProofs` | `Spec => []PhaseTrue` |
| `ButtonsCorrect` | `ProcessActorProofs` | `Spec => []ButtonsMatchActor` |
| `AgreesCorrect` | `ProcessActorProofs` | `Spec => StartAllAgrees` |
| `RetryKeepsCorrect` | `ProcessActorProofs` | `Spec => RetryKeepsStarted` |
| `OrderRefined` | `ProcessActorProofs` | `Spec => ImplementsStartAllOrder` |
| `SerialTypeCorrect` | `SerialProofs` | `Spec => []TypeOK` |
| `OwnedCorrect` | `SerialProofs` | `Spec => []WorkersOwned` |
| `SlotCorrect` | `SerialProofs` | `Spec => []SlotLive` |
| `StopCorrect` | `SerialProofs` | `Spec => []StopsWithinOneFrame` |
| `FramingInvariant` | `SerialProofs` | `FramingSpec => []FramingInv` |
| `CutIndependentCorrect` | `SerialProofs` | `FramingSpec => []CutIndependent` |
| `ResynchronisesCorrect` | `SerialProofs` | `HeadersOnlyInFront` implies `FramingSpec => []Resynchronises` |
| `CleanStreamCorrect` | `SerialProofs` | `FramingSpec => [](noise = <<>> => Resynchronises)` |
| `DecisionTypeCorrect` | `RefereeViewsProofs` | `Spec => []TypeOK` |
| `MatchStartCorrect` | `RefereeViewsProofs` | `~Lossy` implies `Spec => []MatchStartsAtZero` |
| `MonotoneCorrect` | `RefereeViewsProofs` | `~Lossy` implies `Spec => []NeverWithdrawn` |
| `ViewsImplementDecision` | `RefereeViewsProofs` | `ViewsSpec => Spec` |
| `ViewsTypeCorrect` | `RefereeViewsProofs` | `ViewsSpec => []ViewsTypeOK` |
| `HeardCorrect` | `RefereeViewsProofs` | `ViewsSpec => []HeardIsCurrent` |
| `WatchersCorrect` | `RefereeViewsProofs` | `ViewsSpec => []WatchersTrue` |
| `ViewsKeepDecision` | `RefereeViewsProofs` | `~Lossy` implies `ViewsSpec => [](MatchStartsAtZero /\ NeverWithdrawn)` |
| `PictureCorrect` | `VideoReaderProofs` | `Spec => []PictureSound` |
| `CloudCorrect` | `PointCloudReaderProofs` | `Spec => []CloudSound` |
| `LoadsApartCorrect` | `PcdViewerProofs` | `Spec => []LoadsApart` |
| `StatusCorrect` | `PcdViewerProofs` | `Spec => []StatusIsTrue` |
| `JobRefined` | `PcdViewerProofs` | `Spec => ImplementsJob` |
| `ColoursCorrect` | `PcdViewerProofs` | `Spec => []ColoursMatchPoints` |
| `BridgeTypeCorrect` | `SdrBridgeProofs` | `Spec => []TypeOK` |
| `OneTeamCorrect` | `SdrBridgeProofs` | `Spec => []OneTeam` |
| `BacklogCorrect` | `SdrBridgeProofs` | `Limits` implies `Spec => []BacklogBounded` |
| `MinimapCorrect` | `SdrBridgeProofs` | `Limits` implies `Spec => NoExpiredMinimap` |

With these, every invariant and every action property that a passing run checks is
proved.

Assumptions: `RunnerAssumption` (there is a side; `None` is not one of the
values it is an alternative to) and `ActorAssumption` (`FifoAttempts` is a
positive `u8`; only `Drop` sends `Shutdown`; `None` again), `SerialAssumption`,
`DecisionAssumption`, `ViewsAssumption`, `ProducerAssumption`, `BridgeAssumption`,
`StartsAssumption` and `CapacityAssumption` (the bounds are natural numbers, one
notification and one line fit, `Lossy` is a Boolean, the marks on the screen are among
the marks), `ValuesAssumption` (what is read from a wrong field is a number), `PathsAssumption` (no path is
`NoPath`), `FilesAssumption` (a header declares a natural number of points and
the records are a sequence) and `FramingAssumption` (commands and data are bytes, and
the length of the data fits into one).  TLC evaluates them in every run of their modules.
Three are hypotheses of single theorems.  `HeadersOnlyInFront`: no frame, whatever
follows it, holds bytes that are a header with its check sum; `MCSerialFraming` has
TLC evaluate it for its frames.  `~Lossy` is section 2's.  `Limits` are the rate limits of `zmq_start_sub` and the rate of the referee's 0x020E, in ticks: 1 s
or more for a broadcast and for a decision, exactly 200 ms for the minimap, and a
`MaxWait` of at least 8 ticks; `SdrBridge.cfg` satisfies them.

`ProcessActor`.  `TypeOK` is inductive by itself; what is not obvious in it is that
the attempt counters stay below `FifoAttempts`, hence inside a `u8`.
`SnapshotTracksRunner` and `PendingExclusive` are each inductive together with
`TypeOK`: the first because every operation of the runner is followed in the
same turn by the assignment to `managed` that matches it, the second because
every handler that arms the deadline sets exactly one pending operation and every
handler that cancels resets all four variables (`ResetPending`).  The proofs have
one lemma per operation of the runner, one per handler, and a step per disjunct of
`Next`.

`PrefixStarted` and `PhaseTrue` are not inductive one by one: the phase tells which
component has to be managed, and a component is taken away only together with the
sequence that stands on it.  `OrderInv` is both with `TypeOK` and
`PendingExclusive`.  Start All, Retry Failed and the deadline all end in
`AdvanceSequence`, so one lemma (`Advanced`) says what it comes to: the sequence goes
on and rests at one of the three waiting places, or fails and is kept, or completes,
and in all three the components started before it have the processes they had.  The
two action properties and the refinement of `StartAllOrder` are read off it: each
handler is one step of the abstract specification or leaves `up`, `mode` and `todo`
alone.  `ButtonsMatchActor` follows from `OrderInv` with `SnapshotTracksRunner`.

`SerialLifecycle`.  `TypeOK` needs `CastLeft`: a frame of a broadcast is written
only while some are left, or the count would fall below 0.  `WorkersOwned`,
`SlotLive` and the facts they rest on are one inductive invariant, `OwnInv`:
`serial_open` holds exactly while there is a `conn`; connections not opened yet
have no threads and no stop flag (`Fresh`, or an open could revive one); a live
worker belongs to `conn` (`OnlyConn`); the receiver is done once the UI has come
to join the transmitter (`RxJoined`, which makes the transmitter's join the last
thing a connection waits for).  `StopsWithinOneFrame` adds `LastFrame`: after a
frame behind the stop flag the transmitter is at a place where it looks at the
flag before it writes again.

`RadarDecision`.  `TypeOK` needs `ChancesAddUp`, the referee's bookkeeping.  The
other two are inductive together with `HeardOfMatch` (while the program has not
heard of the match, `radar_cmd` is 0, so a reset at a stale stage takes nothing
back) and `SettledAtZero` (after a 0x020E of the settlement nothing raises it).

`RefereeViews`.  Each step of it is a step of `RadarDecision` or leaves its
variables alone (`ViewsStep`), which carries the two theorems over.
`HeardIsCurrent` is inductive with the types: a step either announces the one
payload it changes or changes none.  It relies on the lock: were the notification
and the change two steps, a publication in between would be stale.  The log is
followed one line at a time (`NotedTells`): between two lines of one comparison it
tells of an observation that is new in the items already compared and old in the
others, and dropping the oldest line takes away nothing that `Tells` asks for.

`ShmProducer` and the readers.  `ProducerInv` has `FramesSound` in its centre: once a
frame has been counted the active buffer is never older than the count, whatever an
earlier life left half written, and it is whole unless a single cloud has been begun in
it since (`inPlace`); the frame under way is in the spare buffer until the flip
(`FrameUnderWay`), a single cloud in the first buffer (`CloudUnderWay`).  `LocalSound`
compares what the task has read with what the producer has done since: within one life
the counts do not go back, the buffer that is read holds nothing older than the count
that was read before it, and while it is untouched the half that was read first is still
there.  The order of the reads is what makes this inductive.  The laser's producer writes
no single pictures (`NoneInPlace`).  The cloud needs `CountAhead` as well: the number of
points is written before the points, so it is never behind the frames that are counted.

`PcdViewer`.  A file may be replaced by any other at any time, so nothing in these
proofs relates the records to the file the header came from.  `LoadInv` has one relation
in its centre, `Stage`, between the place of the worker, the events on their way and the
phase on the screen, of which only seven combinations occur.  From it: nothing is sent that there is no room for, the viewer is
busy until the last event has been taken, and no event of an earlier load is left when
a start is accepted.  `ProgressBehind` orders the three counts (screen, slot, worker),
which is what the refinement of `PcdLoadJob` needs.  The colours have an invariant of
their own, `ColourInv`: what has been collected are the values of the records kept, in
their order (`Collected`).  That the values have a least and a greatest one, which the
shades are computed from, would be an induction over the set of values; here it is
carried along by the steps of the worker (`Spanned`).

`SdrBridge`.  `OneTeam`: a broadcast under way has a tail of its sender's targets left
(`Addressed`), and a decision frame reads the team once.  The
bound on the wait is a budget.  With `work` the ticks of what waits and is under way
and `b`, `m`, `d` the stamps (up to 20, 4 and 20),

    20 * work + 6 * b + 5 * m + d <= 160

holds initially and in every step: a notification pays for its ticks with the stamp
it resets (6 ticks of a broadcast with `6 * 20`, one tick of a minimap with `5 * 4`,
of a decision with `20`), and a tick adds `6 + 5 + 1` and takes `20` off, if there is
work.  So `work <= 8`.  Of each minimap notification that waits
`work + 4 * behind + m <= 8` holds (ticks before it is sent, others behind it, the
stamp), hence at most two wait, and `age + work < FreshLimit + 8`, which is
`NoExpiredMinimap` when its turn comes.  TLC was given each of the inductive
invariants of this and the last section before it was proved.

`SerialFraming`.  `CutIndependent` compares the parser with `Scan`, a recursive
function, about which nothing is known without induction.  The library's induction
theorems take a predicate as a parameter, which the provers do not instantiate; its
`WFMin`, that a set with a well-founded order has a least element, takes a set.  So
`Induction` is proved from it, for sets of numbers; the functions behind `Sum` and
`Scan` exist by induction over their domains (`SumExists`, `ScanExists`), and what they
compute is proved with `Induction` and, from the end of the stream, `Downward`.  The
two lemmas the rest hangs on: a turn that the parser takes with some bytes it takes in
the same way with more (`TurnExtend`), so that one pass over a longer stream resumes
where the one over the shorter stopped (`ScanExtend`).  `FramingInv` says that the
buffer is the end of what has been received (`InStream`), that the parser rests only at
an unfinished frame (`AtRest`), and that what is stored, followed by what one pass
stores from the parser's place on, is what one pass stores from the start (`OnTrack`).
At rest the second part is empty, and that is `CutIndependent`.

`Resynchronises` needs to know where the frames lie (`Layout`): they follow one another
behind the noise, each the package that was sent.  A turn then takes noise, one byte
within a frame, or a frame as a whole (`TurnPlace`); a step that begins in the noise
ends before its reach does, and after it no frame is begun but where one begins.
`ResyncInv` adds that what is stored was sent and decodes (`StoredWasSent`), that what
the parser has passed and decodes is stored (`SentIsStored`), and the order
(`Ascending`).  An unfinished frame at which the parser rests can be neither a frame
that has arrived nor noise that reaches over one (`ArrivedIsPassed`).  Without noise
the parser is at the beginning of a frame after every turn (`AtBeginning`), so no
hypothesis about the frames is needed.

Only model-checked: the three properties whose runs expect a violation; and
liveness, which is out of the prover's reach: `PendingSettles`, `CloseCompletes`, `ExitsNoticed`, `CloseReturns`,
`DeadWorkerNoticed`, `ChanceRequested`, `Delivered`, `DeadPictureCleared`,
`Reattaches`, `StaticCloudShown`, `UnlinkedCleared`, `LoadSettles`.

## 5. What is not modelled

The kills by name (`pkill` of `ffplay` and of the laser tools) reach processes
the program did not start; only their effect on the daemon is kept.  The side
an orphan daemon was configured for is not tracked: the FIFO does not tell its
readers apart.  Of the serial connection the times are left out, and of the frames the bits of
each command: `deku` decodes them; a poisoned lock is taken like any other, as the
code does.  The check sums are sums, not the CRC polynomials.  Of the radar
decision the key and its encryption rank are left out,
and a restart of the program in the middle of a match, after which `radar_cmd`
is 0: nothing is kept on disk and no document speaks of it.  The SUB thread's
laser messages only fill a struct and change nothing else; the connection of
`SdrBridge` and of `RefereeViews` stays open, opening and closing is
`SerialLifecycle`.  Of the shared memory the dimensions, the stride and the
formats of pixels and points are left out, and an object that shrinks under its
mapping.  Of a PCD file the number formats are left out; a value is a small number
or not finite, and what the `pcd_rs` library accepts is external, and so are the
records it makes of a file that is written while they are read.  Of the log on the screen the time in
front of a line and the lines of opening, closing and errors are left out.  The process
panel's options other than the side only reach a command line.
`laser/protocol.rs` decodes observations for an observer that nothing starts.
A cloud's mapping does not time out before its first frame, so a
producer that dies before its first frame and returns in a new object is not
found; no document promises it.  Components without a module are in the table of section 1 with
the reason.

## 6. Plan

Done: the modules of section 2, the most important behaviour first (`ProcessActor`,
`SerialLifecycle`, `RadarDecision`, the shared memory, `SdrBridge`, `RefereeViews`,
`PcdViewer`, `SerialFraming`), and the theorems of section 4.  Left, in this order:

1. Lemmas a liveness proof would rest on and that are safety: what a pending operation
   leaves enabled, and that the variants of `PendingSettles`, `CloseReturns` and
   `LoadSettles` do not grow.
2. The two hazards of the daemon without a property: they need the side an orphan daemon
   was configured for, which the FIFO does not tell.  (The two of static clouds and the one
   of a file with other fields are what the code does; they are in section 3.)
