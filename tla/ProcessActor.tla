---------------------------- MODULE ProcessActor ----------------------------
(***************************************************************************)
(* The process actor (src/services/process_runtime.rs): a Tokio task that  *)
(* owns the ScriptRunner, takes commands from an unbounded mpsc channel    *)
(* one at a time, drives the Start All sequence                            *)
(*                                                                         *)
(*     Radar -> delay -> SDR -> delay -> Laser -> FIFO configuration       *)
(*                                                                         *)
(* as a state machine advanced by a single deadline, retries the FIFO      *)
(* configuration, notices exited children on a periodic probe, and         *)
(* publishes a snapshot on a watch channel.                                *)
(*                                                                         *)
(* A step is one turn of the select! loop: a command, a deadline or a      *)
(* probe, with every backend call the handler makes.  Each handler ends    *)
(* with a publish, so the snapshot variables are also what the UI reads    *)
(* between two steps.                                                      *)
(***************************************************************************)
EXTENDS ScriptRunner, Sequences

CONSTANTS Commands,      \* the commands the UI may send
          FifoAttempts,  \* FIFO_ATTEMPTS
          MaxQueue       \* bound on the commands waiting in the channel

Step == {"StartRadar", "WaitAfterRadar", "StartSdr", "WaitAfterSdr",
         "StartLaser", "ConfigureLaser"}

\* FIFO_ATTEMPTS and both attempt counters are u8.
Attempts == 0 .. FifoAttempts - 1

\* ProcessCommand, without the options that only reach a command line.
Command ==
       [op : {"StartAll", "StartRadar", "StartSdr"}, side : Side]
  \cup [op : {"StartLaser"}, side : Side, script : LaserScript, configure : BOOLEAN]
  \cup [op : {"RetryFailed", "SendLaserCommand", "StopRadar", "StopSdr",
              "StopLaser", "StopAll", "Shutdown"}]

StartOps == {"StartAll", "StartRadar", "StartSdr", "StartLaser"}

\* The values of Sequence, FailedSequence and LaserConfiguration.
SequenceType == [side : Side, step : Step, attempts : Attempts]
FailedType == [side : Side, step : Step]
ConfigurationType == [side : Side, attempts : Attempts]

\* ProcessPhase::Failed(component).
Failed == [Radar |-> "FailedRadar", Sdr |-> "FailedSdr", Laser |-> "FailedLaser"]
FailedPhase == {Failed[c] : c \in Component}

\* ProcessPhase between two turns.  The Starting* phases and Stopping are
\* published inside a turn and replaced before it ends.
Phase == {"Idle", "WaitingForRadar", "WaitingForSdr", "ConfiguringLaser", "Running"}
         \cup FailedPhase

ASSUME ActorAssumption ==
  /\ Commands \subseteq {c \in Command : c.op # "Shutdown"}  \* only Drop sends it
  /\ FifoAttempts \in 1 .. 255
  /\ MaxQueue \in Nat \ {0}
  /\ None \notin SequenceType
  /\ None \notin FailedType
  /\ None \notin ConfigurationType

VARIABLES
  ui,                   \* the owner of the ProcessRuntime: "open", "joining" the
                        \* actor's thread inside Drop, or "closed"
  queue,                \* commands sent and not received
  running,              \* the actor's loop has not been left
  phase, managed, activeLaser, daemonAvailable, error,  \* the ProcessSnapshot
  sequence,             \* Option<Sequence>
  failed,               \* Option<FailedSequence>
  laserConfiguration,   \* Option<LaserConfiguration>
  deadline              \* deadline.is_some()

snapshot == <<phase, managed, activeLaser, daemonAvailable, error>>
pending == <<sequence, failed, laserConfiguration, deadline>>
vars == <<runnerVars, ui, queue, running, snapshot, pending>>

TypeOK ==
  /\ RunnerTypeOK
  /\ ui \in {"open", "joining", "closed"}
  /\ queue \in Seq(Command)
  /\ running \in BOOLEAN
  /\ phase \in Phase
  /\ managed \in [Component -> BOOLEAN]
  /\ activeLaser \in LaserScript \cup {None}
  /\ daemonAvailable \in BOOLEAN
  /\ error \in BOOLEAN
  /\ sequence \in SequenceType \cup {None}
  /\ failed \in FailedType \cup {None}
  /\ laserConfiguration \in ConfigurationType \cup {None}
  /\ deadline \in BOOLEAN

Init ==
  /\ RunnerInit
  /\ ui = "open"
  /\ queue = <<>>
  /\ running = TRUE
  /\ phase = "Idle"
  /\ managed = [c \in Component |-> FALSE]
  /\ activeLaser = None
  /\ daemonAvailable = FALSE
  /\ error = FALSE
  /\ sequence = None
  /\ failed = None
  /\ laserConfiguration = None
  /\ deadline = FALSE

-----------------------------------------------------------------------------
(* The owner of the runtime.                                               *)

\* ProcessRuntime::send.
Send(command) ==
  /\ ui = "open"
  /\ Len(queue) < MaxQueue
  /\ queue' = Append(queue, command)
  /\ UNCHANGED <<runnerVars, ui, running, snapshot, pending>>

\* Drop for ProcessRuntime: send Shutdown, drop the sender, join the thread.
DropRuntime ==
  /\ ui = "open"
  /\ ui' = "joining"
  /\ queue' = Append(queue, [op |-> "Shutdown"])
  /\ UNCHANGED <<runnerVars, running, snapshot, pending>>

JoinThread ==
  /\ ui = "joining"
  /\ ~running
  /\ ui' = "closed"
  /\ UNCHANGED <<runnerVars, queue, running, snapshot, pending>>

-----------------------------------------------------------------------------
(* Pieces of the handlers.                                                 *)

\* command_rx.recv() yields a command of this kind.
Receive(op) ==
  /\ running
  /\ queue # <<>>
  /\ Head(queue).op = op
  /\ queue' = Tail(queue)
  /\ UNCHANGED <<ui>>

Busy == sequence # None \/ laserConfiguration # None

\* Mutant: the deadline survives.
ResetPending_KeepsDeadline ==
  /\ sequence' = None
  /\ failed' = None
  /\ laserConfiguration' = None
  /\ UNCHANGED deadline

ResetPending ==
  /\ sequence' = None
  /\ failed' = None
  /\ laserConfiguration' = None
  /\ deadline' = FALSE

ManagedPhase(m) == IF \E c \in Component : m[c] THEN "Running" ELSE "Idle"

\* sequence_failed: keep the command and the step for Retry Failed.
SequenceFailed(seq, component) ==
  /\ sequence' = None
  /\ failed' = [side |-> seq.side, step |-> seq.step]
  /\ phase' = Failed[component]
  /\ error' = TRUE

(***************************************************************************)
(* The arms of advance_sequence, run on the sequence seq taken by the      *)
(* caller.  armed and kept are the deadline and the failed sequence as     *)
(* the caller leaves them.                                                 *)
(***************************************************************************)

AdvanceStartRadar(seq, armed, kept) ==
  \E ok \in BOOLEAN :
    /\ RunnerStartRadar(seq.side, ok)
    /\ managed' = [managed EXCEPT !["Radar"] = ok]
    /\ IF ok
       THEN /\ sequence' = [seq EXCEPT !.step = "WaitAfterRadar"]
            /\ deadline' = TRUE
            /\ failed' = kept
            /\ phase' = "WaitingForRadar"
            /\ error' = FALSE
       ELSE /\ SequenceFailed(seq, "Radar")
            /\ deadline' = armed
    /\ UNCHANGED activeLaser

\* Also WaitAfterRadar, which goes on to StartSdr at once.
AdvanceStartSdr(seq, armed, kept) ==
  \E ok \in BOOLEAN :
    /\ RunnerStartSdr(seq.side, ok)
    /\ managed' = [managed EXCEPT !["Sdr"] = ok]
    /\ IF ok
       THEN /\ sequence' = [seq EXCEPT !.step = "WaitAfterSdr"]
            /\ deadline' = TRUE
            /\ failed' = kept
            /\ phase' = "WaitingForSdr"
            /\ UNCHANGED error
       ELSE /\ SequenceFailed([seq EXCEPT !.step = "StartSdr"], "Sdr")
            /\ deadline' = armed
    /\ UNCHANGED activeLaser

\* Mutant: one attempt too many.
ConfigurationResult_OffByOne(seq, armed, kept, ok) ==
  IF ok
  THEN sequence' = None /\ failed' = kept /\ deadline' = armed /\ phase' = "Running" /\ error' = FALSE
  ELSE IF seq.attempts < FifoAttempts
  THEN /\ sequence' = [seq EXCEPT !.attempts = seq.attempts + 1]
       /\ failed' = kept
       /\ deadline' = TRUE
       /\ phase' = "ConfiguringLaser"
       /\ error' = TRUE
  ELSE SequenceFailed(seq, "Laser") /\ deadline' = armed

\* Mutant: the retry is not scheduled.
ConfigurationResult_NoDeadline(seq, armed, kept, ok) ==
  IF ok
  THEN sequence' = None /\ failed' = kept /\ deadline' = armed /\ phase' = "Running" /\ error' = FALSE
  ELSE IF seq.attempts + 1 < FifoAttempts
  THEN /\ sequence' = [seq EXCEPT !.attempts = seq.attempts + 1]
       /\ failed' = kept
       /\ deadline' = armed
       /\ phase' = "ConfiguringLaser"
       /\ error' = TRUE
  ELSE SequenceFailed(seq, "Laser") /\ deadline' = armed

\* The ConfigureLaser arm, on the outcome of configure_laser.
ConfigurationResult(seq, armed, kept, ok) ==
  IF ok
  THEN /\ sequence' = None
       /\ failed' = kept
       /\ deadline' = armed
       /\ phase' = "Running"
       /\ error' = FALSE
  ELSE IF seq.attempts + 1 < FifoAttempts
  THEN /\ sequence' = [seq EXCEPT !.attempts = seq.attempts + 1]
       /\ failed' = kept
       /\ deadline' = TRUE
       /\ phase' = "ConfiguringLaser"
       /\ error' = TRUE
  ELSE /\ SequenceFailed(seq, "Laser")
       /\ deadline' = armed

AdvanceConfigure(seq, armed, kept) ==
  /\ \E ok \in BOOLEAN : /\ ConfigureLaser(seq.side, ok, FifoWritable, side)
                         /\ ConfigurationResult(seq, armed, kept, ok)
  /\ UNCHANGED <<child, active, ffplay, daemons, fifo, managed, activeLaser>>

\* Also WaitAfterSdr, which goes on to StartLaser at once.  A started laser is
\* configured in the same turn.
AdvanceStartLaser(seq, armed, kept) ==
  LET unset == [side EXCEPT !["Laser"] = None] IN
  \/ /\ RunnerStartLaser("Competition", TRUE)
     /\ managed' = [managed EXCEPT !["Laser"] = TRUE]
     /\ activeLaser' = "Competition"
     /\ \E ok \in BOOLEAN :
          /\ ConfigureLaser(seq.side, ok, FifoWritable', unset)
          /\ ConfigurationResult([seq EXCEPT !.step = "ConfigureLaser"], armed, kept, ok)
  \/ /\ RunnerStartLaser("Competition", FALSE)
     /\ managed' = [managed EXCEPT !["Laser"] = FALSE]
     /\ activeLaser' = None
     /\ side' = unset
     /\ SequenceFailed([seq EXCEPT !.step = "StartLaser"], "Laser")
     /\ deadline' = armed

\* Mutant: the laser is started before the SDR.
AdvanceSequence_SkipsSdr(seq, armed, kept) ==
  \/ seq.step = "StartRadar" /\ AdvanceStartRadar(seq, armed, kept)
  \/ seq.step = "StartSdr" /\ AdvanceStartSdr(seq, armed, kept)
  \/ seq.step \in {"WaitAfterRadar", "WaitAfterSdr", "StartLaser"} /\ AdvanceStartLaser(seq, armed, kept)
  \/ seq.step = "ConfigureLaser" /\ AdvanceConfigure(seq, armed, kept)

AdvanceSequence(seq, armed, kept) ==
  \/ seq.step = "StartRadar" /\ AdvanceStartRadar(seq, armed, kept)
  \/ seq.step \in {"WaitAfterRadar", "StartSdr"} /\ AdvanceStartSdr(seq, armed, kept)
  \/ seq.step \in {"WaitAfterSdr", "StartLaser"} /\ AdvanceStartLaser(seq, armed, kept)
  \/ seq.step = "ConfigureLaser" /\ AdvanceConfigure(seq, armed, kept)

\* configure_standalone_laser on a taken configuration, by the outcome of
\* configure_laser: Running, another attempt, or Failed.  A failure that is
\* not a sequence's leaves nothing to retry.
StandaloneResult(conf, armed, ok) ==
  IF ok
  THEN /\ laserConfiguration' = None
       /\ deadline' = armed
       /\ phase' = "Running"
       /\ error' = FALSE
  ELSE IF conf.attempts + 1 < FifoAttempts
  THEN /\ laserConfiguration' = [conf EXCEPT !.attempts = conf.attempts + 1]
       /\ deadline' = TRUE
       /\ phase' = "ConfiguringLaser"
       /\ error' = TRUE
  ELSE /\ laserConfiguration' = None
       /\ deadline' = armed
       /\ phase' = Failed["Laser"]
       /\ error' = TRUE

-----------------------------------------------------------------------------
(* Commands.                                                               *)

\* reject_start_if_busy: any start command while an operation is pending.
RejectStart ==
  /\ \E op \in StartOps : Receive(op)
  /\ Busy
  /\ error' = TRUE
  /\ UNCHANGED <<runnerVars, running, phase, managed, activeLaser, daemonAvailable, pending>>

StartAll ==
  /\ Receive("StartAll")
  /\ ~Busy
  /\ AdvanceStartRadar([side |-> Head(queue).side, step |-> "StartRadar", attempts |-> 0],
                       FALSE, None)
  /\ laserConfiguration' = None
  /\ UNCHANGED <<running, daemonAvailable>>

\* Mutant: the retry begins again at the radar.
RetryFailed_FromStart ==
  /\ Receive("RetryFailed")
  /\ IF failed = None
     THEN UNCHANGED <<runnerVars, snapshot, pending>>
     ELSE /\ AdvanceSequence([side |-> failed.side, step |-> "StartRadar", attempts |-> 0],
                             deadline, None)
          /\ UNCHANGED <<laserConfiguration, daemonAvailable>>
  /\ UNCHANGED running

\* No test for a pending operation: `failed` is taken and resumed, or the
\* command does nothing.
RetryFailed ==
  /\ Receive("RetryFailed")
  /\ IF failed = None
     THEN UNCHANGED <<runnerVars, snapshot, pending>>
     ELSE /\ AdvanceSequence([side |-> failed.side, step |-> failed.step, attempts |-> 0],
                             deadline, None)
          /\ UNCHANGED <<laserConfiguration, daemonAvailable>>
  /\ UNCHANGED running

\* Mutant: a failed restart leaves the component managed.
ComponentStarted_KeepsManaged(c, ok) ==
  /\ managed' = [managed EXCEPT ![c] = ok \/ managed[c]]
  /\ phase' = IF ok THEN "Running" ELSE Failed[c]
  /\ error' = ~ok

\* finish_component and fail_component.
ComponentStarted(c, ok) ==
  /\ managed' = [managed EXCEPT ![c] = ok]
  /\ phase' = IF ok THEN "Running" ELSE Failed[c]
  /\ error' = ~ok

StartRadar ==
  /\ Receive("StartRadar")
  /\ ~Busy
  /\ ResetPending
  /\ \E ok \in BOOLEAN : /\ RunnerStartRadar(Head(queue).side, ok)
                         /\ ComponentStarted("Radar", ok)
  /\ UNCHANGED <<running, activeLaser, daemonAvailable>>

\* Mutant: an SDR start does not forget the failed Start All.
StartSdr_KeepsPending ==
  /\ Receive("StartSdr")
  /\ ~Busy
  /\ UNCHANGED pending
  /\ \E ok \in BOOLEAN : /\ RunnerStartSdr(Head(queue).side, ok)
                         /\ ComponentStarted("Sdr", ok)
  /\ UNCHANGED <<running, activeLaser, daemonAvailable>>

StartSdr ==
  /\ Receive("StartSdr")
  /\ ~Busy
  /\ ResetPending
  /\ \E ok \in BOOLEAN : /\ RunnerStartSdr(Head(queue).side, ok)
                         /\ ComponentStarted("Sdr", ok)
  /\ UNCHANGED <<running, activeLaser, daemonAvailable>>

\* The three ways out of StartLaser.
LaserNotStarted(unset) ==
  /\ RunnerStartLaser(Head(queue).script, FALSE)
  /\ ComponentStarted("Laser", FALSE)
  /\ activeLaser' = None
  /\ side' = unset
  /\ ResetPending

LaserStartedPlain(unset) ==
  /\ ~Head(queue).configure
  /\ RunnerStartLaser(Head(queue).script, TRUE)
  /\ ComponentStarted("Laser", TRUE)
  /\ activeLaser' = Head(queue).script
  /\ side' = unset
  /\ ResetPending

LaserStartedToConfigure(unset) ==
  /\ Head(queue).configure
  /\ RunnerStartLaser(Head(queue).script, TRUE)
  /\ managed' = [managed EXCEPT !["Laser"] = TRUE]
  /\ activeLaser' = Head(queue).script
  /\ sequence' = None
  /\ failed' = None
  /\ \E ok \in BOOLEAN :
       /\ ConfigureLaser(Head(queue).side, ok, FifoWritable', unset)
       /\ StandaloneResult([side |-> Head(queue).side, attempts |-> 0], FALSE, ok)

StartLaser ==
  LET unset == [side EXCEPT !["Laser"] = None] IN
  /\ Receive("StartLaser")
  /\ ~Busy
  /\ LaserNotStarted(unset) \/ LaserStartedPlain(unset) \/ LaserStartedToConfigure(unset)
  /\ UNCHANGED <<running, daemonAvailable>>

\* Mutant: a failed FIFO command marks the laser failed.
SendLaserCommand_Fails ==
  /\ Receive("SendLaserCommand")
  /\ \/ FifoWritable /\ UNCHANGED <<error, phase>>
     \/ error' = TRUE /\ phase' = Failed["Laser"]
  /\ UNCHANGED <<runnerVars, running, managed, activeLaser, daemonAvailable, pending>>

\* SendLaserCommand: straight to the FIFO, whatever is pending.
SendLaserCommand ==
  /\ Receive("SendLaserCommand")
  /\ \/ FifoWritable /\ UNCHANGED error
     \/ error' = TRUE
  /\ UNCHANGED <<runnerVars, running, phase, managed, activeLaser, daemonAvailable, pending>>

StopComponent(c) ==
  /\ StopComponents({c})
  /\ ResetPending
  /\ managed' = [managed EXCEPT ![c] = FALSE]
  /\ activeLaser' = IF c = "Laser" THEN None ELSE activeLaser
  /\ phase' = ManagedPhase(managed')
  /\ UNCHANGED <<running, daemonAvailable, error>>

StopRadar == Receive("StopRadar") /\ StopComponent("Radar")
StopSdr   == Receive("StopSdr") /\ StopComponent("Sdr")
StopLaser == Receive("StopLaser") /\ StopComponent("Laser")

\* stop_all: the snapshot is reset, but for daemon_available.
StopAllComponents ==
  /\ StopComponents(Component)
  /\ phase' = "Idle"
  /\ managed' = [c \in Component |-> FALSE]
  /\ activeLaser' = None
  /\ error' = FALSE
  /\ UNCHANGED daemonAvailable

StopAll ==
  /\ Receive("StopAll")
  /\ ResetPending
  /\ StopAllComponents
  /\ UNCHANGED running

\* Mutant: the loop is not left.
Shutdown_NoBreak ==
  /\ Receive("Shutdown")
  /\ ResetPending
  /\ StopAllComponents
  /\ UNCHANGED running

\* Shutdown leaves the loop: the actor's locals are gone and the backend is
\* dropped, whose stop_all finds nothing left to stop.
Shutdown ==
  /\ Receive("Shutdown")
  /\ ResetPending
  /\ StopAllComponents
  /\ running' = FALSE

-----------------------------------------------------------------------------
(* Timers.                                                                 *)

\* daemon_probe: reconcile_process_exits, then publish_daemon_availability.
\* poll_exits reports Radar, Sdr, Laser in this order; the last one names the
\* phase.
LastExit == IF "Laser" \in Exited THEN "Laser"
            ELSE IF "Sdr" \in Exited THEN "Sdr" ELSE "Radar"

\* Mutant: exits do not cancel what is pending.
DaemonProbe_KeepsPending ==
  /\ running
  /\ PollExits
  /\ managed' = [c \in Component |-> managed[c] /\ c \notin Exited]
  /\ activeLaser' = IF "Laser" \in Exited THEN None ELSE activeLaser
  /\ phase' = IF Exited = {} THEN phase ELSE Failed[LastExit]
  /\ error' = (error \/ Exited # {})
  /\ daemonAvailable' = fifo
  /\ UNCHANGED <<ui, queue, running, pending>>

\* Mutant: the select! with a deadline has no probe branch.
DaemonProbe_NotWhileWaiting ==
  /\ running
  /\ ~deadline
  /\ PollExits
  /\ IF Exited = {}
     THEN UNCHANGED <<phase, managed, activeLaser, error, pending>>
     ELSE /\ ResetPending
          /\ managed' = [c \in Component |-> managed[c] /\ c \notin Exited]
          /\ activeLaser' = IF "Laser" \in Exited THEN None ELSE activeLaser
          /\ phase' = Failed[LastExit]
          /\ error' = TRUE
  /\ daemonAvailable' = fifo
  /\ UNCHANGED <<ui, queue, running>>

DaemonProbe ==
  /\ running
  /\ PollExits
  /\ IF Exited = {}
     THEN UNCHANGED <<phase, managed, activeLaser, error, pending>>
     ELSE /\ ResetPending
          /\ managed' = [c \in Component |-> managed[c] /\ c \notin Exited]
          /\ activeLaser' = IF "Laser" \in Exited THEN None ELSE activeLaser
          /\ phase' = Failed[LastExit]
          /\ error' = TRUE
  /\ daemonAvailable' = fifo
  /\ UNCHANGED <<ui, queue, running>>

\* sleep_until(deadline): the deadline is taken, then the sequence goes on...
DeadlineSequence ==
  /\ running
  /\ deadline
  /\ sequence # None
  /\ AdvanceSequence(sequence, FALSE, failed)
  /\ UNCHANGED <<ui, queue, running, daemonAvailable, laserConfiguration>>

\* ... or, without one, the standalone configuration does, if there is one.
DeadlineLaser ==
  /\ running
  /\ deadline
  /\ sequence = None
  /\ IF laserConfiguration = None
     THEN deadline' = FALSE /\ UNCHANGED <<side, laserConfiguration, phase, error>>
     ELSE \E ok \in BOOLEAN :
            /\ ConfigureLaser(laserConfiguration.side, ok, FifoWritable, side)
            /\ StandaloneResult(laserConfiguration, FALSE, ok)
  /\ UNCHANGED <<child, active, ffplay, daemons, fifo, ui, queue, running,
                 managed, activeLaser, daemonAvailable, sequence, failed>>

-----------------------------------------------------------------------------

ReceiveCommand ==
  \/ RejectStart
  \/ StartAll \/ RetryFailed
  \/ StartRadar \/ StartSdr \/ StartLaser
  \/ SendLaserCommand
  \/ StopRadar \/ StopSdr \/ StopLaser \/ StopAll
  \/ Shutdown

Deadline == DeadlineSequence \/ DeadlineLaser

External == Environment /\ UNCHANGED <<ui, queue, running, snapshot, pending>>

Next ==
  \/ \E command \in Commands : Send(command)
  \/ DropRuntime
  \/ JoinThread
  \/ ReceiveCommand
  \/ Deadline
  \/ DaemonProbe
  \/ External

Spec == Init /\ [][Next]_vars

(***************************************************************************)
(* The actor's thread and its Tokio runtime run: a ready branch of the     *)
(* select! is picked at random each turn, so a command, an expired         *)
(* deadline and the probe are each taken eventually.  join() returns once  *)
(* the thread is gone.  Nothing is assumed of the user or of the external  *)
(* programs.                                                               *)
(***************************************************************************)
Fairness ==
  /\ WF_vars(ReceiveCommand)
  /\ WF_vars(Deadline)
  /\ WF_vars(DaemonProbe)
  /\ WF_vars(JoinThread)

FairSpec == Spec /\ Fairness
=============================================================================
