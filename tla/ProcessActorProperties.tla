----------------------- MODULE ProcessActorProperties -----------------------
(***************************************************************************)
(* What the process actor promises to the UI and to the match: invariants, *)
(* action properties and liveness properties of ProcessActor.              *)
(***************************************************************************)
EXTENDS ProcessUi

\* The components a Start All has started when it stands before this step.
StartedBefore ==
  [StartRadar     |-> {},
   WaitAfterRadar |-> {"Radar"},
   StartSdr       |-> {"Radar"},
   WaitAfterSdr   |-> {"Radar", "Sdr"},
   StartLaser     |-> {"Radar", "Sdr"},
   ConfigureLaser |-> {"Radar", "Sdr", "Laser"}]

\* The component whose start or configuration is this step.
ComponentOf ==
  [StartRadar     |-> "Radar",
   WaitAfterRadar |-> "Sdr",
   StartSdr       |-> "Sdr",
   WaitAfterSdr   |-> "Laser",
   StartLaser     |-> "Laser",
   ConfigureLaser |-> "Laser"]

-----------------------------------------------------------------------------
(* Invariants.                                                             *)

(* What the UI is shown agrees with the handles the ScriptRunner holds:    *)
(* a component is managed exactly while there is a child handle for it,    *)
(* and the active laser script is the runner's.  Every start, failed       *)
(* start, restart, stop and reaped exit has to keep the two in step.       *)
SnapshotTracksRunner ==
  /\ \A c \in Component : managed[c] <=> child[c] # "none"
  /\ activeLaser = active
  /\ active # None <=> child["Laser"] # "none"

(* At most one of a running Start All, a failed one kept for Retry Failed  *)
(* and a standalone laser configuration exists, and the single deadline is *)
(* armed exactly while one of the two pending operations needs it: no      *)
(* operation is stuck without a timer, and no timer outlives the operation *)
(* it was set for and fires into the next one.                             *)
PendingExclusive ==
  /\ sequence # None => failed = None /\ laserConfiguration = None
  /\ failed # None => laserConfiguration = None
  /\ deadline <=> Busy

\* The components before the step of s are up and were given the side of s.
PrefixUp(s) ==
  /\ \A c \in StartedBefore[s.step] : managed[c]
  /\ \A c \in StartedBefore[s.step] \ {"Laser"} : side[c] = s.side
  /\ s.step = "ConfigureLaser" => activeLaser = "Competition"

(* A Start All that is running, or that failed and may be resumed by Retry *)
(* Failed, stands on what it has started: every earlier component is still *)
(* managed, runs for the side of this Start All, and a laser about to be   *)
(* configured is the competition daemon.  Every stop, exit and other start *)
(* that could pull a component from under it must cancel it.               *)
PrefixStarted ==
  /\ sequence # None => PrefixUp(sequence)
  /\ failed # None => PrefixUp(failed)

\* The phase shown while a Start All waits at this step.
PhaseAt == [WaitAfterRadar |-> "WaitingForRadar",
            WaitAfterSdr   |-> "WaitingForSdr",
            ConfigureLaser |-> "ConfiguringLaser"]

\* Each waiting phase is shown exactly for the step it names, a kept failure for
\* the component that failed.
PhaseShowsPending ==
  /\ sequence # None =>
       sequence.step \in DOMAIN PhaseAt /\ phase = PhaseAt[sequence.step]
  /\ laserConfiguration # None => phase = "ConfiguringLaser" /\ managed["Laser"]
  /\ Pending => Busy
  /\ failed # None => phase = Failed[ComponentOf[failed.step]]

\* Idle means that nothing is managed, Running that something is; a failed radar
\* or SDR is not managed, and a failure is always shown with an error.
PhaseShowsComponents ==
  /\ phase = "Idle" => \A c \in Component : ~managed[c]
  /\ phase = "Running" => \E c \in Component : managed[c]
  /\ phase = Failed["Radar"] => ~managed["Radar"]
  /\ phase = Failed["Sdr"] => ~managed["Sdr"]
  /\ phase \in FailedPhase => error

(* The one phase that the UI is shown tells both what is pending in the    *)
(* actor and, once settled, what is running.                               *)
PhaseTrue == PhaseShowsPending /\ PhaseShowsComponents

(* What the panel offers is what the actor can do: Start All unless it     *)
(* would be refused, Retry Failed whenever there is something to resume,   *)
(* Stop for each component with a handle, Start for each other one.  (The  *)
(* converse for Retry Failed does not hold: after a failed single start or *)
(* an exit the button is there and has nothing to resume.)                 *)
ButtonsMatchActor ==
  \A s \in Side :
    /\ start_all(s) \in Offered(s) <=> ~Busy
    /\ failed # None => retry_failed \in Offered(s)
    /\ \A c \in Component :
         (IF child[c] # "none" THEN StopButton(c) ELSE StartButton(c, s)) \in Offered(s)

-----------------------------------------------------------------------------
(* Action properties.                                                      *)

\* The step receives a command of this kind.
Received(op) ==
  /\ queue # <<>>
  /\ Head(queue).op = op
  /\ queue' = Tail(queue)

(* A Start All that completes, directly or resumed by Retry Failed, leaves *)
(* all three components managed and all three set to its own side, the     *)
(* laser being the competition script: no mix with an earlier or a later   *)
(* start for the other side.                                               *)
StartAllAgrees ==
  [][\A s \in {sequence, failed} \ {None} :
       (queue' = queue \/ Received("RetryFailed")) /\ phase' = "Running" =>
         /\ \A c \in Component : managed'[c] /\ side'[c] = s.side
         /\ activeLaser' = "Competition"]_vars

(* Retry Failed resumes at the failed step: the components started before  *)
(* it keep the very process they had.                                      *)
RetryKeepsStarted ==
  [][failed # None /\ Received("RetryFailed") =>
       \A c \in StartedBefore[failed.step] : child'[c] = child[c] /\ managed'[c]]_vars

(* The actor implements StartAllOrder: the managed components come and go  *)
(* only as that specification allows.                                      *)
OrderMode ==
  IF sequence # None THEN "running" ELSE IF failed # None THEN "failed" ELSE "off"

TodoAt ==
  [StartRadar     |-> <<"Radar", "Sdr", "Laser">>,
   WaitAfterRadar |-> <<"Sdr", "Laser">>,
   StartSdr       |-> <<"Sdr", "Laser">>,
   WaitAfterSdr   |-> <<"Laser">>,
   StartLaser     |-> <<"Laser">>,
   ConfigureLaser |-> <<>>]

OrderTodo ==
  IF sequence # None THEN TodoAt[sequence.step]
  ELSE IF failed # None THEN TodoAt[failed.step] ELSE <<>>

Orchestration == INSTANCE StartAllOrder WITH
  up <- {c \in Component : managed[c]},
  mode <- OrderMode,
  todo <- OrderTodo

(* Every behaviour of the actor is one of StartAllOrder: components start  *)
(* in the order Radar, SDR, Laser; nothing else starts meanwhile; after a  *)
(* stop or an exit nothing starts until it is asked for again.             *)
ImplementsStartAllOrder == Orchestration!Spec

-----------------------------------------------------------------------------
(* Liveness.                                                               *)

(* A pending operation settles, however many other commands are sent to    *)
(* the actor meanwhile and whatever the processes do.                      *)
PendingSettles == Busy ~> ~Busy

\* No child, no ffplay window, nothing managed.
Clean ==
  /\ \A c \in Component : child[c] = "none" /\ ~managed[c]
  /\ ~ffplay
  /\ active = None

(* Closing the application never hangs in join(): whatever was going on,   *)
(* the actor reaches the Shutdown behind the commands still queued, gives  *)
(* every handle back, and the thread ends.                                 *)
CloseCompletes == (ui = "joining") ~> (ui = "closed" /\ Clean)

(* A process that died does not stay managed for ever.                     *)
ExitsNoticed == \A c \in Component : (child[c] = "exited") ~> (child[c] # "exited")

-----------------------------------------------------------------------------
(* What documents say and the code does not do.                            *)

(* todo.md, on the stop button: it reliably stops the daemon, kills it     *)
(* with pkill -9 and cleans up the FIFO.  Stated for Stop All and a daemon *)
(* that was up.                                                            *)
StopAllStopsDaemon ==
  [][Received("StopAll") /\ daemons # {} => daemons' = {} /\ ~fifo']_vars
=============================================================================
