------------------------- MODULE ProcessActorProofs -------------------------
(***************************************************************************)
(* Proofs about ScriptRunner and ProcessActor, for every set of sides and  *)
(* of commands, number of FIFO attempts and queue bound.  First types, and *)
(* the invariants that tie the snapshot to the runner and the pending      *)
(* operations to the deadline.  Then Start All: what a running or failed   *)
(* one stands on, what the phase and the buttons say of it, what its last  *)
(* step leaves behind, and that the actor implements StartAllOrder.  The   *)
(* second part rests on what one call of advance_sequence can come to      *)
(* (Advanced) and on one inductive invariant (OrderInv).                   *)
(***************************************************************************)
EXTENDS ProcessActorProperties, TLAPS

-----------------------------------------------------------------------------
(* The operations and the environment of ScriptRunner keep its types.      *)

(* start_radar, with either outcome. *)
LEMMA StartRadarType ==
  ASSUME RunnerTypeOK, NEW s \in Side, NEW ok \in BOOLEAN, RunnerStartRadar(s, ok)
  PROVE  RunnerTypeOK'
  BY DEF RunnerTypeOK, RunnerStartRadar

(* start_sdr, with either outcome. *)
LEMMA StartSdrType ==
  ASSUME RunnerTypeOK, NEW s \in Side, NEW ok \in BOOLEAN, RunnerStartSdr(s, ok)
  PROVE  RunnerTypeOK'
  BY DEF RunnerTypeOK, RunnerStartSdr

(* The daemon part of stop(). *)
LEMMA StopDaemonType ==
  ASSUME RunnerTypeOK, StopDaemon
  PROVE  daemons' \in SUBSET {"owned", "orphan"} /\ fifo' \in BOOLEAN
  BY DEF RunnerTypeOK, StopDaemon

(* start() of a laser script; the caller gives the sides. *)
LEMMA StartLaserType ==
  ASSUME RunnerTypeOK, NEW script \in LaserScript, NEW ok \in BOOLEAN,
         RunnerStartLaser(script, ok), side' \in [Component -> Side \cup {None}]
  PROVE  RunnerTypeOK'
<1>1. daemons' \in SUBSET {"owned", "orphan"} /\ fifo' \in BOOLEAN
  BY StopDaemonType DEF RunnerStartLaser, RunnerTypeOK
<1>2. active' \in LaserScript \cup {None} /\ child' \in [Component -> {"none", "alive", "exited"}]
  BY DEF RunnerStartLaser, RunnerTypeOK
<1> QED
  BY <1>1, <1>2 DEF RunnerStartLaser, RunnerTypeOK

(* Any set of stops. *)
LEMMA StopType ==
  ASSUME RunnerTypeOK, NEW S \in SUBSET Component, StopComponents(S)
  PROVE  RunnerTypeOK'
<1>1. daemons' \in SUBSET {"owned", "orphan"} /\ fifo' \in BOOLEAN
  BY StopDaemonType DEF StopComponents, RunnerTypeOK
<1>2. active' \in LaserScript \cup {None} /\ ffplay' \in BOOLEAN
  BY DEF StopComponents, RunnerTypeOK
<1>3. child' \in [Component -> {"none", "alive", "exited"}]
  BY DEF StopComponents, RunnerTypeOK
<1>4. side' \in [Component -> Side \cup {None}]
  BY DEF StopComponents, RunnerTypeOK
<1> QED
  BY <1>1, <1>2, <1>3, <1>4 DEF RunnerTypeOK

(* configure_laser touches the sides only. *)
LEMMA ConfigureType ==
  ASSUME NEW s \in Side, NEW ok \in BOOLEAN, NEW writable,
         NEW before \in [Component -> Side \cup {None}],
         ConfigureLaser(s, ok, writable, before)
  PROVE  side' \in [Component -> Side \cup {None}]
  BY DEF ConfigureLaser

(* poll_exits. *)
LEMMA PollType ==
  ASSUME RunnerTypeOK, PollExits
  PROVE  RunnerTypeOK'
<1>1. child' \in [Component -> {"none", "alive", "exited"}]
  BY DEF PollExits, RunnerTypeOK
<1>2. side' \in [Component -> Side \cup {None}]
  BY DEF PollExits, RunnerTypeOK
<1>3. active' \in LaserScript \cup {None} /\ daemons' \in SUBSET {"owned", "orphan"}
  BY DEF PollExits, RunnerTypeOK
<1> QED
  BY <1>1, <1>2, <1>3 DEF PollExits, RunnerTypeOK

(* What the external programs do on their own. *)
LEMMA EnvironmentType ==
  ASSUME RunnerTypeOK, Environment
  PROVE  RunnerTypeOK'
<1>1. ASSUME NEW c \in Component, ChildExits(c) PROVE RunnerTypeOK'
  BY <1>1 DEF ChildExits, RunnerTypeOK
<1>2. CASE DaemonLaunches
  BY <1>2 DEF DaemonLaunches, RunnerTypeOK
<1>3. ASSUME NEW d \in {"owned", "orphan"}, DaemonEnds(d) PROVE RunnerTypeOK'
  BY <1>3 DEF DaemonEnds, RunnerTypeOK
<1> QED
  BY <1>1, <1>2, <1>3 DEF Environment

-----------------------------------------------------------------------------
(* Type correctness.                                                       *)

\* The variables an arm of advance_sequence assigns have their types after it.
AdvanceTyped ==
  /\ RunnerTypeOK'
  /\ phase' \in Phase
  /\ managed' \in [Component -> BOOLEAN]
  /\ activeLaser' \in LaserScript \cup {None}
  /\ error' \in BOOLEAN
  /\ sequence' \in SequenceType \cup {None}
  /\ failed' \in FailedType \cup {None}
  /\ deadline' \in BOOLEAN

(* Every component has a Failed phase.                                     *)
LEMMA FailedInPhase == \A c \in Component : Failed[c] \in Phase
  BY DEF Failed, Component, Phase, FailedPhase

(* Moving a sequence to another step keeps its type.                       *)
LEMMA StepType ==
  ASSUME NEW seq \in SequenceType, NEW step \in Step
  PROVE  [seq EXCEPT !.step = step] \in SequenceType
  BY DEF SequenceType

(* sequence_failed keeps what is needed for Retry Failed.                  *)
LEMMA SequenceFailedType ==
  ASSUME NEW seq \in SequenceType, NEW c \in Component, SequenceFailed(seq, c)
  PROVE  /\ sequence' \in SequenceType \cup {None}
         /\ failed' \in FailedType \cup {None}
         /\ phase' \in Phase
         /\ error' \in BOOLEAN
<1>1. failed' \in FailedType
  BY DEF SequenceFailed, SequenceType, FailedType
<1> QED
  BY <1>1, FailedInPhase DEF SequenceFailed

(* The StartRadar arm.                                                     *)
LEMMA AdvanceStartRadarType ==
  ASSUME TypeOK, NEW seq \in SequenceType, NEW armed \in BOOLEAN,
         NEW kept \in FailedType \cup {None}, AdvanceStartRadar(seq, armed, kept)
  PROVE  AdvanceTyped
<1>1. PICK ok \in BOOLEAN : AdvanceStartRadar(seq, armed, kept)!(ok)
  BY DEF AdvanceStartRadar
<1>2. seq.side \in Side /\ "Radar" \in Component /\ "WaitAfterRadar" \in Step
  BY DEF SequenceType, Component, Step
<1>3. RunnerTypeOK'
  BY <1>1, <1>2, StartRadarType DEF TypeOK
<1>4. managed' \in [Component -> BOOLEAN] /\ activeLaser' \in LaserScript \cup {None}
  BY <1>1 DEF TypeOK
<1>5. CASE ok
  BY <1>1, <1>2, <1>3, <1>4, <1>5, StepType DEF Phase, AdvanceTyped
<1>6. CASE ~ok
  BY <1>1, <1>2, <1>3, <1>4, <1>6, SequenceFailedType DEF AdvanceTyped
<1> QED
  BY <1>5, <1>6

(* The StartSdr arm.                                                       *)
LEMMA AdvanceStartSdrType ==
  ASSUME TypeOK, NEW seq \in SequenceType, NEW armed \in BOOLEAN,
         NEW kept \in FailedType \cup {None}, AdvanceStartSdr(seq, armed, kept)
  PROVE  AdvanceTyped
<1>1. PICK ok \in BOOLEAN : AdvanceStartSdr(seq, armed, kept)!(ok)
  BY DEF AdvanceStartSdr
<1>2. /\ seq.side \in Side /\ "Sdr" \in Component
      /\ "WaitAfterSdr" \in Step /\ "StartSdr" \in Step
  BY DEF SequenceType, Component, Step
<1>3. RunnerTypeOK'
  BY <1>1, <1>2, StartSdrType DEF TypeOK
<1>4. managed' \in [Component -> BOOLEAN] /\ activeLaser' \in LaserScript \cup {None}
  BY <1>1 DEF TypeOK
<1>5. CASE ok
  BY <1>1, <1>2, <1>3, <1>4, <1>5, StepType DEF Phase, AdvanceTyped, TypeOK
<1>6. CASE ~ok
  <2>1. [seq EXCEPT !.step = "StartSdr"] \in SequenceType
    BY <1>2, StepType
  <2> QED
    BY <1>1, <1>2, <1>3, <1>4, <1>6, <2>1, SequenceFailedType DEF AdvanceTyped
<1> QED
  BY <1>5, <1>6

(* The outcome of a configuration: the attempt counter stays in its range. *)
LEMMA ConfigurationResultType ==
  ASSUME NEW seq \in SequenceType, NEW armed \in BOOLEAN, NEW ok \in BOOLEAN,
         NEW kept \in FailedType \cup {None}, ConfigurationResult(seq, armed, kept, ok)
  PROVE  /\ sequence' \in SequenceType \cup {None}
         /\ failed' \in FailedType \cup {None}
         /\ phase' \in Phase
         /\ error' \in BOOLEAN
         /\ deadline' \in BOOLEAN
<1>1. CASE ok
  BY <1>1 DEF ConfigurationResult, Phase
<1>2. CASE ~ok /\ seq.attempts + 1 < FifoAttempts
  <2>1. seq.attempts + 1 \in Attempts
    BY <1>2, ActorAssumption DEF SequenceType, Attempts
  <2>2. [seq EXCEPT !.attempts = seq.attempts + 1] \in SequenceType
    BY <2>1 DEF SequenceType
  <2> QED
    BY <1>2, <2>2 DEF ConfigurationResult, Phase
<1>3. CASE ~ok /\ ~(seq.attempts + 1 < FifoAttempts)
  <2>1. SequenceFailed(seq, "Laser") /\ deadline' = armed
    BY <1>3 DEF ConfigurationResult
  <2> QED
    BY <2>1, SequenceFailedType DEF Component
<1> QED
  BY <1>1, <1>2, <1>3

(* The ConfigureLaser arm.                                                 *)
LEMMA AdvanceConfigureType ==
  ASSUME TypeOK, NEW seq \in SequenceType, NEW armed \in BOOLEAN,
         NEW kept \in FailedType \cup {None}, AdvanceConfigure(seq, armed, kept)
  PROVE  AdvanceTyped
<1>1. PICK ok \in BOOLEAN : /\ ConfigureLaser(seq.side, ok, FifoWritable, side)
                            /\ ConfigurationResult(seq, armed, kept, ok)
  BY DEF AdvanceConfigure
<1>2. seq.side \in Side
  BY DEF SequenceType
<1>3. side' \in [Component -> Side \cup {None}]
  BY <1>1, <1>2, ConfigureType DEF TypeOK, RunnerTypeOK
<1>4. UNCHANGED <<child, active, ffplay, daemons, fifo, managed, activeLaser>>
  BY DEF AdvanceConfigure
<1>5. RunnerTypeOK'
  BY <1>3, <1>4 DEF TypeOK, RunnerTypeOK
<1> QED
  BY <1>1, <1>4, <1>5, ConfigurationResultType DEF AdvanceTyped, TypeOK

(* The StartLaser arm.                                                     *)
LEMMA AdvanceStartLaserType ==
  ASSUME TypeOK, NEW seq \in SequenceType, NEW armed \in BOOLEAN,
         NEW kept \in FailedType \cup {None}, AdvanceStartLaser(seq, armed, kept)
  PROVE  AdvanceTyped
<1> DEFINE unset == [side EXCEPT !["Laser"] = None]
<1>1. /\ seq.side \in Side /\ "Laser" \in Component
      /\ "ConfigureLaser" \in Step /\ "StartLaser" \in Step
      /\ "Competition" \in LaserScript
  BY DEF SequenceType, Component, Step, LaserScript
<1>2. unset \in [Component -> Side \cup {None}]
  BY DEF TypeOK, RunnerTypeOK
<1>3. CASE /\ RunnerStartLaser("Competition", TRUE)
           /\ managed' = [managed EXCEPT !["Laser"] = TRUE]
           /\ activeLaser' = "Competition"
           /\ \E ok \in BOOLEAN :
                /\ ConfigureLaser(seq.side, ok, FifoWritable', unset)
                /\ ConfigurationResult([seq EXCEPT !.step = "ConfigureLaser"], armed, kept, ok)
  <2>1. PICK ok \in BOOLEAN :
                /\ ConfigureLaser(seq.side, ok, FifoWritable', unset)
                /\ ConfigurationResult([seq EXCEPT !.step = "ConfigureLaser"], armed, kept, ok)
    BY <1>3
  <2>2. side' \in [Component -> Side \cup {None}]
    BY <1>1, <1>2, <2>1, ConfigureType
  <2>3. RunnerTypeOK'
    BY <1>1, <1>3, <2>2, StartLaserType DEF TypeOK
  <2>4. [seq EXCEPT !.step = "ConfigureLaser"] \in SequenceType
    BY <1>1, StepType
  <2>5. managed' \in [Component -> BOOLEAN] /\ activeLaser' \in LaserScript
    BY <1>1, <1>3 DEF TypeOK
  <2> QED
    BY <2>1, <2>3, <2>4, <2>5, ConfigurationResultType DEF AdvanceTyped
<1>4. CASE /\ RunnerStartLaser("Competition", FALSE)
           /\ managed' = [managed EXCEPT !["Laser"] = FALSE]
           /\ activeLaser' = None
           /\ side' = unset
           /\ SequenceFailed([seq EXCEPT !.step = "StartLaser"], "Laser")
           /\ deadline' = armed
  <2>1. RunnerTypeOK'
    BY <1>1, <1>2, <1>4, StartLaserType DEF TypeOK
  <2>2. [seq EXCEPT !.step = "StartLaser"] \in SequenceType
    BY <1>1, StepType
  <2>3. managed' \in [Component -> BOOLEAN]
    BY <1>4 DEF TypeOK
  <2> QED
    BY <1>1, <1>4, <2>1, <2>2, <2>3, SequenceFailedType DEF AdvanceTyped
<1> QED
  BY <1>3, <1>4 DEF AdvanceStartLaser

(* advance_sequence, whatever the step.                                    *)
LEMMA AdvanceSequenceType ==
  ASSUME TypeOK, NEW seq \in SequenceType, NEW armed \in BOOLEAN,
         NEW kept \in FailedType \cup {None}, AdvanceSequence(seq, armed, kept)
  PROVE  AdvanceTyped
  BY AdvanceStartRadarType, AdvanceStartSdrType, AdvanceStartLaserType, AdvanceConfigureType
     DEF AdvanceSequence

(* A command at the head of the channel is a command, and so are the rest. *)
LEMMA ReceiveType ==
  ASSUME TypeOK, NEW op, Receive(op)
  PROVE  /\ Head(queue) \in Command
         /\ Head(queue).op = op
         /\ queue' \in Seq(Command)
         /\ ui' = ui /\ running
  BY DEF TypeOK, Receive

(* Which record the operation of a command makes it.                       *)
LEMMA CommandFields ==
  ASSUME NEW command \in Command
  PROVE  /\ command.op \in StartOps => command.side \in Side
         /\ command.op = "StartLaser" => /\ command.script \in LaserScript
                                         /\ command.configure \in BOOLEAN
  BY DEF Command, StartOps

(* A start that is not of a sequence.                                      *)
LEMMA ComponentStartedType ==
  ASSUME TypeOK, NEW c \in Component, NEW ok \in BOOLEAN, ComponentStarted(c, ok)
  PROVE  managed' \in [Component -> BOOLEAN] /\ phase' \in Phase /\ error' \in BOOLEAN
<1>1. managed' \in [Component -> BOOLEAN] /\ error' \in BOOLEAN
  BY DEF ComponentStarted, TypeOK
<1>2. phase' \in Phase
  BY FailedInPhase DEF ComponentStarted, Phase
<1> QED
  BY <1>1, <1>2

(* The outcome of a standalone configuration.                              *)
LEMMA StandaloneResultType ==
  ASSUME NEW conf \in ConfigurationType, NEW armed \in BOOLEAN, NEW ok \in BOOLEAN,
         StandaloneResult(conf, armed, ok)
  PROVE  /\ laserConfiguration' \in ConfigurationType \cup {None}
         /\ phase' \in Phase
         /\ error' \in BOOLEAN
         /\ deadline' \in BOOLEAN
<1>1. CASE ok
  BY <1>1 DEF StandaloneResult, Phase
<1>2. CASE ~ok /\ conf.attempts + 1 < FifoAttempts
  <2>1. conf.attempts + 1 \in Attempts
    BY <1>2, ActorAssumption DEF ConfigurationType, Attempts
  <2>2. [conf EXCEPT !.attempts = conf.attempts + 1] \in ConfigurationType
    BY <2>1 DEF ConfigurationType
  <2> QED
    BY <1>2, <2>2 DEF StandaloneResult, Phase
<1>3. CASE ~ok /\ ~(conf.attempts + 1 < FifoAttempts)
  BY <1>3, FailedInPhase DEF StandaloneResult, Component
<1> QED
  BY <1>1, <1>2, <1>3

(* The first state is well typed.                                          *)
LEMMA TypeInit == Init => TypeOK
<1> SUFFICES ASSUME Init PROVE TypeOK
  OBVIOUS
<1>1. RunnerTypeOK
  BY DEF Init, RunnerInit, RunnerTypeOK
<1>2. queue \in Seq(Command)
  BY DEF Init
<1>3. phase \in Phase
  BY DEF Init, Phase
<1> QED
  BY <1>1, <1>2, <1>3 DEF Init, TypeOK

(* A start command, accepted: the types after StartLaser, case by case.    *)
LEMMA StartLaserStepType ==
  ASSUME TypeOK, StartLaser
  PROVE  TypeOK'
<1> DEFINE unset == [side EXCEPT !["Laser"] = None]
           cmd == Head(queue)
<1>1. /\ Receive("StartLaser")
      /\ LaserNotStarted(unset) \/ LaserStartedPlain(unset) \/ LaserStartedToConfigure(unset)
      /\ UNCHANGED <<running, daemonAvailable>>
  BY DEF StartLaser
<1>2. /\ cmd.side \in Side /\ cmd.script \in LaserScript
      /\ queue' \in Seq(Command) /\ ui' = ui
  BY <1>1, ReceiveType, CommandFields DEF StartOps
<1>3. unset \in [Component -> Side \cup {None}] /\ "Laser" \in Component
  BY DEF TypeOK, RunnerTypeOK, Component
<1>4. CASE LaserNotStarted(unset)
  <2>1. RunnerTypeOK'
    BY <1>2, <1>3, <1>4, StartLaserType DEF LaserNotStarted, TypeOK
  <2>2. managed' \in [Component -> BOOLEAN] /\ phase' \in Phase /\ error' \in BOOLEAN
    BY <1>3, <1>4, ComponentStartedType DEF LaserNotStarted
  <2> QED
    BY <1>1, <1>2, <1>4, <2>1, <2>2 DEF LaserNotStarted, ResetPending, TypeOK
<1>5. CASE LaserStartedPlain(unset)
  <2>1. RunnerTypeOK'
    BY <1>2, <1>3, <1>5, StartLaserType DEF LaserStartedPlain, TypeOK
  <2>2. managed' \in [Component -> BOOLEAN] /\ phase' \in Phase /\ error' \in BOOLEAN
    BY <1>3, <1>5, ComponentStartedType DEF LaserStartedPlain
  <2> QED
    BY <1>1, <1>2, <1>5, <2>1, <2>2 DEF LaserStartedPlain, ResetPending, TypeOK
<1>6. CASE LaserStartedToConfigure(unset)
  <2> DEFINE conf == [side |-> cmd.side, attempts |-> 0]
  <2>1. PICK ok \in BOOLEAN :
          /\ ConfigureLaser(cmd.side, ok, FifoWritable', unset)
          /\ StandaloneResult(conf, FALSE, ok)
    BY <1>6 DEF LaserStartedToConfigure
  <2>2. conf \in ConfigurationType
    BY <1>2, ActorAssumption DEF ConfigurationType, Attempts
  <2>3. side' \in [Component -> Side \cup {None}]
    BY <1>2, <1>3, <2>1, ConfigureType
  <2>4. RunnerTypeOK'
    BY <1>2, <1>6, <2>3, StartLaserType DEF LaserStartedToConfigure, TypeOK
  <2>5. managed' \in [Component -> BOOLEAN] /\ activeLaser' \in LaserScript
    BY <1>2, <1>6 DEF LaserStartedToConfigure, TypeOK
  <2>6. sequence' = None /\ failed' = None
    BY <1>6 DEF LaserStartedToConfigure
  <2>7. /\ laserConfiguration' \in ConfigurationType \cup {None}
        /\ phase' \in Phase /\ error' \in BOOLEAN /\ deadline' \in BOOLEAN
    BY <2>1, <2>2, StandaloneResultType
  <2> HIDE DEF conf, cmd
  <2> QED
    BY <1>1, <1>2, <2>4, <2>5, <2>6, <2>7 DEF TypeOK
<1> QED
  BY <1>1, <1>4, <1>5, <1>6

(* A stop of one component.                                                *)
LEMMA StopComponentType ==
  ASSUME TypeOK, NEW op, NEW c \in Component, Receive(op), StopComponent(c)
  PROVE  TypeOK'
<1>1. queue' \in Seq(Command) /\ ui' = ui
  BY ReceiveType
<1>2. RunnerTypeOK'
  BY StopType DEF StopComponent, TypeOK
<1>3. managed' \in [Component -> BOOLEAN] /\ activeLaser' \in LaserScript \cup {None}
  BY DEF StopComponent, TypeOK
<1>4. phase' \in Phase
  BY DEF StopComponent, ManagedPhase, Phase
<1> QED
  BY <1>1, <1>2, <1>3, <1>4 DEF StopComponent, ResetPending, TypeOK

(* Stop All and Shutdown.                                                  *)
LEMMA StopAllType ==
  ASSUME TypeOK, NEW op, Receive(op), ResetPending, StopAllComponents, running' \in BOOLEAN
  PROVE  TypeOK'
<1>1. queue' \in Seq(Command) /\ ui' = ui
  BY ReceiveType
<1>2. RunnerTypeOK'
  BY StopType DEF StopAllComponents, TypeOK
<1>3. managed' \in [Component -> BOOLEAN] /\ phase' \in Phase
  BY DEF StopAllComponents, Phase
<1> QED
  BY <1>1, <1>2, <1>3 DEF StopAllComponents, ResetPending, TypeOK

(* Every step keeps the types, one action of Next at a time.               *)
LEMMA TypeStep == TypeOK /\ [Next]_vars => TypeOK'
<1> SUFFICES ASSUME TypeOK, [Next]_vars PROVE TypeOK'
  OBVIOUS
<1>1. ASSUME NEW command \in Commands, Send(command) PROVE TypeOK'
  <2>1. command \in Command
    BY ActorAssumption
  <2>2. queue' \in Seq(Command)
    BY <1>1, <2>1 DEF Send, TypeOK
  <2> QED
    BY <1>1, <2>2 DEF Send, TypeOK, RunnerTypeOK, runnerVars, snapshot, pending
<1>2. CASE DropRuntime
  <2>1. [op |-> "Shutdown"] \in Command
    BY DEF Command
  <2>2. queue' \in Seq(Command)
    BY <1>2, <2>1 DEF DropRuntime, TypeOK
  <2> QED
    BY <1>2, <2>2 DEF DropRuntime, TypeOK, RunnerTypeOK, runnerVars, snapshot, pending
<1>3. CASE JoinThread
  BY <1>3 DEF JoinThread, TypeOK, RunnerTypeOK, runnerVars, snapshot, pending
<1>4. CASE RejectStart
  <2>1. queue' \in Seq(Command) /\ ui' = ui
    BY <1>4, ReceiveType DEF RejectStart
  <2> QED
    BY <1>4, <2>1 DEF RejectStart, TypeOK, RunnerTypeOK, runnerVars, pending
<1>5. CASE StartAll
  <2> DEFINE seq == [side |-> Head(queue).side, step |-> "StartRadar", attempts |-> 0]
  <2>1. /\ queue' \in Seq(Command) /\ ui' = ui /\ Head(queue).side \in Side
    BY <1>5, ReceiveType, CommandFields DEF StartAll, StartOps
  <2>2. seq \in SequenceType
    BY <2>1, ActorAssumption DEF SequenceType, Step, Attempts
  <2>3. AdvanceStartRadar(seq, FALSE, None)
    BY <1>5 DEF StartAll
  <2> HIDE DEF seq
  <2>4. AdvanceTyped
    BY <2>2, <2>3, AdvanceStartRadarType
  <2> QED
    BY <1>5, <2>1, <2>4 DEF StartAll, AdvanceTyped, TypeOK
<1>6. CASE RetryFailed
  <2>1. queue' \in Seq(Command) /\ ui' = ui
    BY <1>6, ReceiveType DEF RetryFailed
  <2>2. CASE failed = None
    BY <1>6, <2>1, <2>2 DEF RetryFailed, TypeOK, RunnerTypeOK, runnerVars, snapshot, pending
  <2>3. CASE failed # None
    <3> DEFINE seq == [side |-> failed.side, step |-> failed.step, attempts |-> 0]
    <3>0. failed \in FailedType
      BY <2>3 DEF TypeOK
    <3>1. seq \in SequenceType
      BY <3>0, ActorAssumption DEF FailedType, SequenceType, Attempts
    <3>2. AdvanceSequence(seq, deadline, None) /\ UNCHANGED <<laserConfiguration, daemonAvailable>>
      BY <1>6, <2>3 DEF RetryFailed
    <3> HIDE DEF seq
    <3>3. AdvanceTyped
      BY <3>1, <3>2, AdvanceSequenceType DEF TypeOK
    <3>4. UNCHANGED running
      BY <1>6 DEF RetryFailed
    <3> QED
      BY <2>1, <3>2, <3>3, <3>4 DEF AdvanceTyped, TypeOK
  <2> QED
    BY <2>2, <2>3
<1>7. CASE StartRadar
  <2>1. /\ queue' \in Seq(Command) /\ ui' = ui /\ Head(queue).side \in Side
    BY <1>7, ReceiveType, CommandFields DEF StartRadar, StartOps
  <2>2. PICK ok \in BOOLEAN : RunnerStartRadar(Head(queue).side, ok) /\ ComponentStarted("Radar", ok)
    BY <1>7 DEF StartRadar
  <2>3. RunnerTypeOK'
    BY <2>1, <2>2, StartRadarType DEF TypeOK
  <2>4. managed' \in [Component -> BOOLEAN] /\ phase' \in Phase /\ error' \in BOOLEAN
    BY <2>2, ComponentStartedType DEF Component
  <2> QED
    BY <1>7, <2>1, <2>3, <2>4 DEF StartRadar, ResetPending, TypeOK
<1>8. CASE StartSdr
  <2>1. /\ queue' \in Seq(Command) /\ ui' = ui /\ Head(queue).side \in Side
    BY <1>8, ReceiveType, CommandFields DEF StartSdr, StartOps
  <2>2. PICK ok \in BOOLEAN : RunnerStartSdr(Head(queue).side, ok) /\ ComponentStarted("Sdr", ok)
    BY <1>8 DEF StartSdr
  <2>3. RunnerTypeOK'
    BY <2>1, <2>2, StartSdrType DEF TypeOK
  <2>4. managed' \in [Component -> BOOLEAN] /\ phase' \in Phase /\ error' \in BOOLEAN
    BY <2>2, ComponentStartedType DEF Component
  <2> QED
    BY <1>8, <2>1, <2>3, <2>4 DEF StartSdr, ResetPending, TypeOK
<1>9. CASE StartLaser
  BY <1>9, StartLaserStepType
<1>10. CASE SendLaserCommand
  <2>1. queue' \in Seq(Command) /\ ui' = ui
    BY <1>10, ReceiveType DEF SendLaserCommand
  <2>2. /\ error' \in BOOLEAN
        /\ UNCHANGED <<runnerVars, running, phase, managed, activeLaser, daemonAvailable, pending>>
    BY <1>10 DEF SendLaserCommand, TypeOK
  <2> QED
    BY <2>1, <2>2 DEF TypeOK, RunnerTypeOK, runnerVars, pending
<1>11. CASE StopRadar
  BY <1>11, StopComponentType DEF StopRadar, Component
<1>12. CASE StopSdr
  BY <1>12, StopComponentType DEF StopSdr, Component
<1>13. CASE StopLaser
  BY <1>13, StopComponentType DEF StopLaser, Component
<1>14. CASE StopAll
  BY <1>14, StopAllType DEF StopAll, TypeOK
<1>15. CASE Shutdown
  BY <1>15, StopAllType DEF Shutdown
<1>16. CASE DeadlineSequence
  <2>1. sequence \in SequenceType /\ AdvanceSequence(sequence, FALSE, failed)
    BY <1>16 DEF DeadlineSequence, TypeOK
  <2>2. AdvanceTyped
    BY <2>1, AdvanceSequenceType DEF TypeOK
  <2>3. UNCHANGED <<ui, queue, running, daemonAvailable, laserConfiguration>>
    BY <1>16 DEF DeadlineSequence
  <2> QED
    BY <2>2, <2>3 DEF AdvanceTyped, TypeOK
<1>17. CASE DeadlineLaser
  <2>1. UNCHANGED <<child, active, ffplay, daemons, fifo, ui, queue, running,
                    managed, activeLaser, daemonAvailable, sequence, failed>>
    BY <1>17 DEF DeadlineLaser
  <2>2. CASE laserConfiguration = None
    <3>1. deadline' = FALSE /\ UNCHANGED <<side, laserConfiguration, phase, error>>
      BY <1>17, <2>2 DEF DeadlineLaser
    <3>2. RunnerTypeOK'
      BY <2>1, <3>1 DEF TypeOK, RunnerTypeOK
    <3> QED
      BY <2>1, <3>1, <3>2 DEF TypeOK
  <2>3. CASE laserConfiguration # None
    <3>1. laserConfiguration \in ConfigurationType
      BY <2>3 DEF TypeOK
    <3>2. PICK ok \in BOOLEAN :
            /\ ConfigureLaser(laserConfiguration.side, ok, FifoWritable, side)
            /\ StandaloneResult(laserConfiguration, FALSE, ok)
      BY <1>17, <2>3 DEF DeadlineLaser
    <3>3. side' \in [Component -> Side \cup {None}]
      BY <3>1, <3>2, ConfigureType DEF ConfigurationType, TypeOK, RunnerTypeOK
    <3>4. /\ laserConfiguration' \in ConfigurationType \cup {None}
          /\ phase' \in Phase /\ error' \in BOOLEAN /\ deadline' \in BOOLEAN
      BY <3>1, <3>2, StandaloneResultType
    <3> QED
      BY <2>1, <3>3, <3>4 DEF TypeOK, RunnerTypeOK
  <2> QED
    BY <2>2, <2>3
<1>18. CASE DaemonProbe
  <2>1. RunnerTypeOK' /\ daemonAvailable' \in BOOLEAN
    BY <1>18, PollType DEF DaemonProbe, TypeOK, RunnerTypeOK
  <2>2. CASE Exited = {}
    BY <1>18, <2>1, <2>2 DEF DaemonProbe, TypeOK, pending
  <2>3. CASE Exited # {}
    <3>1. phase' \in Phase
      BY <1>18, <2>3, FailedInPhase DEF DaemonProbe, LastExit, Component
    <3>2. managed' \in [Component -> BOOLEAN] /\ activeLaser' \in LaserScript \cup {None}
      BY <1>18, <2>3 DEF DaemonProbe, TypeOK
    <3> QED
      BY <1>18, <2>1, <2>3, <3>1, <3>2 DEF DaemonProbe, ResetPending, TypeOK
  <2> QED
    BY <2>2, <2>3
<1>19. CASE External
  BY <1>19, EnvironmentType DEF External, TypeOK, snapshot, pending
<1>20. CASE UNCHANGED vars
  BY <1>20 DEF vars, runnerVars, snapshot, pending, TypeOK, RunnerTypeOK
<1> QED
  BY <1>1, <1>2, <1>3, <1>4, <1>5, <1>6, <1>7, <1>8, <1>9, <1>10, <1>11, <1>12, <1>13,
     <1>14, <1>15, <1>16, <1>17, <1>18, <1>19, <1>20
     DEF Next, ReceiveCommand, Deadline

(* Type correctness: in particular no attempt counter ever reaches         *)
(* FIFO_ATTEMPTS, so the u8 additions of the two retry loops cannot        *)
(* overflow, and no turn ends in one of the transient phases.              *)
THEOREM TypeCorrect == Spec => []TypeOK
<1>1. QED
  BY TypeInit, TypeStep, PTL DEF Spec

-----------------------------------------------------------------------------
(* The snapshot and the runner.                                            *)

(* A process started, or not, for a component that is not the laser.       *)
LEMMA StartTracks ==
  ASSUME TypeOK, SnapshotTracksRunner,
         NEW c \in {"Radar", "Sdr"}, NEW ok \in BOOLEAN,
         child' = [child EXCEPT ![c] = IF ok THEN "alive" ELSE "none"],
         managed' = [managed EXCEPT ![c] = ok],
         UNCHANGED <<active, activeLaser>>
  PROVE  SnapshotTracksRunner'
<1>1. child'["Laser"] = child["Laser"]
  BY DEF TypeOK, RunnerTypeOK, Component
<1>2. \A d \in Component : managed'[d] <=> child'[d] # "none"
  BY DEF SnapshotTracksRunner, TypeOK, RunnerTypeOK, Component
<1> QED
  BY <1>1, <1>2 DEF SnapshotTracksRunner

(* A laser script started, or not.                                         *)
LEMMA StartLaserTracks ==
  ASSUME TypeOK, SnapshotTracksRunner,
         NEW script \in LaserScript, NEW ok \in BOOLEAN,
         RunnerStartLaser(script, ok),
         managed' = [managed EXCEPT !["Laser"] = ok],
         activeLaser' = IF ok THEN script ELSE None
  PROVE  SnapshotTracksRunner'
<1>1. /\ child' = [child EXCEPT !["Laser"] = IF ok THEN "alive" ELSE "none"]
      /\ active' = IF ok THEN script ELSE None
  BY DEF RunnerStartLaser
<1>2. \A d \in Component : managed'[d] <=> child'[d] # "none"
  BY <1>1 DEF SnapshotTracksRunner, TypeOK, RunnerTypeOK, Component
<1>3. active' # None <=> child'["Laser"] # "none"
  BY <1>1, RunnerAssumption DEF TypeOK, RunnerTypeOK, Component
<1> QED
  BY <1>1, <1>2, <1>3 DEF SnapshotTracksRunner

(* Some components lose their process and are no longer managed.           *)
LEMMA DropTracks ==
  ASSUME SnapshotTracksRunner, NEW S \in SUBSET Component,
         child' = [c \in Component |-> IF c \in S THEN "none" ELSE child[c]],
         managed' = [c \in Component |-> managed[c] /\ c \notin S],
         active' = (IF "Laser" \in S THEN None ELSE active),
         activeLaser' = (IF "Laser" \in S THEN None ELSE activeLaser)
  PROVE  SnapshotTracksRunner'
<1>1. \A c \in Component : managed'[c] <=> child'[c] # "none"
  BY DEF SnapshotTracksRunner
<1>2. active' # None <=> child'["Laser"] # "none"
  BY DEF SnapshotTracksRunner, Component
<1> QED
  BY <1>1, <1>2 DEF SnapshotTracksRunner

(* advance_sequence, whatever the step.                                    *)
LEMMA AdvanceTracks ==
  ASSUME TypeOK, SnapshotTracksRunner, NEW seq, NEW armed, NEW kept,
         AdvanceSequence(seq, armed, kept)
  PROVE  SnapshotTracksRunner'
<1>1. CASE AdvanceStartRadar(seq, armed, kept)
  BY <1>1, StartTracks DEF AdvanceStartRadar, RunnerStartRadar
<1>2. CASE AdvanceStartSdr(seq, armed, kept)
  BY <1>2, StartTracks DEF AdvanceStartSdr, RunnerStartSdr
<1>3. CASE AdvanceStartLaser(seq, armed, kept)
  <2>1. "Competition" \in LaserScript
    BY DEF LaserScript
  <2>2. \E ok \in BOOLEAN : /\ RunnerStartLaser("Competition", ok)
                            /\ managed' = [managed EXCEPT !["Laser"] = ok]
                            /\ activeLaser' = IF ok THEN "Competition" ELSE None
    BY <1>3 DEF AdvanceStartLaser
  <2> QED
    BY <2>1, <2>2, StartLaserTracks
<1>4. CASE AdvanceConfigure(seq, armed, kept)
  BY <1>4 DEF AdvanceConfigure, SnapshotTracksRunner
<1> QED
  BY <1>1, <1>2, <1>3, <1>4 DEF AdvanceSequence

(* Steps that touch none of the four variables.                            *)
LEMMA SameTracks ==
  ASSUME SnapshotTracksRunner, UNCHANGED <<child, active, managed, activeLaser>>
  PROVE  SnapshotTracksRunner'
  BY DEF SnapshotTracksRunner

(* StartLaser as a command.                                                *)
LEMMA StartLaserStepTracks ==
  ASSUME TypeOK, SnapshotTracksRunner, StartLaser
  PROVE  SnapshotTracksRunner'
<1> DEFINE unset == [side EXCEPT !["Laser"] = None]
           script == Head(queue).script
<1>1. script \in LaserScript
  BY ReceiveType, CommandFields DEF StartLaser, StartOps
<1>2. LaserNotStarted(unset) \/ LaserStartedPlain(unset) \/ LaserStartedToConfigure(unset)
  BY DEF StartLaser
<1>3. \E ok \in BOOLEAN : /\ RunnerStartLaser(script, ok)
                          /\ managed' = [managed EXCEPT !["Laser"] = ok]
                          /\ activeLaser' = IF ok THEN script ELSE None
  <2>1. CASE LaserNotStarted(unset)
    BY <2>1 DEF LaserNotStarted, ComponentStarted
  <2>2. CASE LaserStartedPlain(unset)
    BY <2>2 DEF LaserStartedPlain, ComponentStarted
  <2>3. CASE LaserStartedToConfigure(unset)
    BY <2>3 DEF LaserStartedToConfigure
  <2> QED
    BY <1>2, <2>1, <2>2, <2>3
<1> HIDE DEF script
<1> QED
  BY <1>1, <1>3, StartLaserTracks

(* A stop of one component.                                                *)
LEMMA StopTracks ==
  ASSUME TypeOK, SnapshotTracksRunner, NEW c \in Component, StopComponent(c)
  PROVE  SnapshotTracksRunner'
<1>1. /\ child' = [d \in Component |-> IF d \in {c} THEN "none" ELSE child[d]]
      /\ managed' = [d \in Component |-> managed[d] /\ d \notin {c}]
  BY DEF StopComponent, StopComponents, TypeOK
<1>2. /\ active' = (IF "Laser" \in {c} THEN None ELSE active)
      /\ activeLaser' = (IF "Laser" \in {c} THEN None ELSE activeLaser)
  BY DEF StopComponent, StopComponents
<1> QED
  BY <1>1, <1>2, DropTracks

(* Every stop at once.                                                     *)
LEMMA StopAllTracks ==
  ASSUME StopAllComponents
  PROVE  SnapshotTracksRunner'
<1>1. /\ child' = [d \in Component |-> "none"]
      /\ managed' = [d \in Component |-> FALSE]
      /\ active' = None /\ activeLaser' = None
  BY DEF StopAllComponents, StopComponents, Component
<1> QED
  BY <1>1 DEF SnapshotTracksRunner, Component

(* The probe: what was reaped is no longer managed.                        *)
LEMMA ProbeTracks ==
  ASSUME TypeOK, SnapshotTracksRunner, DaemonProbe
  PROVE  SnapshotTracksRunner'
<1>1. /\ child' = [d \in Component |-> IF d \in Exited THEN "none" ELSE child[d]]
      /\ active' = (IF "Laser" \in Exited THEN None ELSE active)
      /\ Exited \in SUBSET Component
  BY DEF DaemonProbe, PollExits, Exited
<1>2. /\ managed' = [d \in Component |-> managed[d] /\ d \notin Exited]
      /\ activeLaser' = (IF "Laser" \in Exited THEN None ELSE activeLaser)
  BY DEF DaemonProbe, TypeOK
<1> QED
  BY <1>1, <1>2, DropTracks

(* A child that ends is still held until it is reaped.                     *)
LEMMA ExternalTracks ==
  ASSUME TypeOK, SnapshotTracksRunner, External
  PROVE  SnapshotTracksRunner'
<1>1. UNCHANGED <<managed, activeLaser>>
  BY DEF External, snapshot
<1>2. ASSUME NEW c \in Component, ChildExits(c) PROVE SnapshotTracksRunner'
  <2>1. \A d \in Component : child'[d] # "none" <=> child[d] # "none"
    BY <1>2 DEF ChildExits, TypeOK, RunnerTypeOK
  <2> QED
    BY <1>1, <1>2, <2>1 DEF ChildExits, SnapshotTracksRunner, Component
<1>3. CASE DaemonLaunches
  BY <1>1, <1>3, SameTracks DEF DaemonLaunches
<1>4. ASSUME NEW d \in {"owned", "orphan"}, DaemonEnds(d) PROVE SnapshotTracksRunner'
  BY <1>1, <1>4, SameTracks DEF DaemonEnds
<1> QED
  BY <1>2, <1>3, <1>4 DEF External, Environment

(* Every step keeps the snapshot and the runner in step.                   *)
LEMMA TracksStep ==
  ASSUME TypeOK, SnapshotTracksRunner, [Next]_vars
  PROVE  SnapshotTracksRunner'
<1>1. ASSUME NEW command \in Commands, Send(command) PROVE SnapshotTracksRunner'
  BY <1>1, SameTracks DEF Send, runnerVars, snapshot
<1>2. CASE DropRuntime \/ JoinThread
  BY <1>2, SameTracks DEF DropRuntime, JoinThread, runnerVars, snapshot
<1>3. CASE RejectStart
  BY <1>3, SameTracks DEF RejectStart, runnerVars
<1>4. CASE StartAll
  BY <1>4, StartTracks DEF StartAll, AdvanceStartRadar, RunnerStartRadar
<1>5. CASE RetryFailed
  <2>1. CASE failed = None
    BY <1>5, <2>1, SameTracks DEF RetryFailed, runnerVars, snapshot
  <2>2. CASE failed # None
    BY <1>5, <2>2, AdvanceTracks DEF RetryFailed
  <2> QED
    BY <2>1, <2>2
<1>6. CASE StartRadar
  BY <1>6, StartTracks DEF StartRadar, ComponentStarted, RunnerStartRadar
<1>7. CASE StartSdr
  BY <1>7, StartTracks DEF StartSdr, ComponentStarted, RunnerStartSdr
<1>8. CASE StartLaser
  BY <1>8, StartLaserStepTracks
<1>9. CASE SendLaserCommand
  BY <1>9, SameTracks DEF SendLaserCommand, runnerVars
<1>10. CASE StopRadar \/ StopSdr \/ StopLaser
  BY <1>10, StopTracks DEF StopRadar, StopSdr, StopLaser, Component
<1>11. CASE StopAll \/ Shutdown
  BY <1>11, StopAllTracks DEF StopAll, Shutdown
<1>12. CASE DeadlineSequence
  BY <1>12, AdvanceTracks DEF DeadlineSequence
<1>13. CASE DeadlineLaser
  BY <1>13, SameTracks DEF DeadlineLaser
<1>14. CASE DaemonProbe
  BY <1>14, ProbeTracks
<1>15. CASE External
  BY <1>15, ExternalTracks
<1>16. CASE UNCHANGED vars
  BY <1>16, SameTracks DEF vars, runnerVars, snapshot
<1> QED
  BY <1>1, <1>2, <1>3, <1>4, <1>5, <1>6, <1>7, <1>8, <1>9, <1>10, <1>11, <1>12,
     <1>13, <1>14, <1>15, <1>16
     DEF Next, ReceiveCommand, Deadline

(* Whatever commands are sent, whatever fails or dies, the components the  *)
(* UI is shown as managed are those the ScriptRunner holds a handle for.   *)
THEOREM TracksCorrect == Spec => []SnapshotTracksRunner
<1>1. Init => SnapshotTracksRunner
  BY DEF Init, RunnerInit, SnapshotTracksRunner, Component
<1>2. TypeOK /\ SnapshotTracksRunner /\ [Next]_vars => SnapshotTracksRunner'
  BY TracksStep
<1> QED
  BY <1>1, <1>2, TypeCorrect, PTL DEF Spec

-----------------------------------------------------------------------------
(* The pending operations and the deadline.                                *)

(* Steps that touch none of the four variables.                            *)
LEMMA SamePending ==
  ASSUME PendingExclusive, UNCHANGED pending
  PROVE  PendingExclusive'
  BY DEF PendingExclusive, Busy, pending

(* Every start, stop and exit resets all four.                             *)
LEMMA ResetExclusive ==
  ASSUME ResetPending
  PROVE  PendingExclusive'
  BY DEF ResetPending, PendingExclusive, Busy

(* A failed step leaves the failed sequence and nothing else.              *)
LEMMA SequenceFailedExclusive ==
  ASSUME NEW seq, NEW component, SequenceFailed(seq, component),
         laserConfiguration' = None, deadline' = FALSE
  PROVE  PendingExclusive'
  BY DEF SequenceFailed, PendingExclusive, Busy

(* The outcome of a configuration.                                         *)
LEMMA ConfigurationResultExclusive ==
  ASSUME NEW seq \in SequenceType, NEW ok \in BOOLEAN,
         ConfigurationResult(seq, FALSE, None, ok), laserConfiguration' = None
  PROVE  PendingExclusive'
<1>1. CASE ok
  BY <1>1 DEF ConfigurationResult, PendingExclusive, Busy
<1>2. CASE ~ok /\ seq.attempts + 1 < FifoAttempts
  <2>1. /\ sequence' = [seq EXCEPT !.attempts = seq.attempts + 1]
        /\ failed' = None /\ deadline' = TRUE
    BY <1>2 DEF ConfigurationResult
  <2>2. sequence' \in SequenceType
    <3>1. seq.attempts + 1 \in Attempts
      BY <1>2, ActorAssumption DEF SequenceType, Attempts
    <3> QED
      BY <2>1, <3>1 DEF SequenceType
  <2> QED
    BY <2>1, <2>2, ActorAssumption DEF PendingExclusive, Busy
<1>3. CASE ~ok /\ ~(seq.attempts + 1 < FifoAttempts)
  BY <1>3, SequenceFailedExclusive DEF ConfigurationResult
<1> QED
  BY <1>1, <1>2, <1>3

(* advance_sequence, from a deadline or a retry that nothing else shares.  *)
LEMMA AdvanceExclusive ==
  ASSUME NEW seq \in SequenceType,
         AdvanceSequence(seq, FALSE, None), laserConfiguration' = None
  PROVE  PendingExclusive'
<1>1. CASE AdvanceStartRadar(seq, FALSE, None)
  <2>1. PICK ok \in BOOLEAN : AdvanceStartRadar(seq, FALSE, None)!(ok)
    BY <1>1 DEF AdvanceStartRadar
  <2>2. CASE ok
    <3>1. sequence' \in SequenceType
      BY <2>1, <2>2, StepType DEF Step
    <3> QED
      BY <2>1, <2>2, <3>1, ActorAssumption DEF PendingExclusive, Busy
  <2>3. CASE ~ok
    BY <2>1, <2>3, SequenceFailedExclusive
  <2> QED
    BY <2>2, <2>3
<1>2. CASE AdvanceStartSdr(seq, FALSE, None)
  <2>1. PICK ok \in BOOLEAN : AdvanceStartSdr(seq, FALSE, None)!(ok)
    BY <1>2 DEF AdvanceStartSdr
  <2>2. CASE ok
    <3>1. sequence' \in SequenceType
      BY <2>1, <2>2, StepType DEF Step
    <3> QED
      BY <2>1, <2>2, <3>1, ActorAssumption DEF PendingExclusive, Busy
  <2>3. CASE ~ok
    BY <2>1, <2>3, SequenceFailedExclusive
  <2> QED
    BY <2>2, <2>3
<1>3. CASE AdvanceStartLaser(seq, FALSE, None)
  <2> DEFINE conf == [seq EXCEPT !.step = "ConfigureLaser"]
  <2>1. \/ \E ok \in BOOLEAN : ConfigurationResult(conf, FALSE, None, ok)
        \/ SequenceFailed([seq EXCEPT !.step = "StartLaser"], "Laser") /\ deadline' = FALSE
    BY <1>3 DEF AdvanceStartLaser
  <2>2. conf \in SequenceType
    BY StepType DEF Step
  <2> HIDE DEF conf
  <2> QED
    BY <2>1, <2>2, ConfigurationResultExclusive, SequenceFailedExclusive
<1>4. CASE AdvanceConfigure(seq, FALSE, None)
  BY <1>4, ConfigurationResultExclusive DEF AdvanceConfigure
<1> QED
  BY <1>1, <1>2, <1>3, <1>4 DEF AdvanceSequence

(* The outcome of a standalone configuration.                              *)
LEMMA StandaloneResultExclusive ==
  ASSUME NEW conf \in ConfigurationType, NEW ok \in BOOLEAN,
         StandaloneResult(conf, FALSE, ok), sequence' = None, failed' = None
  PROVE  PendingExclusive'
<1>1. CASE ok \/ ~(conf.attempts + 1 < FifoAttempts)
  BY <1>1 DEF StandaloneResult, PendingExclusive, Busy
<1>2. CASE ~ok /\ conf.attempts + 1 < FifoAttempts
  <2>1. laserConfiguration' = [conf EXCEPT !.attempts = conf.attempts + 1] /\ deadline' = TRUE
    BY <1>2 DEF StandaloneResult
  <2>2. conf.attempts + 1 \in Attempts
    BY <1>2, ActorAssumption DEF ConfigurationType, Attempts
  <2>3. laserConfiguration' \in ConfigurationType
    BY <2>1, <2>2 DEF ConfigurationType
  <2> QED
    BY <2>1, <2>3, ActorAssumption DEF PendingExclusive, Busy
<1> QED
  BY <1>1, <1>2

(* Every step keeps the operations apart and the deadline with them.       *)
LEMMA PendingStep ==
  ASSUME TypeOK, PendingExclusive, [Next]_vars
  PROVE  PendingExclusive'
<1>1. ASSUME NEW command \in Commands, Send(command) PROVE PendingExclusive'
  BY <1>1, SamePending DEF Send
<1>2. CASE DropRuntime \/ JoinThread \/ RejectStart \/ SendLaserCommand
  BY <1>2, SamePending DEF DropRuntime, JoinThread, RejectStart, SendLaserCommand
<1>3. CASE StartAll
  <2> DEFINE seq == [side |-> Head(queue).side, step |-> "StartRadar", attempts |-> 0]
  <2>1. Head(queue).side \in Side
    BY <1>3, ReceiveType, CommandFields DEF StartAll, StartOps
  <2>2. seq \in SequenceType
    BY <2>1, ActorAssumption DEF SequenceType, Step, Attempts
  <2>3. AdvanceStartRadar(seq, FALSE, None) /\ laserConfiguration' = None /\ seq.step = "StartRadar"
    BY <1>3 DEF StartAll
  <2> HIDE DEF seq
  <2> QED
    BY <2>2, <2>3, AdvanceExclusive DEF AdvanceSequence
<1>4. CASE RetryFailed
  <2>1. CASE failed = None
    BY <1>4, <2>1, SamePending DEF RetryFailed
  <2>2. CASE failed # None
    <3> DEFINE seq == [side |-> failed.side, step |-> failed.step, attempts |-> 0]
    <3>1. failed \in FailedType
      BY <2>2 DEF TypeOK
    <3>2. seq \in SequenceType
      BY <3>1, ActorAssumption DEF FailedType, SequenceType, Attempts
    <3>3. sequence = None /\ laserConfiguration = None /\ deadline = FALSE
      BY <2>2 DEF PendingExclusive, Busy, TypeOK
    <3>4. AdvanceSequence(seq, FALSE, None) /\ laserConfiguration' = None
      BY <1>4, <2>2, <3>3 DEF RetryFailed
    <3> HIDE DEF seq
    <3> QED
      BY <3>2, <3>4, AdvanceExclusive
  <2> QED
    BY <2>1, <2>2
<1>5. CASE StartRadar \/ StartSdr
  BY <1>5, ResetExclusive DEF StartRadar, StartSdr
<1>6. CASE StartLaser
  <2> DEFINE unset == [side EXCEPT !["Laser"] = None]
             conf == [side |-> Head(queue).side, attempts |-> 0]
  <2>1. CASE LaserNotStarted(unset) \/ LaserStartedPlain(unset)
    BY <2>1, ResetExclusive DEF LaserNotStarted, LaserStartedPlain
  <2>2. CASE LaserStartedToConfigure(unset)
    <3>1. Head(queue).side \in Side
      BY <1>6, ReceiveType, CommandFields DEF StartLaser, StartOps
    <3>2. conf \in ConfigurationType
      BY <3>1, ActorAssumption DEF ConfigurationType, Attempts
    <3>3. sequence' = None /\ failed' = None /\ \E ok \in BOOLEAN : StandaloneResult(conf, FALSE, ok)
      BY <2>2 DEF LaserStartedToConfigure
    <3> HIDE DEF conf
    <3> QED
      BY <3>2, <3>3, StandaloneResultExclusive
  <2> QED
    BY <1>6, <2>1, <2>2 DEF StartLaser
<1>7. CASE StopRadar \/ StopSdr \/ StopLaser \/ StopAll \/ Shutdown
  BY <1>7, ResetExclusive DEF StopRadar, StopSdr, StopLaser, StopComponent, StopAll, Shutdown
<1>8. CASE DeadlineSequence
  <2>1. sequence \in SequenceType /\ failed = None /\ laserConfiguration = None
    BY <1>8 DEF DeadlineSequence, TypeOK, PendingExclusive
  <2>2. AdvanceSequence(sequence, FALSE, None) /\ laserConfiguration' = None
    BY <1>8, <2>1 DEF DeadlineSequence
  <2> QED
    BY <2>1, <2>2, AdvanceExclusive
<1>9. CASE DeadlineLaser
  <2>1. laserConfiguration \in ConfigurationType /\ sequence = None /\ failed = None
    BY <1>9 DEF DeadlineLaser, TypeOK, PendingExclusive, Busy
  <2>2. \E ok \in BOOLEAN : StandaloneResult(laserConfiguration, FALSE, ok)
    BY <1>9, <2>1, ActorAssumption DEF DeadlineLaser
  <2>3. sequence' = None /\ failed' = None
    BY <1>9, <2>1 DEF DeadlineLaser
  <2> QED
    BY <2>1, <2>2, <2>3, StandaloneResultExclusive
<1>10. CASE DaemonProbe
  BY <1>10, SamePending, ResetExclusive DEF DaemonProbe
<1>11. CASE External \/ UNCHANGED vars
  BY <1>11, SamePending DEF External, vars
<1> QED
  BY <1>1, <1>2, <1>3, <1>4, <1>5, <1>6, <1>7, <1>8, <1>9, <1>10, <1>11
     DEF Next, ReceiveCommand, Deadline

(* At most one operation is pending or kept for a retry, and the deadline  *)
(* is armed exactly while one needs it.                                    *)
THEOREM ExclusiveCorrect == Spec => []PendingExclusive
<1>1. Init => PendingExclusive
  BY DEF Init, PendingExclusive, Busy
<1>2. TypeOK /\ PendingExclusive /\ [Next]_vars => PendingExclusive'
  BY PendingStep
<1> QED
  BY <1>1, <1>2, TypeCorrect, PTL DEF Spec

-----------------------------------------------------------------------------
(* What advance_sequence comes to.                                         *)

\* PrefixUp, of any managed components, sides and active laser.
Stands(s, m, sides, script) ==
  /\ \A c \in StartedBefore[s.step] : m[c]
  /\ \A c \in StartedBefore[s.step] \ {"Laser"} : sides[c] = s.side
  /\ s.step = "ConfigureLaser" => script = "Competition"

\* It waits before another step, ...
GoesOn(seq) ==
  \E next \in SequenceType :
    /\ next.side = seq.side
    /\ sequence' = next /\ failed' = None
    /\ next.step \in DOMAIN PhaseAt /\ phase' = PhaseAt[next.step]
    /\ Stands(next, managed', side', activeLaser')

\* ... stops at one that failed, ...
Fails(seq) ==
  \E kept \in FailedType :
    /\ kept.side = seq.side
    /\ sequence' = None /\ failed' = kept
    /\ phase' = Failed[ComponentOf[kept.step]] /\ error' = TRUE
    /\ ComponentOf[kept.step] # "Laser" => ~managed'[ComponentOf[kept.step]]
    /\ Stands(kept, managed', side', activeLaser')

\* ... or is complete.
Completes(seq) ==
  /\ sequence' = None /\ failed' = None
  /\ phase' = "Running"
  /\ \A c \in Component : managed'[c] /\ side'[c] = seq.side
  /\ activeLaser' = "Competition"

\* Whichever it is, the components started before have the processes they had.
KeepsStarted(step) ==
  \A c \in StartedBefore[step] : child'[c] = child[c] /\ managed'[c]

Advanced(seq) ==
  /\ GoesOn(seq) \/ Fails(seq) \/ Completes(seq)
  /\ KeepsStarted(seq.step)

(* The steps with a waiting phase are the three a sequence rests at.       *)
LEMMA RestingSteps ==
  /\ DOMAIN PhaseAt = {"WaitAfterRadar", "WaitAfterSdr", "ConfigureLaser"}
  /\ PhaseAt["WaitAfterRadar"] = "WaitingForRadar"
  /\ PhaseAt["WaitAfterSdr"] = "WaitingForSdr"
  /\ PhaseAt["ConfigureLaser"] = "ConfiguringLaser"
  BY DEF PhaseAt

(* The outcome of a configuration, of a laser that was started.            *)
LEMMA ConfigurationAdvances ==
  ASSUME NEW seq \in SequenceType, seq.step = "ConfigureLaser", NEW ok \in BOOLEAN,
         ConfigurationResult(seq, FALSE, None, ok),
         Stands(seq, managed', side', activeLaser'),
         ok => side'["Laser"] = seq.side
  PROVE  GoesOn(seq) \/ Fails(seq) \/ Completes(seq)
<1>1. CASE ok
  <2>1. \A c \in Component : managed'[c] /\ side'[c] = seq.side
    BY <1>1 DEF Stands, StartedBefore, Component
  <2> QED
    BY <1>1, <2>1 DEF ConfigurationResult, Completes, Stands
<1>2. CASE ~ok /\ seq.attempts + 1 < FifoAttempts
  <2> DEFINE next == [seq EXCEPT !.attempts = seq.attempts + 1]
  <2>1. seq.attempts + 1 \in Attempts
    BY <1>2, ActorAssumption DEF SequenceType, Attempts
  <2>2. next \in SequenceType /\ next.side = seq.side /\ next.step = seq.step
    BY <2>1 DEF SequenceType
  <2>3. sequence' = next /\ failed' = None /\ phase' = "ConfiguringLaser"
    BY <1>2 DEF ConfigurationResult
  <2> HIDE DEF next
  <2>4. Stands(next, managed', side', activeLaser')
    BY <2>2 DEF Stands
  <2> QED
    BY <2>2, <2>3, <2>4, RestingSteps DEF GoesOn
<1>3. CASE ~ok /\ ~(seq.attempts + 1 < FifoAttempts)
  <2> DEFINE kept == [side |-> seq.side, step |-> seq.step]
  <2>1. SequenceFailed(seq, "Laser")
    BY <1>3 DEF ConfigurationResult
  <2>2. kept \in FailedType /\ kept.side = seq.side /\ kept.step = seq.step
    BY DEF SequenceType, FailedType
  <2>3. sequence' = None /\ failed' = kept /\ phase' = Failed["Laser"] /\ error' = TRUE
    BY <2>1 DEF SequenceFailed
  <2> HIDE DEF kept
  <2>4. Stands(kept, managed', side', activeLaser')
    BY <2>2 DEF Stands
  <2>5. ComponentOf[kept.step] = "Laser"
    BY <2>2 DEF ComponentOf
  <2> QED
    BY <2>2, <2>3, <2>4, <2>5 DEF Fails
<1> QED
  BY <1>1, <1>2, <1>3

(* The StartRadar arm.                                                     *)
LEMMA StartRadarAdvances ==
  ASSUME TypeOK, NEW seq \in SequenceType, seq.step = "StartRadar",
         AdvanceStartRadar(seq, FALSE, None)
  PROVE  Advanced(seq)
<1>1. PICK ok \in BOOLEAN : AdvanceStartRadar(seq, FALSE, None)!(ok)
  BY DEF AdvanceStartRadar
<1>2. KeepsStarted(seq.step)
  BY DEF KeepsStarted, StartedBefore
<1>3. CASE ok
  <2> DEFINE next == [seq EXCEPT !.step = "WaitAfterRadar"]
  <2>1. next \in SequenceType /\ next.side = seq.side /\ next.step = "WaitAfterRadar"
    BY StepType DEF Step, SequenceType
  <2>2. /\ sequence' = next /\ failed' = None /\ phase' = "WaitingForRadar"
        /\ managed'["Radar"] /\ side'["Radar"] = seq.side
    BY <1>1, <1>3 DEF RunnerStartRadar, TypeOK, RunnerTypeOK, Component
  <2> HIDE DEF next
  <2>3. Stands(next, managed', side', activeLaser')
    BY <2>1, <2>2 DEF Stands, StartedBefore
  <2> QED
    BY <1>2, <2>1, <2>2, <2>3, RestingSteps DEF Advanced, GoesOn
<1>4. CASE ~ok
  <2> DEFINE kept == [side |-> seq.side, step |-> seq.step]
  <2>1. kept \in FailedType /\ kept.side = seq.side /\ kept.step = "StartRadar"
    BY DEF SequenceType, FailedType
  <2>2. /\ sequence' = None /\ failed' = kept /\ phase' = Failed["Radar"] /\ error' = TRUE
        /\ ~managed'["Radar"]
    BY <1>1, <1>4 DEF SequenceFailed, TypeOK, Component
  <2> HIDE DEF kept
  <2>3. Stands(kept, managed', side', activeLaser')
    BY <2>1 DEF Stands, StartedBefore
  <2>4. ComponentOf[kept.step] = "Radar"
    BY <2>1 DEF ComponentOf
  <2> QED
    BY <1>2, <2>1, <2>2, <2>3, <2>4 DEF Advanced, Fails
<1> QED
  BY <1>3, <1>4

(* The StartSdr arm: the radar stays as it was.                            *)
LEMMA StartSdrAdvances ==
  ASSUME TypeOK, NEW seq \in SequenceType, seq.step \in {"WaitAfterRadar", "StartSdr"},
         Stands(seq, managed, side, activeLaser), AdvanceStartSdr(seq, FALSE, None)
  PROVE  Advanced(seq)
<1>1. PICK ok \in BOOLEAN : AdvanceStartSdr(seq, FALSE, None)!(ok)
  BY DEF AdvanceStartSdr
<1>2. managed["Radar"] /\ side["Radar"] = seq.side
  BY DEF Stands, StartedBefore
<1>3. /\ child'["Radar"] = child["Radar"]
      /\ managed'["Radar"] /\ side'["Radar"] = seq.side
  BY <1>1, <1>2 DEF RunnerStartSdr, TypeOK, RunnerTypeOK, Component
<1>4. KeepsStarted(seq.step)
  BY <1>3 DEF KeepsStarted, StartedBefore
<1>5. CASE ok
  <2> DEFINE next == [seq EXCEPT !.step = "WaitAfterSdr"]
  <2>1. next \in SequenceType /\ next.side = seq.side /\ next.step = "WaitAfterSdr"
    BY StepType DEF Step, SequenceType
  <2>2. /\ sequence' = next /\ failed' = None /\ phase' = "WaitingForSdr"
        /\ managed'["Sdr"] /\ side'["Sdr"] = seq.side
    BY <1>1, <1>5 DEF RunnerStartSdr, TypeOK, RunnerTypeOK, Component
  <2> HIDE DEF next
  <2>3. Stands(next, managed', side', activeLaser')
    BY <1>3, <2>1, <2>2 DEF Stands, StartedBefore
  <2> QED
    BY <1>4, <2>1, <2>2, <2>3, RestingSteps DEF Advanced, GoesOn
<1>6. CASE ~ok
  <2> DEFINE kept == [side |-> seq.side, step |-> "StartSdr"]
  <2>1. kept \in FailedType /\ kept.side = seq.side /\ kept.step = "StartSdr"
    BY DEF SequenceType, FailedType, Step
  <2>2. SequenceFailed([seq EXCEPT !.step = "StartSdr"], "Sdr") /\ ~managed'["Sdr"]
    BY <1>1, <1>6 DEF TypeOK, Component
  <2>3. sequence' = None /\ failed' = kept /\ phase' = Failed["Sdr"] /\ error' = TRUE
    BY <2>2 DEF SequenceFailed, SequenceType
  <2> HIDE DEF kept
  <2>4. Stands(kept, managed', side', activeLaser')
    BY <1>3, <2>1 DEF Stands, StartedBefore
  <2>5. ComponentOf[kept.step] = "Sdr"
    BY <2>1 DEF ComponentOf
  <2> QED
    BY <1>4, <2>1, <2>2, <2>3, <2>4, <2>5 DEF Advanced, Fails
<1> QED
  BY <1>5, <1>6

(* The StartLaser arm: radar and SDR stay as they were.                    *)
LEMMA StartLaserAdvances ==
  ASSUME TypeOK, NEW seq \in SequenceType, seq.step \in {"WaitAfterSdr", "StartLaser"},
         Stands(seq, managed, side, activeLaser), AdvanceStartLaser(seq, FALSE, None)
  PROVE  Advanced(seq)
<1> DEFINE unset == [side EXCEPT !["Laser"] = None]
<1>1. /\ managed["Radar"] /\ side["Radar"] = seq.side
      /\ managed["Sdr"] /\ side["Sdr"] = seq.side
  BY DEF Stands, StartedBefore
<1>2. /\ unset \in [Component -> Side \cup {None}]
      /\ unset["Radar"] = seq.side /\ unset["Sdr"] = seq.side
  BY <1>1 DEF TypeOK, RunnerTypeOK, Component
<1>3. \E ok \in BOOLEAN : RunnerStartLaser("Competition", ok)
                          /\ managed' = [managed EXCEPT !["Laser"] = ok]
  BY DEF AdvanceStartLaser
<1>4. /\ child'["Radar"] = child["Radar"] /\ child'["Sdr"] = child["Sdr"]
      /\ managed'["Radar"] /\ managed'["Sdr"]
  BY <1>1, <1>3 DEF RunnerStartLaser, TypeOK, RunnerTypeOK, Component
<1>5. KeepsStarted(seq.step)
  BY <1>4 DEF KeepsStarted, StartedBefore
<1>6. CASE /\ managed' = [managed EXCEPT !["Laser"] = TRUE]
           /\ activeLaser' = "Competition"
           /\ \E ok \in BOOLEAN :
                /\ ConfigureLaser(seq.side, ok, FifoWritable', unset)
                /\ ConfigurationResult([seq EXCEPT !.step = "ConfigureLaser"], FALSE, None, ok)
  <2> DEFINE conf == [seq EXCEPT !.step = "ConfigureLaser"]
  <2>1. PICK ok \in BOOLEAN : /\ ConfigureLaser(seq.side, ok, FifoWritable', unset)
                              /\ ConfigurationResult(conf, FALSE, None, ok)
    BY <1>6
  <2>2. conf \in SequenceType /\ conf.side = seq.side /\ conf.step = "ConfigureLaser"
    BY StepType DEF Step, SequenceType
  <2>3. seq.side \in Side /\ managed'["Laser"] /\ activeLaser' = "Competition"
    BY <1>6 DEF SequenceType, TypeOK, Component
  <2>4. /\ side'["Radar"] = seq.side /\ side'["Sdr"] = seq.side
        /\ ok => side'["Laser"] = seq.side
    BY <1>2, <2>1 DEF ConfigureLaser, Component
  <2> HIDE DEF conf
  <2>5. Stands(conf, managed', side', activeLaser')
    BY <1>4, <2>2, <2>3, <2>4 DEF Stands, StartedBefore
  <2>6. GoesOn(conf) \/ Fails(conf) \/ Completes(conf)
    BY <2>1, <2>2, <2>4, <2>5, ConfigurationAdvances
  <2> QED
    BY <1>5, <2>2, <2>6 DEF Advanced, GoesOn, Fails, Completes
<1>7. CASE /\ managed' = [managed EXCEPT !["Laser"] = FALSE]
           /\ side' = unset
           /\ SequenceFailed([seq EXCEPT !.step = "StartLaser"], "Laser")
  <2> DEFINE kept == [side |-> seq.side, step |-> "StartLaser"]
  <2>1. kept \in FailedType /\ kept.side = seq.side /\ kept.step = "StartLaser"
    BY DEF SequenceType, FailedType, Step
  <2>2. sequence' = None /\ failed' = kept /\ phase' = Failed["Laser"] /\ error' = TRUE
    BY <1>7 DEF SequenceFailed, SequenceType
  <2> HIDE DEF kept
  <2>3. Stands(kept, managed', side', activeLaser')
    BY <1>2, <1>4, <1>7, <2>1 DEF Stands, StartedBefore
  <2>4. ComponentOf[kept.step] = "Laser"
    BY <2>1 DEF ComponentOf
  <2> QED
    BY <1>5, <2>1, <2>2, <2>3, <2>4 DEF Advanced, Fails
<1> QED
  BY <1>6, <1>7 DEF AdvanceStartLaser

(* The ConfigureLaser arm: no process is touched.                          *)
LEMMA ConfigureAdvances ==
  ASSUME TypeOK, NEW seq \in SequenceType, seq.step = "ConfigureLaser",
         Stands(seq, managed, side, activeLaser), AdvanceConfigure(seq, FALSE, None)
  PROVE  Advanced(seq)
<1>1. PICK ok \in BOOLEAN : /\ ConfigureLaser(seq.side, ok, FifoWritable, side)
                            /\ ConfigurationResult(seq, FALSE, None, ok)
  BY DEF AdvanceConfigure
<1>2. UNCHANGED <<child, managed, activeLaser>>
  BY DEF AdvanceConfigure
<1>3. seq.side \in Side /\ side \in [Component -> Side \cup {None}]
  BY DEF SequenceType, TypeOK, RunnerTypeOK
<1>4. /\ \A c \in Component \ {"Laser"} : side'[c] = side[c]
      /\ ok => side'["Laser"] = seq.side
  BY <1>1, <1>3 DEF ConfigureLaser, Component
<1>5. Stands(seq, managed', side', activeLaser')
  BY <1>2, <1>4 DEF Stands, StartedBefore, Component
<1>6. KeepsStarted(seq.step)
  BY <1>2 DEF KeepsStarted, Stands
<1>7. GoesOn(seq) \/ Fails(seq) \/ Completes(seq)
  BY <1>1, <1>4, <1>5, ConfigurationAdvances
<1> QED
  BY <1>6, <1>7 DEF Advanced

(* advance_sequence, on a sequence that stands on what it started.         *)
LEMMA SequenceAdvances ==
  ASSUME TypeOK, NEW seq \in SequenceType, Stands(seq, managed, side, activeLaser),
         AdvanceSequence(seq, FALSE, None)
  PROVE  Advanced(seq)
  BY StartRadarAdvances, StartSdrAdvances, StartLaserAdvances, ConfigureAdvances
     DEF AdvanceSequence

-----------------------------------------------------------------------------
(* The inductive invariant.                                                *)

(* PrefixStarted and PhaseTrue need one another and the exclusion of the   *)
(* pending operations: the phase tells which component has to be managed,  *)
(* and a component is taken away only with the sequence that stands on it. *)
OrderInv == TypeOK /\ PendingExclusive /\ PrefixStarted /\ PhaseTrue

PrefixAndPhase == PrefixStarted /\ PhaseTrue

(* PrefixStarted, in the terms of the lemmas above.                        *)
LEMMA PrefixStands ==
  /\ PrefixStarted <=> /\ sequence # None => Stands(sequence, managed, side, activeLaser)
                       /\ failed # None => Stands(failed, managed, side, activeLaser)
  /\ PrefixStarted' <=> /\ sequence' # None => Stands(sequence', managed', side', activeLaser')
                        /\ failed' # None => Stands(failed', managed', side', activeLaser')
  BY DEF PrefixStarted, PrefixUp, Stands

(* Steps that touch none of the variables the invariant is about.          *)
LEMMA SameOrder ==
  ASSUME PrefixAndPhase, error => error',
         UNCHANGED <<phase, managed, side, activeLaser, sequence, failed, laserConfiguration>>
  PROVE  PrefixAndPhase'
  BY DEF PrefixAndPhase, PrefixStarted, PrefixUp, PhaseTrue, PhaseShowsPending,
         PhaseShowsComponents, Pending, Busy

(* After a call of advance_sequence.                                       *)
LEMMA AdvancedOrder ==
  ASSUME NEW seq, Advanced(seq), laserConfiguration' = None
  PROVE  PrefixAndPhase'
<1>1. CASE GoesOn(seq)
  <2>1. PICK next \in SequenceType : GoesOn(seq)!(next)
    BY <1>1 DEF GoesOn
  <2>2. next # None /\ next.step \in {"WaitAfterRadar", "WaitAfterSdr", "ConfigureLaser"}
    BY <2>1, ActorAssumption, RestingSteps
  <2>3. PrefixStarted'
    BY <2>1, PrefixStands
  <2>4. phase' \in {"WaitingForRadar", "WaitingForSdr", "ConfiguringLaser"}
    BY <2>1, <2>2, RestingSteps
  <2>5. PhaseShowsPending'
    BY <2>1, <2>2 DEF PhaseShowsPending, Busy
  <2>6. PhaseShowsComponents'
    BY <2>4 DEF PhaseShowsComponents, Failed, FailedPhase, Component
  <2> QED
    BY <2>3, <2>5, <2>6 DEF PrefixAndPhase, PhaseTrue
<1>2. CASE Fails(seq)
  <2>1. PICK kept \in FailedType : Fails(seq)!(kept)
    BY <1>2 DEF Fails
  <2>2. ComponentOf[kept.step] \in Component
    BY DEF FailedType, Step, ComponentOf, Component
  <2>3. PrefixStarted'
    BY <2>1, PrefixStands
  <2>4. PhaseShowsPending'
    BY <2>1, <2>2 DEF PhaseShowsPending, Pending, Failed, Component
  <2>5. PhaseShowsComponents'
    BY <2>1, <2>2 DEF PhaseShowsComponents, Failed, FailedPhase, Component
  <2> QED
    BY <2>3, <2>4, <2>5 DEF PrefixAndPhase, PhaseTrue
<1>3. CASE Completes(seq)
  <2>1. PhaseShowsPending'
    BY <1>3 DEF Completes, PhaseShowsPending, Pending
  <2>2. PhaseShowsComponents'
    BY <1>3 DEF Completes, PhaseShowsComponents, Failed, FailedPhase, Component
  <2> QED
    BY <1>3, <2>1, <2>2 DEF Completes, PrefixAndPhase, PrefixStarted, PhaseTrue
<1> QED
  BY <1>1, <1>2, <1>3 DEF Advanced

(* After a step that leaves nothing pending.                               *)
LEMMA SettledOrder ==
  ASSUME sequence' = None, failed' = None, laserConfiguration' = None,
         phase' \in {"Idle", "Running"} \cup FailedPhase, PhaseShowsComponents'
  PROVE  PrefixAndPhase'
<1>1. PhaseShowsPending'
  BY DEF PhaseShowsPending, Pending, FailedPhase, Failed, Component
<1> QED
  BY <1>1 DEF PrefixAndPhase, PrefixStarted, PhaseTrue

(* A component started, or not, outside a Start All.                       *)
LEMMA StartedOrder ==
  ASSUME TypeOK, NEW c \in Component, NEW ok \in BOOLEAN, ComponentStarted(c, ok),
         ResetPending
  PROVE  PrefixAndPhase'
<1>1. managed' = [managed EXCEPT ![c] = ok] /\ managed'[c] = ok
  BY DEF ComponentStarted, TypeOK
<1>2. phase' \in {"Idle", "Running"} \cup FailedPhase
  BY DEF ComponentStarted, FailedPhase
<1>3. CASE ok
  <2>1. phase' = "Running" /\ \E d \in Component : managed'[d]
    BY <1>1, <1>3 DEF ComponentStarted
  <2> QED
    BY <1>2, <2>1, SettledOrder
       DEF ResetPending, PhaseShowsComponents, FailedPhase, Failed, Component
<1>4. CASE ~ok
  <2>1. phase' = Failed[c] /\ ~managed'[c] /\ error'
    BY <1>1, <1>4 DEF ComponentStarted
  <2>2. PhaseShowsComponents'
    BY <2>1 DEF PhaseShowsComponents, FailedPhase, Failed, Component
  <2> QED
    BY <1>2, <2>2, SettledOrder DEF ResetPending
<1> QED
  BY <1>3, <1>4

(* The outcome of a standalone configuration, of a laser that is managed.  *)
LEMMA StandaloneOrder ==
  ASSUME NEW conf \in ConfigurationType, NEW ok \in BOOLEAN, StandaloneResult(conf, FALSE, ok),
         sequence' = None, failed' = None, managed'["Laser"]
  PROVE  PrefixAndPhase'
<1>1. CASE ok \/ ~(conf.attempts + 1 < FifoAttempts)
  <2>1. /\ laserConfiguration' = None
        /\ phase' = "Running" \/ (phase' = Failed["Laser"] /\ error' = TRUE)
    BY <1>1 DEF StandaloneResult
  <2>2. PhaseShowsComponents'
    BY <2>1 DEF PhaseShowsComponents, FailedPhase, Failed, Component
  <2>3. phase' \in {"Idle", "Running"} \cup FailedPhase
    BY <2>1 DEF FailedPhase, Component
  <2> QED
    BY <2>1, <2>2, <2>3, SettledOrder
<1>2. CASE ~ok /\ conf.attempts + 1 < FifoAttempts
  <2>1. /\ laserConfiguration' = [conf EXCEPT !.attempts = conf.attempts + 1]
        /\ phase' = "ConfiguringLaser"
    BY <1>2 DEF StandaloneResult
  <2>2. conf.attempts + 1 \in Attempts
    BY <1>2, ActorAssumption DEF ConfigurationType, Attempts
  <2>3. laserConfiguration' # None
    <3>1. laserConfiguration' \in ConfigurationType
      BY <2>1, <2>2 DEF ConfigurationType
    <3> QED
      BY <3>1, ActorAssumption
  <2>4. PhaseShowsPending'
    BY <2>1, <2>3 DEF PhaseShowsPending, Busy
  <2>5. PhaseShowsComponents'
    BY <2>1 DEF PhaseShowsComponents, FailedPhase, Failed, Component
  <2> QED
    BY <2>4, <2>5 DEF PrefixAndPhase, PrefixStarted, PhaseTrue
<1> QED
  BY <1>1, <1>2

(* StartLaser as a command.                                                *)
LEMMA StartLaserOrder ==
  ASSUME TypeOK, StartLaser
  PROVE  PrefixAndPhase'
<1> DEFINE unset == [side EXCEPT !["Laser"] = None]
<1>1. CASE LaserNotStarted(unset) \/ LaserStartedPlain(unset)
  BY <1>1, StartedOrder DEF LaserNotStarted, LaserStartedPlain, Component
<1>2. CASE LaserStartedToConfigure(unset)
  <2> DEFINE conf == [side |-> Head(queue).side, attempts |-> 0]
  <2>1. Head(queue).side \in Side
    BY ReceiveType, CommandFields DEF StartLaser, StartOps
  <2>2. conf \in ConfigurationType
    BY <2>1, ActorAssumption DEF ConfigurationType, Attempts
  <2>3. /\ sequence' = None /\ failed' = None /\ managed'["Laser"]
        /\ \E ok \in BOOLEAN : StandaloneResult(conf, FALSE, ok)
    BY <1>2 DEF LaserStartedToConfigure, TypeOK, Component
  <2> HIDE DEF conf
  <2> QED
    BY <2>2, <2>3, StandaloneOrder
<1> QED
  BY <1>1, <1>2 DEF StartLaser

(* A stop of one component.                                                *)
LEMMA StopOrder ==
  ASSUME NEW c \in Component, StopComponent(c)
  PROVE  PrefixAndPhase'
<1>1. phase' = (IF \E d \in Component : managed'[d] THEN "Running" ELSE "Idle")
  BY DEF StopComponent, ManagedPhase
<1>2. PhaseShowsComponents'
  BY <1>1 DEF PhaseShowsComponents, FailedPhase, Failed, Component
<1> QED
  BY <1>1, <1>2, SettledOrder DEF StopComponent, ResetPending

(* Every stop at once.                                                     *)
LEMMA StopAllOrder ==
  ASSUME StopAllComponents, ResetPending
  PROVE  PrefixAndPhase'
<1>1. phase' = "Idle" /\ \A c \in Component : ~managed'[c]
  BY DEF StopAllComponents
<1>2. PhaseShowsComponents'
  BY <1>1 DEF PhaseShowsComponents, FailedPhase, Failed, Component
<1> QED
  BY <1>1, <1>2, SettledOrder DEF ResetPending

(* The probe: the phase names a component that exited.                     *)
LEMMA ProbeOrder ==
  ASSUME TypeOK, PrefixAndPhase, DaemonProbe
  PROVE  PrefixAndPhase'
<1>1. CASE Exited = {}
  <2>1. side' = [c \in Component |-> side[c]]
    BY <1>1 DEF DaemonProbe, PollExits
  <2>2. \A c \in Component : side'[c] = side[c]
    BY <2>1
  <2>3. UNCHANGED <<phase, managed, activeLaser, error, sequence, failed, laserConfiguration>>
    BY <1>1 DEF DaemonProbe, pending
  <2>4. \A step \in Step : StartedBefore[step] \subseteq Component
    BY DEF StartedBefore, Step, Component
  <2>5. /\ sequence # None => sequence.step \in Step
        /\ failed # None => failed.step \in Step
    BY DEF TypeOK, SequenceType, FailedType
  <2>6. PrefixStarted'
    BY <2>2, <2>3, <2>4, <2>5 DEF PrefixAndPhase, PrefixStarted, PrefixUp
  <2>7. PhaseTrue'
    BY <2>3 DEF PrefixAndPhase, PhaseTrue, PhaseShowsPending, PhaseShowsComponents, Pending, Busy
  <2> QED
    BY <2>6, <2>7 DEF PrefixAndPhase
<1>2. CASE Exited # {}
  <2>1. LastExit \in Exited /\ Exited \subseteq Component
    BY <1>2 DEF LastExit, Exited, Component
  <2>2. ResetPending /\ phase' = Failed[LastExit] /\ ~managed'[LastExit] /\ error' = TRUE
    BY <1>2, <2>1 DEF DaemonProbe
  <2>3. phase' \in FailedPhase
    BY <2>1, <2>2 DEF FailedPhase
  <2>4. PhaseShowsComponents'
    BY <2>1, <2>2, <2>3 DEF PhaseShowsComponents, FailedPhase, Failed, Component
  <2> QED
    BY <2>2, <2>3, <2>4, SettledOrder DEF ResetPending
<1> QED
  BY <1>1, <1>2

\* A step that runs advance_sequence for this side from this step, on a sequence
\* that stands on what it started.
Advances(s, step) ==
  /\ laserConfiguration' = None
  /\ \E seq \in SequenceType :
       /\ seq.side = s /\ seq.step = step
       /\ Stands(seq, managed, side, activeLaser)
       /\ AdvanceSequence(seq, FALSE, None)

(* Start All begins at the radar.                                          *)
LEMMA StartAllTakes ==
  ASSUME TypeOK, StartAll
  PROVE  Advances(Head(queue).side, "StartRadar")
<1> DEFINE seq == [side |-> Head(queue).side, step |-> "StartRadar", attempts |-> 0]
<1>1. Head(queue).side \in Side
  BY ReceiveType, CommandFields DEF StartAll, StartOps
<1>2. seq \in SequenceType /\ seq.side = Head(queue).side /\ seq.step = "StartRadar"
  BY <1>1, ActorAssumption DEF SequenceType, Step, Attempts
<1>3. AdvanceStartRadar(seq, FALSE, None) /\ laserConfiguration' = None
  BY DEF StartAll
<1> HIDE DEF seq
<1>4. Stands(seq, managed, side, activeLaser)
  BY <1>2 DEF Stands, StartedBefore
<1> QED
  BY <1>2, <1>3, <1>4 DEF Advances, AdvanceSequence

(* Retry Failed resumes the failed Start All where it stopped.             *)
LEMMA RetryTakes ==
  ASSUME TypeOK, PendingExclusive, PrefixStarted, RetryFailed, failed # None
  PROVE  Advances(failed.side, failed.step)
<1> DEFINE seq == [side |-> failed.side, step |-> failed.step, attempts |-> 0]
<1>1. failed \in FailedType
  BY DEF TypeOK
<1>2. seq \in SequenceType /\ seq.side = failed.side /\ seq.step = failed.step
  BY <1>1, ActorAssumption DEF FailedType, SequenceType, Attempts
<1>3. sequence = None /\ laserConfiguration = None /\ deadline = FALSE
  BY DEF PendingExclusive, Busy, TypeOK
<1>4. AdvanceSequence(seq, FALSE, None) /\ laserConfiguration' = None
  BY <1>3 DEF RetryFailed
<1>5. Stands(failed, managed, side, activeLaser)
  BY PrefixStands
<1> HIDE DEF seq
<1>6. Stands(seq, managed, side, activeLaser)
  BY <1>2, <1>5 DEF Stands
<1> QED
  BY <1>2, <1>4, <1>6 DEF Advances

(* The deadline takes the sequence to its next step.                       *)
LEMMA DeadlineTakes ==
  ASSUME TypeOK, PendingExclusive, PrefixStarted, DeadlineSequence
  PROVE  failed = None /\ Advances(sequence.side, sequence.step)
<1>1. sequence \in SequenceType /\ failed = None /\ laserConfiguration = None
  BY DEF DeadlineSequence, TypeOK, PendingExclusive
<1>2. AdvanceSequence(sequence, FALSE, None) /\ laserConfiguration' = None
  BY <1>1 DEF DeadlineSequence
<1>3. Stands(sequence, managed, side, activeLaser)
  BY PrefixStands DEF DeadlineSequence
<1> QED
  BY <1>1, <1>2, <1>3 DEF Advances

(* The outcome, in terms of the side and the step.                         *)
LEMMA AdvancesOutcome ==
  ASSUME TypeOK, NEW s, NEW step, Advances(s, step)
  PROVE  /\ PrefixAndPhase'
         /\ KeepsStarted(step)
         /\ phase' = "Running" =>
              /\ \A c \in Component : managed'[c] /\ side'[c] = s
              /\ activeLaser' = "Competition"
<1>1. PICK seq \in SequenceType : Advances(s, step)!2!(seq)
  BY DEF Advances
<1>2. Advanced(seq)
  BY <1>1, SequenceAdvances
<1>3. PrefixAndPhase'
  BY <1>2, AdvancedOrder DEF Advances
<1>4. CASE Completes(seq)
  BY <1>1, <1>2, <1>3, <1>4 DEF Advanced, Completes
<1>5. CASE GoesOn(seq) \/ Fails(seq)
  <2>1. phase' # "Running"
    <3>1. CASE GoesOn(seq)
      BY <3>1, RestingSteps DEF GoesOn
    <3>2. CASE Fails(seq)
      BY <3>2 DEF Fails, FailedType, Step, ComponentOf, Failed, Component
    <3> QED
      BY <1>5, <3>1, <3>2
  <2> QED
    BY <1>1, <1>2, <1>3, <2>1 DEF Advanced
<1> QED
  BY <1>2, <1>4, <1>5 DEF Advanced

(* The standalone configuration, at its deadline.                          *)
LEMMA DeadlineLaserTakes ==
  ASSUME TypeOK, PendingExclusive, PrefixAndPhase, DeadlineLaser
  PROVE  /\ sequence = None /\ failed = None
         /\ sequence' = None /\ failed' = None
         /\ UNCHANGED <<child, managed>>
         /\ PrefixAndPhase'
<1>1. laserConfiguration # None /\ sequence = None /\ failed = None
  BY DEF DeadlineLaser, PendingExclusive, Busy
<1>2. laserConfiguration \in ConfigurationType /\ managed["Laser"]
  BY <1>1 DEF TypeOK, PrefixAndPhase, PhaseTrue, PhaseShowsPending
<1>3. UNCHANGED <<child, managed, sequence, failed>>
  BY DEF DeadlineLaser
<1>4. \E ok \in BOOLEAN : StandaloneResult(laserConfiguration, FALSE, ok)
  BY <1>1 DEF DeadlineLaser
<1>5. PrefixAndPhase'
  BY <1>1, <1>2, <1>3, <1>4, StandaloneOrder
<1> QED
  BY <1>1, <1>3, <1>5

(* What the external programs do is not seen before the next probe.        *)
LEMMA ExternalOrder ==
  ASSUME PrefixAndPhase, External
  PROVE  PrefixAndPhase'
<1>1. UNCHANGED <<phase, managed, activeLaser, error, sequence, failed, laserConfiguration>>
  BY DEF External, snapshot, pending
<1>2. UNCHANGED side
  BY DEF External, Environment, ChildExits, DaemonLaunches, DaemonEnds
<1> QED
  BY <1>1, <1>2, SameOrder

(* Every step keeps the invariant.                                         *)
LEMMA OrderStep ==
  ASSUME TypeOK, PendingExclusive, PrefixAndPhase, [Next]_vars
  PROVE  PrefixAndPhase'
<1>0. PrefixStarted
  BY DEF PrefixAndPhase
<1>1. ASSUME NEW command \in Commands, Send(command) PROVE PrefixAndPhase'
  BY <1>1, SameOrder DEF Send, runnerVars, snapshot, pending
<1>2. CASE DropRuntime \/ JoinThread
  BY <1>2, SameOrder DEF DropRuntime, JoinThread, runnerVars, snapshot, pending
<1>3. CASE RejectStart
  BY <1>3, SameOrder DEF RejectStart, runnerVars, pending
<1>4. CASE StartAll
  BY <1>4, StartAllTakes, AdvancesOutcome
<1>5. CASE RetryFailed
  <2>1. CASE failed = None
    BY <1>5, <2>1, SameOrder DEF RetryFailed, runnerVars, snapshot, pending
  <2>2. CASE failed # None
    BY <1>0, <1>5, <2>2, RetryTakes, AdvancesOutcome
  <2> QED
    BY <2>1, <2>2
<1>6. CASE StartRadar \/ StartSdr
  BY <1>6, StartedOrder DEF StartRadar, StartSdr, Component
<1>7. CASE StartLaser
  BY <1>7, StartLaserOrder
<1>8. CASE SendLaserCommand
  BY <1>8, SameOrder DEF SendLaserCommand, runnerVars, pending
<1>9. CASE StopRadar \/ StopSdr \/ StopLaser
  BY <1>9, StopOrder DEF StopRadar, StopSdr, StopLaser, Component
<1>10. CASE StopAll \/ Shutdown
  BY <1>10, StopAllOrder DEF StopAll, Shutdown
<1>11. CASE DeadlineSequence
  BY <1>0, <1>11, DeadlineTakes, AdvancesOutcome
<1>12. CASE DeadlineLaser
  BY <1>12, DeadlineLaserTakes
<1>13. CASE DaemonProbe
  BY <1>13, ProbeOrder
<1>14. CASE External
  BY <1>14, ExternalOrder
<1>15. CASE UNCHANGED vars
  BY <1>15, SameOrder DEF vars, runnerVars, snapshot, pending
<1> QED
  BY <1>1, <1>2, <1>3, <1>4, <1>5, <1>6, <1>7, <1>8, <1>9, <1>10, <1>11, <1>12,
     <1>13, <1>14, <1>15
     DEF Next, ReceiveCommand, Deadline

(* The inductive invariant holds in every reachable state.                 *)
LEMMA OrderCorrect == Spec => []OrderInv
<1>1. Init => PrefixAndPhase
  BY DEF Init, RunnerInit, PrefixAndPhase, PrefixStarted, PhaseTrue, PhaseShowsPending,
         PhaseShowsComponents, Pending, FailedPhase, Failed, Component
<1>2. TypeOK /\ PendingExclusive /\ PrefixAndPhase /\ [Next]_vars => PrefixAndPhase'
  BY OrderStep
<1>3. Spec => []PrefixAndPhase
  BY <1>1, <1>2, TypeCorrect, ExclusiveCorrect, PTL DEF Spec
<1>4. TypeOK /\ PendingExclusive /\ PrefixAndPhase => OrderInv
  BY DEF PrefixAndPhase, OrderInv
<1> QED
  BY <1>3, <1>4, TypeCorrect, ExclusiveCorrect, PTL

(* A running Start All, or a failed one that Retry Failed may resume,      *)
(* always stands on what it has started, for its own side.                 *)
THEOREM PrefixCorrect == Spec => []PrefixStarted
<1>1. OrderInv => PrefixStarted
  BY DEF OrderInv
<1> QED
  BY <1>1, OrderCorrect, PTL

(* The one phase shown to the UI is true of what is pending and of what is *)
(* managed.                                                                *)
THEOREM PhaseCorrect == Spec => []PhaseTrue
<1>1. OrderInv => PhaseTrue
  BY DEF OrderInv
<1> QED
  BY <1>1, OrderCorrect, PTL

-----------------------------------------------------------------------------
(* The buttons.                                                            *)

(* Start All is offered exactly when nothing is pending.                   *)
LEMMA StartAllOffered ==
  ASSUME OrderInv, NEW s \in Side
  PROVE  start_all(s) \in Offered(s) <=> ~Busy
<1>1. Pending <=> Busy
  <2>1. Busy => Pending
    BY RestingSteps DEF OrderInv, PhaseTrue, PhaseShowsPending, Busy, Pending
  <2> QED
    BY <2>1 DEF OrderInv, PhaseTrue, PhaseShowsPending
<1>2. \A b \in Offered(s) \ StartAllButton(s) : b.op # "StartAll"
  BY DEF Offered, ScriptButton, StopLaserButton, ComponentButton, StartButton, StopButton,
         RetryButton, Component, LaserScript, start_laser, stop_laser, start_radar, start_sdr,
         stop_radar, stop_sdr, retry_failed, stop_all, send_laser_command
<1>3. start_all(s).op = "StartAll"
  BY DEF start_all
<1>4. start_all(s) \in Offered(s) <=> start_all(s) \in StartAllButton(s)
  BY <1>2, <1>3 DEF Offered
<1> QED
  BY <1>1, <1>4 DEF StartAllButton

(* The buttons follow from the phase and from the managed components.      *)
LEMMA ButtonsFromOrder ==
  ASSUME OrderInv, SnapshotTracksRunner
  PROVE  ButtonsMatchActor
<1>1. failed # None => phase \in FailedPhase
  <2>1. failed # None => ComponentOf[failed.step] \in Component
    BY DEF OrderInv, TypeOK, FailedType, Step, ComponentOf, Component
  <2> QED
    BY <2>1 DEF OrderInv, PhaseTrue, PhaseShowsPending, FailedPhase
<1>2. ASSUME NEW s \in Side PROVE failed # None => retry_failed \in Offered(s)
  BY <1>1 DEF Offered, RetryButton
<1>3. ASSUME NEW s \in Side, NEW c \in Component
      PROVE  (IF child[c] # "none" THEN StopButton(c) ELSE StartButton(c, s)) \in Offered(s)
  <2>1. (IF child[c] # "none" THEN StopButton(c) ELSE StartButton(c, s)) = ComponentButton(c, s)
    BY DEF SnapshotTracksRunner, ComponentButton
  <2> QED
    BY <2>1 DEF Offered
<1> QED
  BY <1>2, <1>3, StartAllOffered DEF ButtonsMatchActor

(* The panel offers what the actor would do, in every reachable state.     *)
THEOREM ButtonsCorrect == Spec => []ButtonsMatchActor
<1>1. OrderInv /\ SnapshotTracksRunner => ButtonsMatchActor
  BY ButtonsFromOrder
<1> QED
  BY <1>1, OrderCorrect, TracksCorrect, PTL

-----------------------------------------------------------------------------
(* What the steps of a Start All leave behind.                             *)

(* A sequence that loses its head, or gains a last element, has changed.   *)
LEMMA LengthsDiffer ==
  ASSUME NEW S, NEW q \in Seq(S), NEW e
  PROVE  /\ q # <<>> => Tail(q) # q
         /\ e \in S => Append(q, e) # q
         /\ e \in S /\ q # <<>> => Append(q, e) # Tail(q)
<1>1. Len(q) \in Nat
  OBVIOUS
<1>2. q # <<>> => Len(Tail(q)) = Len(q) - 1
  OBVIOUS
<1>3. e \in S => Len(Append(q, e)) = Len(q) + 1
  OBVIOUS
<1> QED
  BY <1>1, <1>2, <1>3

\* The steps that receive a command other than Retry Failed.
ReceiveOther ==
  \E op : op # "RetryFailed" /\ Receive(op)

(* Which actions those are.                                                *)
LEMMA OtherCommands ==
  ASSUME ReceiveCommand
  PROVE  RetryFailed \/ ReceiveOther
<1>1. CASE RejectStart
  BY <1>1 DEF RejectStart, StartOps, ReceiveOther
<1>2. CASE StartAll \/ StartRadar \/ StartSdr \/ StartLaser \/ SendLaserCommand
  BY <1>2 DEF StartAll, StartRadar, StartSdr, StartLaser, SendLaserCommand, ReceiveOther
<1>3. CASE StopRadar \/ StopSdr \/ StopLaser \/ StopAll \/ Shutdown
  BY <1>3 DEF StopRadar, StopSdr, StopLaser, StopAll, Shutdown, ReceiveOther
<1> QED
  BY <1>1, <1>2, <1>3 DEF ReceiveCommand

(* A step that receives another command can be told from its queue.        *)
LEMMA OtherNotRetry ==
  ASSUME TypeOK, ReceiveOther
  PROVE  queue' # queue /\ ~Received("RetryFailed")
<1>1. queue' = Tail(queue) /\ queue # <<>> /\ Head(queue).op # "RetryFailed"
  BY DEF ReceiveOther, Receive
<1>2. queue \in Seq(Command)
  BY DEF TypeOK
<1> QED
  BY <1>1, <1>2, LengthsDiffer DEF Received

(* A step that sends a command is none of the actor's.                     *)
LEMMA SendingGrows ==
  ASSUME TypeOK, DropRuntime \/ \E command \in Commands : Send(command)
  PROVE  queue' # queue /\ ~Received("RetryFailed")
<1>1. [op |-> "Shutdown"] \in Command /\ Commands \subseteq Command
  BY ActorAssumption DEF Command
<1>2. \E command \in Command : queue' = Append(queue, command)
  BY <1>1 DEF DropRuntime, Send
<1>3. queue \in Seq(Command)
  BY DEF TypeOK
<1> QED
  BY <1>2, <1>3, LengthsDiffer DEF Received

(* The steps of the actor itself, and those of its processes.              *)
LEMMA OwnSteps ==
  ASSUME TypeOK, Next, queue' = queue
  PROVE  Deadline \/ DaemonProbe \/ External \/ JoinThread
<1>1. ~ReceiveOther
  BY OtherNotRetry
<1>2. ~RetryFailed
  <2>1. queue \in Seq(Command)
    BY DEF TypeOK
  <2> QED
    BY <2>1, LengthsDiffer DEF RetryFailed, Receive
<1> QED
  BY <1>1, <1>2, OtherCommands, SendingGrows DEF Next

(* A command is received by the action of its name.                        *)
LEMMA RetryReceived ==
  ASSUME TypeOK, Next, Received("RetryFailed")
  PROVE  RetryFailed
<1>1. queue' # queue
  BY LengthsDiffer DEF Received, TypeOK
<1>2. ~(Deadline \/ DaemonProbe \/ External \/ JoinThread)
  BY <1>1 DEF Deadline, DeadlineSequence, DeadlineLaser, DaemonProbe, External, JoinThread
<1> QED
  BY <1>2, OtherCommands, OtherNotRetry, SendingGrows DEF Next

(* A Start All that completes has all three components up, for its side.   *)
LEMMA AgreesStep ==
  ASSUME OrderInv, Next,
         NEW s \in {sequence, failed} \ {None},
         queue' = queue \/ Received("RetryFailed"), phase' = "Running"
  PROVE  /\ \A c \in Component : managed'[c] /\ side'[c] = s.side
         /\ activeLaser' = "Competition"
<1>1. TypeOK /\ PendingExclusive /\ PrefixStarted /\ PrefixAndPhase
  BY DEF OrderInv, PrefixAndPhase
<1>2. phase # "Running"
  <2>1. failed # None => ComponentOf[failed.step] \in Component
    BY <1>1 DEF TypeOK, FailedType, Step, ComponentOf, Component
  <2> QED
    BY <2>1, RestingSteps DEF OrderInv, PhaseTrue, PhaseShowsPending, Failed, Component
<1>3. CASE RetryFailed
  <2>1. failed # None
    BY <1>2, <1>3 DEF RetryFailed, snapshot
  <2>2. s = failed
    BY <1>1, <2>1 DEF PendingExclusive
  <2> QED
    BY <1>1, <1>3, <2>1, <2>2, RetryTakes, AdvancesOutcome
<1>4. CASE DeadlineSequence
  <2>1. failed = None /\ Advances(sequence.side, sequence.step)
    BY <1>1, <1>4, DeadlineTakes
  <2> QED
    BY <1>1, <2>1, AdvancesOutcome
<1>5. CASE DeadlineLaser
  BY <1>1, <1>5, DeadlineLaserTakes
<1>6. CASE DaemonProbe
  <2>1. Exited # {}
    BY <1>2, <1>6 DEF DaemonProbe
  <2>2. LastExit \in Component
    BY DEF LastExit, Component
  <2> QED
    BY <1>6, <2>1, <2>2 DEF DaemonProbe, Failed, Component
<1>7. CASE External \/ JoinThread
  BY <1>2, <1>7 DEF External, JoinThread, snapshot
<1> QED
  BY <1>1, <1>3, <1>4, <1>5, <1>6, <1>7, OwnSteps, RetryReceived DEF Deadline

(* Whatever was started, stopped or retried before it, a Start All that    *)
(* completes leaves every component up for one and the same side.          *)
THEOREM AgreesCorrect == Spec => StartAllAgrees
<1>1. OrderInv /\ [Next]_vars =>
        [\A s \in {sequence, failed} \ {None} :
           (queue' = queue \/ Received("RetryFailed")) /\ phase' = "Running" =>
             /\ \A c \in Component : managed'[c] /\ side'[c] = s.side
             /\ activeLaser' = "Competition"]_vars
  BY AgreesStep
<1> QED
  BY <1>1, OrderCorrect, PTL DEF Spec, StartAllAgrees

(* Retry Failed leaves alone what was started before the failed step.      *)
THEOREM RetryKeepsCorrect == Spec => RetryKeepsStarted
<1>1. ASSUME OrderInv, Next, failed # None, Received("RetryFailed")
      PROVE  \A c \in StartedBefore[failed.step] : child'[c] = child[c] /\ managed'[c]
  <2>1. TypeOK /\ PendingExclusive /\ PrefixStarted
    BY <1>1 DEF OrderInv
  <2>2. RetryFailed
    BY <1>1, <2>1, RetryReceived
  <2>3. KeepsStarted(failed.step)
    BY <1>1, <2>1, <2>2, RetryTakes, AdvancesOutcome
  <2> QED
    BY <2>3 DEF KeepsStarted
<1>2. OrderInv /\ [Next]_vars =>
        [failed # None /\ Received("RetryFailed") =>
           \A c \in StartedBefore[failed.step] : child'[c] = child[c] /\ managed'[c]]_vars
  BY <1>1
<1> QED
  BY <1>2, OrderCorrect, PTL DEF Spec, RetryKeepsStarted

-----------------------------------------------------------------------------
(* The actor implements StartAllOrder.                                     *)

\* The components that are managed, as the abstract specification sees them.
Up == {c \in Component : managed[c]}

(* The steps still to do, from step to step.                               *)
LEMMA TodoSteps ==
  /\ TodoAt["StartRadar"] = Orchestration!Order
  /\ TodoAt["StartRadar"] # <<>>
  /\ Head(TodoAt["StartRadar"]) = "Radar"
  /\ Tail(TodoAt["StartRadar"]) = TodoAt["WaitAfterRadar"]
  /\ TodoAt["StartSdr"] = TodoAt["WaitAfterRadar"]
  /\ Head(TodoAt["StartSdr"]) = "Sdr"
  /\ Tail(TodoAt["StartSdr"]) = TodoAt["WaitAfterSdr"]
  /\ TodoAt["StartLaser"] = TodoAt["WaitAfterSdr"]
  /\ Head(TodoAt["StartLaser"]) = "Laser"
  /\ Tail(TodoAt["StartLaser"]) = <<>>
  /\ TodoAt["ConfigureLaser"] = <<>>
  /\ TodoAt["WaitAfterRadar"] # <<>> /\ TodoAt["WaitAfterSdr"] # <<>>
  BY DEF TodoAt, Orchestration!Order

(* What the abstract specification sees of the pending operation.          *)
LEMMA OrderAfter ==
  /\ sequence' # None => /\ OrderMode' = "running"
                         /\ OrderTodo' = TodoAt[sequence'.step]
  /\ sequence' = None /\ failed' # None => /\ OrderMode' = "failed"
                                           /\ OrderTodo' = TodoAt[failed'.step]
  /\ sequence' = None /\ failed' = None => OrderMode' = "off" /\ OrderTodo' = <<>>
  BY DEF OrderMode, OrderTodo

(* One component more, or one less.                                        *)
LEMMA UpAfter ==
  ASSUME TypeOK, NEW c \in Component, NEW ok \in BOOLEAN, managed' = [managed EXCEPT ![c] = ok]
  PROVE  Up' = IF ok THEN Up \cup {c} ELSE Up \ {c}
<1>1. managed \in [Component -> BOOLEAN]
  BY DEF TypeOK
<1>2. \A d \in Component : managed'[d] = IF d = c THEN ok ELSE managed[d]
  BY <1>1
<1> QED
  BY <1>2 DEF Up

(* A start that is not the last waits; a failed one is kept for a retry.   *)
LEMMA TryWaits ==
  ASSUME TypeOK, NEW c \in Component, NEW ok \in BOOLEAN,
         managed' = [managed EXCEPT ![c] = ok],
         NEW step \in Step, NEW next \in Step,
         Head(TodoAt[step]) = c, Tail(TodoAt[step]) = TodoAt[next], TodoAt[next] # <<>>,
         ok => \E t \in SequenceType : t.step = next /\ sequence' = t,
         ~ok => \E f \in FailedType : f.step = step /\ sequence' = None /\ failed' = f
  PROVE  Orchestration!Try(TodoAt[step])
<1>1. Up' = IF ok THEN Up \cup {c} ELSE Up \ {c}
  BY UpAfter
<1>2. ok => OrderMode' = "running" /\ OrderTodo' = TodoAt[next]
  BY OrderAfter, ActorAssumption
<1>3. ~ok => OrderMode' = "failed" /\ OrderTodo' = TodoAt[step]
  BY OrderAfter, ActorAssumption
<1> QED
  BY <1>1, <1>2, <1>3 DEF Orchestration!Try, Up

(* The outcome of a configuration.                                         *)
LEMMA ConfigureRefines ==
  ASSUME NEW seq \in SequenceType, seq.step = "ConfigureLaser", NEW ok \in BOOLEAN,
         ConfigurationResult(seq, FALSE, None, ok)
  PROVE  Orchestration!Configure
<1>1. CASE ok
  BY <1>1, OrderAfter DEF ConfigurationResult, Orchestration!Configure
<1>2. CASE ~ok /\ seq.attempts + 1 < FifoAttempts
  <2> DEFINE next == [seq EXCEPT !.attempts = seq.attempts + 1]
  <2>1. seq.attempts + 1 \in Attempts
    BY <1>2, ActorAssumption DEF SequenceType, Attempts
  <2>2. next \in SequenceType /\ next.step = "ConfigureLaser" /\ sequence' = next
    BY <1>2, <2>1 DEF SequenceType, ConfigurationResult
  <2> HIDE DEF next
  <2> QED
    BY <2>2, ActorAssumption, OrderAfter, TodoSteps DEF Orchestration!Configure
<1>3. CASE ~ok /\ ~(seq.attempts + 1 < FifoAttempts)
  <2> DEFINE kept == [side |-> seq.side, step |-> seq.step]
  <2>1. SequenceFailed(seq, "Laser")
    BY <1>3 DEF ConfigurationResult
  <2>2. kept \in FailedType /\ kept.step = "ConfigureLaser" /\ sequence' = None /\ failed' = kept
    BY <2>1 DEF SequenceType, FailedType, SequenceFailed
  <2> HIDE DEF kept
  <2> QED
    BY <2>2, ActorAssumption, OrderAfter, TodoSteps DEF Orchestration!Configure
<1> QED
  BY <1>1, <1>2, <1>3

\* What the abstract specification does from this step.
Tries(step) ==
  IF TodoAt[step] = <<>> THEN Orchestration!Configure /\ Up' = Up
                         ELSE Orchestration!Try(TodoAt[step])

(* advance_sequence tries the first component that is left, or configures. *)
LEMMA AdvanceRefines ==
  ASSUME TypeOK, NEW seq \in SequenceType, AdvanceSequence(seq, FALSE, None)
  PROVE  Tries(seq.step)
<1>1. CASE seq.step = "StartRadar" /\ AdvanceStartRadar(seq, FALSE, None)
  <2>1. PICK ok \in BOOLEAN : AdvanceStartRadar(seq, FALSE, None)!(ok)
    BY <1>1 DEF AdvanceStartRadar
  <2>2. ok => \E t \in SequenceType : t.step = "WaitAfterRadar" /\ sequence' = t
    <3>1. [seq EXCEPT !.step = "WaitAfterRadar"] \in SequenceType
      BY StepType DEF Step
    <3> QED
      BY <2>1, <3>1 DEF SequenceType
  <2>3. ~ok => \E f \in FailedType : f.step = "StartRadar" /\ sequence' = None /\ failed' = f
    BY <1>1, <2>1 DEF SequenceFailed, SequenceType, FailedType
  <2>4. Orchestration!Try(TodoAt["StartRadar"])
    BY <2>1, <2>2, <2>3, TryWaits, TodoSteps DEF Component, Step
  <2> QED
    BY <1>1, <2>4, TodoSteps DEF Tries
<1>2. CASE seq.step \in {"WaitAfterRadar", "StartSdr"} /\ AdvanceStartSdr(seq, FALSE, None)
  <2>1. PICK ok \in BOOLEAN : AdvanceStartSdr(seq, FALSE, None)!(ok)
    BY <1>2 DEF AdvanceStartSdr
  <2>2. ok => \E t \in SequenceType : t.step = "WaitAfterSdr" /\ sequence' = t
    <3>1. [seq EXCEPT !.step = "WaitAfterSdr"] \in SequenceType
      BY StepType DEF Step
    <3> QED
      BY <2>1, <3>1 DEF SequenceType
  <2>3. ~ok => \E f \in FailedType : f.step = "StartSdr" /\ sequence' = None /\ failed' = f
    BY <2>1 DEF SequenceFailed, SequenceType, FailedType, Step
  <2>4. Orchestration!Try(TodoAt["StartSdr"])
    BY <2>1, <2>2, <2>3, TryWaits, TodoSteps DEF Component, Step
  <2> QED
    BY <1>2, <2>4, TodoSteps DEF Tries
<1>3. CASE seq.step \in {"WaitAfterSdr", "StartLaser"} /\ AdvanceStartLaser(seq, FALSE, None)
  <2> DEFINE conf == [seq EXCEPT !.step = "ConfigureLaser"]
             stopped == [seq EXCEPT !.step = "StartLaser"]
  <2>1. conf \in SequenceType /\ conf.step = "ConfigureLaser"
    BY StepType DEF Step, SequenceType
  <2>2. CASE /\ managed' = [managed EXCEPT !["Laser"] = TRUE]
             /\ \E ok \in BOOLEAN : ConfigurationResult(conf, FALSE, None, ok)
    <3>1. Up' = Up \cup {"Laser"}
      BY <2>2, UpAfter DEF Component
    <3> HIDE DEF conf
    <3>2. Orchestration!Configure
      BY <2>1, <2>2, ConfigureRefines
    <3> QED
      BY <1>3, <3>1, <3>2, TodoSteps DEF Tries, Orchestration!Try, Up
  <2>3. CASE managed' = [managed EXCEPT !["Laser"] = FALSE] /\ SequenceFailed(stopped, "Laser")
    <3>1. Up' = Up \ {"Laser"}
      BY <2>3, UpAfter DEF Component
    <3>2. \E f \in FailedType : f.step = "StartLaser" /\ sequence' = None /\ failed' = f
      BY <2>3 DEF SequenceFailed, SequenceType, FailedType, Step
    <3>3. OrderMode' = "failed" /\ OrderTodo' = TodoAt["StartLaser"]
      BY <3>2, ActorAssumption, OrderAfter
    <3> QED
      BY <1>3, <3>1, <3>3, TodoSteps DEF Tries, Orchestration!Try, Up
  <2> QED
    BY <1>3, <2>2, <2>3 DEF AdvanceStartLaser
<1>4. CASE seq.step = "ConfigureLaser" /\ AdvanceConfigure(seq, FALSE, None)
  <2>1. \E ok \in BOOLEAN : ConfigurationResult(seq, FALSE, None, ok)
    BY <1>4 DEF AdvanceConfigure
  <2>2. Up' = Up
    BY <1>4 DEF AdvanceConfigure, Up
  <2> QED
    BY <1>4, <2>1, <2>2, ConfigureRefines, TodoSteps DEF Tries
<1> QED
  BY <1>1, <1>2, <1>3, <1>4 DEF AdvanceSequence

(* Steps that change nothing the abstract specification sees.              *)
LEMMA OrderStutters ==
  ASSUME UNCHANGED <<managed, sequence, failed>>
  PROVE  UNCHANGED Orchestration!orderVars
  BY DEF Orchestration!orderVars, OrderMode, OrderTodo

(* A component started by itself, whatever becomes of it.                  *)
LEMMA StartOneRefines ==
  ASSUME TypeOK, sequence = None, sequence' = None, failed' = None,
         NEW c \in Component, NEW ok \in BOOLEAN, managed' = [managed EXCEPT ![c] = ok]
  PROVE  Orchestration!StartOne
<1>1. Up' = IF ok THEN Up \cup {c} ELSE Up \ {c}
  BY UpAfter
<1>2. OrderMode # "running" /\ OrderMode' = "off" /\ OrderTodo' = <<>>
  BY OrderAfter DEF OrderMode
<1> QED
  BY <1>1, <1>2 DEF Orchestration!StartOne, Orchestration!Managed, Component, Up

(* A stop or an exit.                                                      *)
LEMMA CancelRefines ==
  ASSUME sequence' = None, failed' = None,
         \A c \in Component : managed'[c] => managed[c]
  PROVE  Orchestration!Cancel
<1>1. Up' \subseteq Up
  BY DEF Up
<1>2. OrderMode' = "off" /\ OrderTodo' = <<>>
  BY OrderAfter
<1> QED
  BY <1>1, <1>2 DEF Orchestration!Cancel, Up

(* StartLaser as a command.                                                *)
LEMMA StartLaserRefines ==
  ASSUME TypeOK, StartLaser
  PROVE  Orchestration!StartOne
<1> DEFINE unset == [side EXCEPT !["Laser"] = None]
<1>1. LaserNotStarted(unset) \/ LaserStartedPlain(unset) \/ LaserStartedToConfigure(unset)
  BY DEF StartLaser
<1>2. /\ sequence' = None /\ failed' = None
      /\ \E ok \in BOOLEAN : managed' = [managed EXCEPT !["Laser"] = ok]
  BY <1>1 DEF LaserNotStarted, LaserStartedPlain, LaserStartedToConfigure, ComponentStarted,
              ResetPending
<1>3. sequence = None
  BY DEF StartLaser, Busy
<1> QED
  BY <1>2, <1>3, StartOneRefines DEF Component

(* Every step of the actor is a step of StartAllOrder, or one it does not  *)
(* see.                                                                    *)
LEMMA RefineStep ==
  ASSUME OrderInv, [Next]_vars
  PROVE  [Orchestration!Next]_(Orchestration!orderVars)
<1>0. TypeOK /\ PendingExclusive /\ PrefixStarted /\ PrefixAndPhase
  BY DEF OrderInv, PrefixAndPhase
<1>1. CASE \/ \E command \in Commands : Send(command)
           \/ DropRuntime \/ JoinThread \/ RejectStart \/ SendLaserCommand
  BY <1>1, OrderStutters
     DEF Send, DropRuntime, JoinThread, RejectStart, SendLaserCommand, snapshot, pending
<1>2. CASE StartAll
  <2>1. PICK seq \in SequenceType : seq.step = "StartRadar" /\ AdvanceSequence(seq, FALSE, None)
    BY <1>0, <1>2, StartAllTakes DEF Advances
  <2>2. Tries(seq.step)
    BY <1>0, <2>1, AdvanceRefines
  <2>3. OrderMode # "running"
    BY <1>2 DEF StartAll, Busy, OrderMode
  <2> QED
    BY <2>1, <2>2, <2>3, TodoSteps
       DEF Tries, Orchestration!Begin, Orchestration!Try, Orchestration!Next
<1>3. CASE RetryFailed
  <2>1. CASE failed = None
    BY <1>3, <2>1, OrderStutters DEF RetryFailed, snapshot, pending
  <2>2. CASE failed # None
    <3>1. OrderMode = "failed" /\ OrderTodo = TodoAt[failed.step]
      BY <1>0, <2>2 DEF PendingExclusive, OrderMode, OrderTodo
    <3>2. PICK seq \in SequenceType : seq.step = failed.step /\ AdvanceSequence(seq, FALSE, None)
      BY <1>0, <1>3, <2>2, RetryTakes DEF Advances
    <3>3. Tries(seq.step)
      BY <1>0, <3>2, AdvanceRefines
    <3> QED
      BY <3>1, <3>2, <3>3
         DEF Tries, Orchestration!Continue, Orchestration!Try, Orchestration!Next, Up
  <2> QED
    BY <2>1, <2>2
<1>4. CASE StartRadar \/ StartSdr
  <2>1. sequence = None
    BY <1>4 DEF StartRadar, StartSdr, Busy
  <2>2. sequence' = None /\ failed' = None
    BY <1>4 DEF StartRadar, StartSdr, ResetPending
  <2>3. \E c \in Component : \E ok \in BOOLEAN : managed' = [managed EXCEPT ![c] = ok]
    BY <1>4 DEF StartRadar, StartSdr, ComponentStarted, Component
  <2> QED
    BY <1>0, <2>1, <2>2, <2>3, StartOneRefines DEF Orchestration!Next
<1>5. CASE StartLaser
  BY <1>0, <1>5, StartLaserRefines DEF Orchestration!Next
<1>6. CASE StopRadar \/ StopSdr \/ StopLaser
  <2>1. PICK c \in Component : StopComponent(c)
    BY <1>6 DEF StopRadar, StopSdr, StopLaser, Component
  <2>2. sequence' = None /\ failed' = None /\ \A d \in Component : managed'[d] => managed[d]
    BY <1>0, <2>1 DEF StopComponent, ResetPending, TypeOK
  <2> QED
    BY <2>2, CancelRefines DEF Orchestration!Next
<1>7. CASE StopAll \/ Shutdown
  <2>1. sequence' = None /\ failed' = None /\ \A d \in Component : managed'[d] => managed[d]
    BY <1>7 DEF StopAll, Shutdown, ResetPending, StopAllComponents
  <2> QED
    BY <2>1, CancelRefines DEF Orchestration!Next
<1>8. CASE DeadlineSequence
  <2>1. OrderMode = "running" /\ OrderTodo = TodoAt[sequence.step]
    BY <1>8 DEF DeadlineSequence, OrderMode, OrderTodo
  <2>2. PICK seq \in SequenceType : seq.step = sequence.step /\ AdvanceSequence(seq, FALSE, None)
    BY <1>0, <1>8, DeadlineTakes DEF Advances
  <2>3. Tries(seq.step)
    BY <1>0, <2>2, AdvanceRefines
  <2> QED
    BY <2>1, <2>2, <2>3 DEF Tries, Orchestration!Continue, Orchestration!Try, Orchestration!Next, Up
<1>9. CASE DeadlineLaser
  BY <1>0, <1>9, DeadlineLaserTakes, OrderStutters
<1>10. CASE DaemonProbe
  <2>1. CASE Exited = {}
    BY <1>10, <2>1, OrderStutters DEF DaemonProbe, pending
  <2>2. CASE Exited # {}
    <3>1. sequence' = None /\ failed' = None /\ \A d \in Component : managed'[d] => managed[d]
      BY <1>10, <2>2 DEF DaemonProbe, ResetPending
    <3> QED
      BY <3>1, CancelRefines DEF Orchestration!Next
  <2> QED
    BY <2>1, <2>2
<1>11. CASE External \/ UNCHANGED vars
  BY <1>11, OrderStutters DEF External, vars, snapshot, pending
<1> QED
  BY <1>1, <1>2, <1>3, <1>4, <1>5, <1>6, <1>7, <1>8, <1>9, <1>10, <1>11
     DEF Next, ReceiveCommand, Deadline

(* The actor, with its queue, deadline, retries, probe and dying           *)
(* processes, implements StartAllOrder.                                    *)
THEOREM OrderRefined == Spec => ImplementsStartAllOrder
<1>1. Init => Orchestration!Init
  BY DEF Init, Orchestration!Init, OrderMode, OrderTodo, Component
<1>2. OrderInv /\ [Next]_vars => [Orchestration!Next]_(Orchestration!orderVars)
  BY RefineStep
<1> QED
  BY <1>1, <1>2, OrderCorrect, PTL DEF Spec, ImplementsStartAllOrder, Orchestration!Spec
=============================================================================
