---------------------------- MODULE ScriptRunner ----------------------------
(***************************************************************************)
(* The owner of the external processes of a match                          *)
(* (src/services/script_runner.rs): the child handles of the ROS2 radar,   *)
(* the SDR bridge and the laser wrapper script, the ffplay window beside   *)
(* the radar, and the two things it controls without owning a handle: the  *)
(* laser daemon a wrapper script disowns and the command FIFO it reads.    *)
(*                                                                         *)
(* The operations below are fragments of the steps of ProcessActor, which  *)
(* is the only caller.  The actions of the section "Environment" are what  *)
(* the external programs may do on their own.                              *)
(***************************************************************************)
EXTENDS Integers

CONSTANTS Side,     \* the team colours: TeamSide
          None      \* Option::None

Component == {"Radar", "Sdr", "Laser"}

LaserScript == {"Competition", "Preview", "Stream", "Record"}

\* LaserScript::is_daemon: the wrapper leaves a daemon behind.
DaemonScript == {"Competition", "Stream"}

ASSUME RunnerAssumption ==
  /\ Side # {}
  /\ None \notin Side
  /\ None \notin LaserScript

VARIABLES
  child,    \* radar_child, sdr_child and child: no handle, a live process, or
            \* a process that ended and has not been reaped by poll_child
  side,     \* the side each process was last given: the --side argument of
            \* radar and SDR, the "enemy" command of the laser configuration
  active,   \* ScriptRunner.active: the laser script that holds `child`
  ffplay,   \* radar_ffplay_child.is_some()
  daemons,  \* the laser daemons alive: the one the current wrapper launched
            \* ("owned") and one no wrapper handle leads to any more ("orphan")
  fifo      \* /tmp/laser_cmd exists

runnerVars == <<child, side, active, ffplay, daemons, fifo>>

RunnerTypeOK ==
  /\ child \in [Component -> {"none", "alive", "exited"}]
  /\ side \in [Component -> Side \cup {None}]
  /\ active \in LaserScript \cup {None}
  /\ ffplay \in BOOLEAN
  /\ daemons \in SUBSET {"owned", "orphan"}
  /\ fifo \in BOOLEAN

RunnerInit ==
  /\ child = [c \in Component |-> "none"]
  /\ side = [c \in Component |-> None]
  /\ active = None
  /\ ffplay = FALSE
  /\ daemons = {}
  /\ fifo = FALSE

-----------------------------------------------------------------------------
(* Operations.                                                             *)

\* An open of the FIFO for writing with O_NONBLOCK succeeds only while some
\* daemon has it open for reading.
FifoWritable == fifo /\ daemons # {}

\* The part of stop() that deals with the daemon: "quit", pkill -9 and the
\* removal of the FIFO, but only while a daemon script is active.  The wrapper
\* is killed last, so one that has not launched its daemon yet may still do so
\* after the pkill; nothing leads to that daemon afterwards.
StopDaemon ==
  IF active \in DaemonScript
  THEN \/ daemons' = {} /\ fifo' = FALSE
       \/ /\ child["Laser"] = "alive"
          /\ "owned" \notin daemons
          /\ daemons' = {"orphan"}
          /\ fifo' \in BOOLEAN
  ELSE UNCHANGED <<daemons, fifo>>

\* stop_radar, stop_sdr and stop, for the components of S.
StopComponents(S) ==
  /\ child' = [c \in Component |-> IF c \in S THEN "none" ELSE child[c]]
  /\ side' = [c \in Component |-> IF c \in S THEN None ELSE side[c]]
  /\ IF "Radar" \in S THEN ffplay' = FALSE ELSE UNCHANGED ffplay
  /\ IF "Laser" \in S
     THEN active' = None /\ StopDaemon
     ELSE UNCHANGED <<active, daemons, fifo>>

\* start_radar: it begins with stop_radar, so a failed start leaves no child.
\* The ffplay window is spawned after the radar and may fail silently.
RunnerStartRadar(s, ok) ==
  /\ child' = [child EXCEPT !["Radar"] = IF ok THEN "alive" ELSE "none"]
  /\ side' = [side EXCEPT !["Radar"] = IF ok THEN s ELSE None]
  /\ ffplay' \in {FALSE, ok}
  /\ UNCHANGED <<active, daemons, fifo>>

\* start_sdr: begins with stop_sdr.
RunnerStartSdr(s, ok) ==
  /\ child' = [child EXCEPT !["Sdr"] = IF ok THEN "alive" ELSE "none"]
  /\ side' = [side EXCEPT !["Sdr"] = IF ok THEN s ELSE None]
  /\ UNCHANGED <<active, ffplay, daemons, fifo>>

\* start: begins with stop.  The daemon of the new wrapper may be up before
\* the caller's next statement runs.  The side is left to ConfigureLaser.
RunnerStartLaser(script, ok) ==
  /\ child' = [child EXCEPT !["Laser"] = IF ok THEN "alive" ELSE "none"]
  /\ active' = IF ok THEN script ELSE None
  /\ \/ StopDaemon
     \/ /\ ok /\ script \in DaemonScript
        /\ daemons' = (IF active \in DaemonScript THEN {} ELSE daemons) \cup {"owned"}
        /\ fifo' = TRUE
  /\ UNCHANGED ffplay

\* configure_laser writes enemy, stream and record to the FIFO and stops at the
\* first write that fails: the enemy may have been delivered all the same.
\* `writable` is FifoWritable when the writes happen, `before` the sides then.
ConfigureLaser(s, ok, writable, before) ==
  LET delivered == [before EXCEPT !["Laser"] = s] IN
  IF ok THEN writable /\ side' = delivered
        ELSE side' = before \/ (writable /\ side' = delivered)

Exited == {c \in Component : child[c] = "exited"}

\* poll_exits reaps what has ended.  A reaped wrapper clears `active` and
\* nothing else: its daemon goes on with no handle and the FIFO stays.
PollExits ==
  /\ child' = [c \in Component |-> IF c \in Exited THEN "none" ELSE child[c]]
  /\ side' = [c \in Component |-> IF c \in Exited THEN None ELSE side[c]]
  /\ active' = IF "Laser" \in Exited THEN None ELSE active
  /\ daemons' = IF "Laser" \in Exited /\ daemons # {} THEN {"orphan"} ELSE daemons
  /\ UNCHANGED <<ffplay, fifo>>

-----------------------------------------------------------------------------
(* Environment.                                                            *)

ChildExits(c) ==
  /\ child[c] = "alive"
  /\ child' = [child EXCEPT ![c] = "exited"]
  /\ UNCHANGED <<side, active, ffplay, daemons, fifo>>

\* The wrapper of a daemon script creates the FIFO and disowns the daemon.
DaemonLaunches ==
  /\ child["Laser"] = "alive"
  /\ active \in DaemonScript
  /\ "owned" \notin daemons
  /\ daemons' = daemons \cup {"owned"}
  /\ fifo' = TRUE
  /\ UNCHANGED <<child, side, active, ffplay>>

\* A daemon ends; a crash leaves the FIFO in place.
DaemonEnds(d) ==
  /\ d \in daemons
  /\ daemons' = daemons \ {d}
  /\ fifo' \in {fifo, FALSE}
  /\ UNCHANGED <<child, side, active, ffplay>>

Environment ==
  \/ \E c \in Component : ChildExits(c)
  \/ DaemonLaunches
  \/ \E d \in {"owned", "orphan"} : DaemonEnds(d)
=============================================================================
