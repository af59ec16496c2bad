----------------------------- MODULE ProcessUi -----------------------------
(***************************************************************************)
(* The process panel (src/app/laser_process_controls.rs) and the facade it *)
(* sends its commands through (src/services/process_control.rs): which     *)
(* commands the panel offers by the snapshot it was drawn from.  The side  *)
(* is the one chosen in the panel.                                         *)
(***************************************************************************)
EXTENDS ProcessActor

-----------------------------------------------------------------------------
(* The facade: the command that each of its calls sends.                   *)

start_all(s) == [op |-> "StartAll", side |-> s]
retry_failed == [op |-> "RetryFailed"]
start_radar(s) == [op |-> "StartRadar", side |-> s]
start_sdr(s) == [op |-> "StartSdr", side |-> s]
start_laser(script, s, configure) ==
  [op |-> "StartLaser", side |-> s, script |-> script, configure |-> configure]
stop_all == [op |-> "StopAll"]
stop_laser == [op |-> "StopLaser"]
stop_sdr == [op |-> "StopSdr"]
stop_radar == [op |-> "StopRadar"]
send_laser_command == [op |-> "SendLaserCommand"]

-----------------------------------------------------------------------------
(* The panel.                                                              *)

\* Mutant: a laser being configured does not count.
Pending_NotConfiguring == phase \in {"WaitingForRadar", "WaitingForSdr"}

\* has_pending_start_all, and the same test in the panel.
Pending == phase \in {"WaitingForRadar", "WaitingForSdr", "ConfiguringLaser"}

\* The script panel: every laser script at any time, and Stop Laser.
ScriptButton(script, s) == start_laser(script, s, script \in DaemonScript)

StopLaserButton == IF managed["Laser"] \/ daemonAvailable THEN {stop_laser} ELSE {}

\* show_component_control: a managed component is stopped, another one started.
StartButton(c, s) ==
  CASE c = "Radar" -> start_radar(s)
    [] c = "Sdr"   -> start_sdr(s)
    [] c = "Laser" -> start_laser("Competition", s, TRUE)

StopButton(c) ==
  CASE c = "Radar" -> stop_radar
    [] c = "Sdr"   -> stop_sdr
    [] c = "Laser" -> stop_laser

ComponentButton(c, s) == IF managed[c] THEN StopButton(c) ELSE StartButton(c, s)

\* The match panel: Start All, Retry Failed and Stop All.
StartAllButton(s) == IF Pending THEN {} ELSE {start_all(s)}
RetryButton == IF phase \in FailedPhase THEN {retry_failed} ELSE {}

Offered(s) ==
  {ScriptButton(script, s) : script \in LaserScript}
  \cup StopLaserButton
  \cup {ComponentButton(c, s) : c \in Component}
  \cup StartAllButton(s) \cup RetryButton
  \cup {stop_all, send_laser_command}
=============================================================================
