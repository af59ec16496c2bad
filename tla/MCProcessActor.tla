--------------------------- MODULE MCProcessActor ---------------------------
(***************************************************************************)
(* Instances of ProcessActor for TLC: sets of commands the UI may send.    *)
(***************************************************************************)
EXTENDS ProcessActorProperties

Op(op) == [op |-> op]
Start(op, s) == [op |-> op, side |-> s]
Laser(script, configure, s) ==
  [op |-> "StartLaser", side |-> s, script |-> script, configure |-> configure]

Stops == {Op("StopRadar"), Op("StopSdr"), Op("StopLaser"), Op("StopAll")}

\* Every command; one daemon script and one that is not.
AllCommands ==
  {Start(op, s) : op \in {"StartAll", "StartRadar", "StartSdr"}, s \in Side}
  \cup {Laser("Competition", TRUE, s) : s \in Side}
  \cup {Laser("Preview", FALSE, s) : s \in Side}
  \cup Stops \cup {Op("RetryFailed"), Op("SendLaserCommand")}

\* Enough to keep the actor busy.
BusyCommands ==
  {Start("StartAll", s) : s \in Side} \cup {Laser("Competition", TRUE, s) : s \in Side}
  \cup {Op("RetryFailed"), Op("StopRadar"), Op("StopAll")}
=============================================================================
