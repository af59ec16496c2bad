---------------------------- MODULE PcdLoadJob ----------------------------
(***************************************************************************)
(* What the offline viewer promises to the one who watches its status      *)
(* line: one file at a time, whose phase only goes forward, whose count of *)
(* points only grows, and which ends ready or failed before the next file  *)
(* is taken.  No worker, channel, slot or generation.                      *)
(***************************************************************************)
EXTENDS Naturals

CONSTANTS Paths, NoPath

VARIABLES
  phase,  \* "Idle", "Loading", "Launching", "Ready" or "Failed"
  path,   \* the file the phase is about
  points  \* shown while loading

jobVars == <<phase, path, points>>

Under == {"Loading", "Launching"}

Init == phase = "Idle" /\ path = NoPath /\ points = 0

Take ==
  /\ phase \notin Under
  /\ phase' \in {"Loading", "Failed"}
  /\ path' \in Paths
  /\ points' = 0

Progress ==
  /\ phase = "Loading"
  /\ points' > points
  /\ UNCHANGED <<phase, path>>

Launch ==
  /\ phase = "Loading"
  /\ phase' = "Launching"
  /\ points' = 0
  /\ UNCHANGED path

\* A load that fails never gets to Launching.
Finish ==
  /\ \/ phase \in Under /\ phase' = "Failed"
     \/ phase = "Launching" /\ phase' = "Ready"
  /\ points' = 0
  /\ UNCHANGED path

Next == Take \/ Progress \/ Launch \/ Finish

Spec == Init /\ [][Next]_jobVars
=============================================================================
