--------------------------- MODULE StartAllOrder ---------------------------
(***************************************************************************)
(* What Start All promises, without commands, timers, phases or processes: *)
(* the three components come up in a fixed order, the first failure pauses *)
(* the rest so that it can be resumed at the same place, any stop or exit  *)
(* cancels it, and while it is under way nothing else is started.          *)
(* (ui-backend-integration-design.md, section 4.4, as the code of          *)
(* src/services/process_runtime.rs does it.)                               *)
(***************************************************************************)
EXTENDS Sequences

VARIABLES
  up,    \* the components that are managed
  mode,  \* of the Start All: "off", "running" or "failed"
  todo   \* the components it has still to start; when empty, configuration

orderVars == <<up, mode, todo>>

Order == <<"Radar", "Sdr", "Laser">>
Managed == {"Radar", "Sdr", "Laser"}

Init ==
  /\ up = {}
  /\ mode = "off"
  /\ todo = <<>>

\* The configuration of the laser: again, done, or given up.
Configure ==
  /\ todo' = <<>>
  /\ mode' \in {"running", "off", "failed"}

\* Start the first component of rest.  The last one is configured at once.
Try(rest) ==
  \/ /\ up' = up \cup {Head(rest)}
     /\ IF Tail(rest) = <<>> THEN Configure
                             ELSE todo' = Tail(rest) /\ mode' = "running"
  \/ /\ up' = up \ {Head(rest)}
     /\ todo' = rest
     /\ mode' = "failed"

Begin ==
  /\ mode # "running"
  /\ Try(Order)

\* The next step of a running Start All, or of a failed one resumed.
Continue ==
  /\ mode # "off"
  /\ IF todo = <<>> THEN Configure /\ UNCHANGED up ELSE Try(todo)

\* A stop or an exit.
Cancel ==
  /\ mode' = "off"
  /\ todo' = <<>>
  /\ up' \in SUBSET up

\* A component started by itself; a failed Start All is then forgotten.
StartOne ==
  /\ mode # "running"
  /\ mode' = "off"
  /\ todo' = <<>>
  /\ \E c \in Managed : up' \in {up \cup {c}, up \ {c}}

Next == Begin \/ Continue \/ Cancel \/ StartOne

Spec == Init /\ [][Next]_orderVars
=============================================================================
