-------------------------- MODULE RobotInteraction --------------------------
(***************************************************************************)
(* The addresses of the 0x0301 frame (src/robot_interaction_id.rs and      *)
(* RobotInteractionData in src/shared_data.rs): two teams of eleven units, *)
(* the referee server, and the three u16 in front of the data, which say   *)
(* what the data are, who sends them and who is to get them.               *)
(***************************************************************************)
EXTENDS Integers, Sequences

\* TeamSide::as_str, what radar_side holds.
Team == {"red", "blue"}

\* The units of a team, with the ids of red's; blue's are 100 more.
Unit == [Hero |-> 1, Engineer |-> 2, Infantry3 |-> 3, Infantry4 |-> 4, Infantry5 |-> 5,
         Aerial |-> 6, Sentry |-> 7, Dart |-> 8, Radar |-> 9, Outpost |-> 10, Base |-> 11]

RefereeServer == <<"referee", "Server">>

\* What the data are: RADAR_AUTONOMOUS_DECISION_DATA_CMD_ID, 0x0121, and
\* RADAR_INTERACTION_SUBCONTEXT_CMD_ID, 0x0200.
DecisionCmd == 289
BroadcastCmd == 512

\* From<DeviceId> for u16.
ToU16(id) ==
  IF id = RefereeServer
  THEN 32896
  ELSE Unit[id[2]] + (IF id[1] = "blue" THEN 100 ELSE 0)

\* u16::to_le_bytes.
Bytes(n) == <<n % 256, n \div 256>>

\* to_bytes, without the data.
ToBytes(cmd, sender, receiver) == Bytes(cmd) \o Bytes(ToU16(sender)) \o Bytes(ToU16(receiver))
=============================================================================
