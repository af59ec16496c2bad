-------------------------- MODULE MCSerialFraming --------------------------
(***************************************************************************)
(* Frames of a known command with data that hold the SOF byte, of another  *)
(* one, and one that is too short for its command.                         *)
(***************************************************************************)
EXTENDS SerialFraming

MCSize == 1 :> 0 @@ 2 :> 1

MCFrames ==
  { [cmd |-> 1, data |-> <<>>],
    [cmd |-> 2, data |-> <<3, 0>>],
    [cmd |-> 2, data |-> <<>>] }

ASSUME MCFramesAssumption == HeadersOnlyInFront
=============================================================================
