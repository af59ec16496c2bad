------------------------- MODULE MCSerialLifecycle -------------------------
(***************************************************************************)
(* Instances of SerialLifecycle for TLC; the bounds are in the .cfg files. *)
(***************************************************************************)
EXTENDS SerialLifecycleProperties
=============================================================================
