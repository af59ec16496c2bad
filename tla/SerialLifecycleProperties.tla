---------------------- MODULE SerialLifecycleProperties ----------------------
(***************************************************************************)
(* What the life of a serial connection has to keep, and what becomes of   *)
(* it in the end.                                                          *)
(***************************************************************************)
EXTENDS SerialLifecycle

Alive(c) == rx[c] \notin {"none", "done"} \/ tx[c] \notin {"none", "done"}

(* A worker thread that runs belongs to the connection the UI holds and    *)
(* shows as open.  So two connections never read or write the port at      *)
(* once, nothing of a closed connection goes on, and a new open never      *)
(* overwrites the handle of a running thread.                              *)
WorkersOwned == \A c \in Conn : Alive(c) => conn = c /\ serial_open

(* The SUB thread notifies a connection that is open and that nobody has   *)
(* begun to close: the sender that would keep the transmitter's recv()     *)
(* waiting is gone before the transmitter is joined.                       *)
SlotLive ==
  slot # NoConn => slot = conn /\ ui \in {"reconcile", "view"} /\ ~stop[slot]

(* Once the stop flag is set the transmitter writes at most one more frame *)
(* to the port: the one it had looked at the flag for, or the one whose    *)
(* notification it was waiting for.  The rest of a broadcast is dropped.   *)
StopsWithinOneFrame == \A c \in Conn : late[c] <= 1

(* A close, whatever started it and whatever the workers are doing, even   *)
(* when one has panicked, gets through both joins.                         *)
CloseReturns == (ui \in {"stop", "joinRx", "joinTx"}) ~> ~serial_open

(* A worker that has ended while its connection is shown as open, by a     *)
(* panic too, makes the UI close it.                                       *)
DeadWorkerNoticed ==
  (serial_open /\ \E c \in Conn : conn = c /\ (rx[c] = "done" \/ tx[c] = "done")) ~> ~serial_open

-----------------------------------------------------------------------------
(* docs/superpowers/specs/2026-07-31-serial-lifecycle-design.md: a stopped *)
(* or failed worker must not leave the UI permanently showing an open      *)
(* connection.  Stated for a receiver whose reads fail for good, its       *)
(* device being gone.                                                      *)
LostPortNoticed == \A c \in Conn : (conn = c /\ lost[c]) ~> (conn # c)
=============================================================================
