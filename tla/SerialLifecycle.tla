-------------------------- MODULE SerialLifecycle --------------------------
(***************************************************************************)
(* The life of a serial connection (src/app/mod.rs, src/serial/serial.rs): *)
(* the UI thread opens a port, which starts a receiver and a transmitter   *)
(* thread, and closes it again on a click, on exit, or when it notices     *)
(* that a worker has ended.  The transmitter blocks in recv() without a    *)
(* timeout: it wakes up for a notification, or when every sender of its    *)
(* channel has been dropped.  The senders are held by the receiver's       *)
(* parser and by the slot through which the ZMQ SUB thread                 *)
(* (src/zmq/zmq.rs) notifies the transmitter.                              *)
(*                                                                         *)
(* Each open makes a stop flag, a health flag and a channel of its own:    *)
(* connections are numbered, and what belongs to one is indexed by it.     *)
(***************************************************************************)
EXTENDS Integers, Sequences

CONSTANTS MaxOpens,  \* bound on the successful opens
          MaxQueue   \* bound on the notifications waiting in a channel

Conn == 1 .. MaxOpens
NoConn == 0

\* The indices the transmitter tells apart: one frame written under the
\* SharedData lock, a broadcast to the targets, nothing.
Single == {"minimap", "decision"}
Notification == Single \cup {"broadcast", "other"}

\* Frames of a broadcast, one for each target.
Targets == 3

\* What the frames of one read notify the transmitter of: a 0x020E sends its
\* index and, at game progress 4, a decision; some frames send nothing.
Batch == {<<>>, <<"other">>, <<"other", "decision">>}

ASSUME SerialAssumption == MaxOpens \in Nat /\ MaxQueue \in Nat

VARIABLES
  ui,            \* where the UI thread is: about to "reconcile" a frame, in the
                 \* "view", in the steps of a close, or "exited"
  after,         \* where the UI goes on after a close
  opened,        \* successful opens so far
  conn,          \* the connection whose handles and flags the UI holds
  serial_open,
  serial_error,  \* serial_error.is_some()
  slot,          \* tx_slot of the SUB thread: the channel it notifies
  stop,          \* of each connection, the stop flag...
  health,        \* ... worker_health
  rx, tx,        \* ... where its workers are
  left,          \* ... frames left of the broadcast in progress
  queue,         \* ... the notifications in the channel
  lost,          \* ... the device is gone
  late           \* ... history: frames written after the stop flag was set

uiVars == <<ui, after, opened, conn, serial_open, serial_error>>
connVars == <<stop, health, rx, tx, left, queue, lost, late>>
vars == <<uiVars, slot, connVars>>

RxBusy == {"check", "read", "parse"}
TxBusy == {"check", "recv", "write", "cast", "castWrite"}

TypeOK ==
  /\ ui \in {"reconcile", "view", "stop", "joinRx", "joinTx", "exited"}
  /\ after \in {"reconcile", "view", "exited"}
  /\ opened \in 0 .. MaxOpens
  /\ conn \in 0 .. opened
  /\ serial_open \in BOOLEAN
  /\ serial_error \in BOOLEAN
  /\ slot \in 0 .. opened
  /\ stop \in [Conn -> BOOLEAN]
  /\ health \in [Conn -> BOOLEAN]
  /\ rx \in [Conn -> RxBusy \cup {"none", "leaving", "done"}]
  /\ tx \in [Conn -> TxBusy \cup {"none", "leaving", "done"}]
  /\ left \in [Conn -> 0 .. Targets]
  /\ queue \in [Conn -> Seq(Notification)]
  /\ lost \in [Conn -> BOOLEAN]
  /\ late \in [Conn -> Nat]

Init ==
  /\ ui = "reconcile"
  /\ after = "reconcile"
  /\ opened = 0
  /\ conn = NoConn
  /\ serial_open = FALSE
  /\ serial_error = FALSE
  /\ slot = NoConn
  /\ stop = [c \in Conn |-> FALSE]
  /\ health = [c \in Conn |-> TRUE]
  /\ rx = [c \in Conn |-> "none"]
  /\ tx = [c \in Conn |-> "none"]
  /\ left = [c \in Conn |-> 0]
  /\ queue = [c \in Conn |-> <<>>]
  /\ lost = [c \in Conn |-> FALSE]
  /\ late = [c \in Conn |-> 0]

\* The transmitter holds the SharedData lock while it writes a single frame.
Locked == \E c \in Conn : tx[c] = "write"

-----------------------------------------------------------------------------
(* The UI thread.                                                          *)

\* open_serial, from the button a closed port shows.  A worker is spawned with
\* the others' ends of the channel already made.
OpenSerial ==
  /\ ui = "view"
  /\ ~serial_open
  /\ opened < MaxOpens
  /\ opened' = opened + 1
  /\ conn' = opened + 1
  /\ rx' = [rx EXCEPT ![opened + 1] = "check"]
  /\ tx' = [tx EXCEPT ![opened + 1] = "check"]
  /\ slot' = opened + 1
  /\ serial_open' = TRUE
  /\ serial_error' = FALSE
  /\ ui' = "reconcile"
  /\ UNCHANGED <<after, stop, health, left, queue, lost, late>>

\* serial_open_failed.
OpenSerialFails ==
  /\ ui = "view"
  /\ ~serial_open
  /\ serial_open' = FALSE
  /\ serial_error' = TRUE
  /\ ui' = "reconcile"
  /\ UNCHANGED <<after, opened, conn, slot, connVars>>

\* A frame without a click on the serial buttons.
EndFrame ==
  /\ ui = "view"
  /\ ui' = "reconcile"
  /\ UNCHANGED <<after, opened, conn, serial_open, serial_error, slot, connVars>>

\* Mutant: only the health flag is looked at, which a panic does not clear.
WorkerFailed_HealthOnly == conn # NoConn /\ ~health[conn]

WorkerFailed ==
  conn # NoConn /\ (~health[conn] \/ rx[conn] = "done" \/ tx[conn] = "done")

\* Mutant: the slot keeps its sender.
BeginClose_KeepsSlot(next) ==
  /\ ui' = "stop"
  /\ after' = next
  /\ UNCHANGED slot

\* set_tx_notify(None), the first step of both closes.
BeginClose(next) ==
  /\ ui' = "stop"
  /\ after' = next
  /\ slot' = NoConn

\* close_serial, from the button an open port shows, and from on_exit, which
\* is called between two frames.
CloseSerial ==
  /\ \/ ui = "view" /\ serial_open /\ BeginClose("reconcile")
     \/ ui = "reconcile" /\ BeginClose("exited")
  /\ UNCHANGED <<opened, conn, serial_open, serial_error, connVars>>

\* reconcile_serial_workers, at the start of each frame: either it closes...
ReconcileFailed ==
  /\ ui = "reconcile"
  /\ serial_open /\ WorkerFailed
  /\ serial_error' = TRUE
  /\ BeginClose("view")
  /\ UNCHANGED <<opened, conn, serial_open, connVars>>

\* ... or the frame goes on, with a snapshot of SharedData.
ReconcileHealthy ==
  /\ ui = "reconcile"
  /\ ~(serial_open /\ WorkerFailed)
  /\ ~Locked
  /\ ui' = "view"
  /\ UNCHANGED <<after, opened, conn, serial_open, serial_error, slot, connVars>>

\* close_serial_workers: the stop flag...
SetStop ==
  /\ ui = "stop"
  /\ stop' = [c \in Conn |-> stop[c] \/ c = conn]
  /\ ui' = "joinRx"
  /\ UNCHANGED <<after, opened, conn, serial_open, serial_error, slot, health,
                 rx, tx, left, queue, lost, late>>

\* ... the receiver...
JoinRx ==
  /\ ui = "joinRx"
  /\ conn # NoConn => rx[conn] = "done"
  /\ ui' = "joinTx"
  /\ UNCHANGED <<after, opened, conn, serial_open, serial_error, slot, connVars>>

\* The joined threads have dropped the port, and with the UI's handles the flags
\* go: what remains of a connection is that it is over.
Forget(c) ==
  /\ health' = [d \in Conn |-> d = c \/ health[d]]
  /\ left' = [d \in Conn |-> IF d = c THEN 0 ELSE left[d]]
  /\ lost' = [d \in Conn |-> d # c /\ lost[d]]
  /\ late' = [d \in Conn |-> IF d = c THEN 0 ELSE late[d]]

\* Mutant: the transmitter is not joined.
JoinTx_NoWait ==
  /\ ui = "joinTx"
  /\ conn' = NoConn
  /\ serial_open' = FALSE
  /\ serial_error' = IF after = "view" THEN serial_error ELSE FALSE
  /\ ui' = after
  /\ Forget(conn)
  /\ UNCHANGED <<after, opened, slot, stop, rx, tx, queue>>

\* ... the transmitter; then the rest of close_serial, or of the reconcile,
\* which keeps its error.
JoinTx ==
  /\ ui = "joinTx"
  /\ conn # NoConn => tx[conn] = "done"
  /\ conn' = NoConn
  /\ serial_open' = FALSE
  /\ serial_error' = IF after = "view" THEN serial_error ELSE FALSE
  /\ ui' = after
  /\ Forget(conn)
  /\ UNCHANGED <<after, opened, slot, stop, rx, tx, queue>>

-----------------------------------------------------------------------------
(* The receiver (serial_start_receiver).                                   *)

\* Leaving the loop stores FALSE in worker_health; the parser and its senders
\* are dropped when the thread ends.
RxCheck(c) ==
  /\ rx[c] = "check"
  /\ IF stop[c]
     THEN rx' = [rx EXCEPT ![c] = "leaving"] /\ health' = [health EXCEPT ![c] = FALSE]
     ELSE rx' = [rx EXCEPT ![c] = "read"] /\ UNCHANGED health
  /\ UNCHANGED <<uiVars, slot, stop, tx, left, queue, lost, late>>

\* A read returns within its timeout, with data or without; an error is logged
\* and the loop goes on.
RxRead(c) ==
  /\ rx[c] = "read"
  /\ \/ rx' = [rx EXCEPT ![c] = "check"]
     \/ ~lost[c] /\ rx' = [rx EXCEPT ![c] = "parse"]
  /\ UNCHANGED <<uiVars, slot, stop, health, tx, left, queue, lost, late>>

\* A send to a channel whose receiver is gone is ignored.
Notify(c, batch) ==
  /\ Len(queue[c]) + Len(batch) <= MaxQueue
  /\ queue' = IF tx[c] = "done" THEN queue ELSE [queue EXCEPT ![c] = @ \o batch]

RxParse(c) ==
  /\ rx[c] = "parse"
  /\ ~Locked
  /\ \E batch \in Batch : Notify(c, batch)
  /\ rx' = [rx EXCEPT ![c] = "check"]
  /\ UNCHANGED <<uiVars, slot, stop, health, tx, left, lost, late>>

RxLeave(c) ==
  /\ rx[c] = "leaving"
  /\ rx' = [rx EXCEPT ![c] = "done"]
  /\ UNCHANGED <<uiVars, slot, stop, health, tx, left, queue, lost, late>>

Receiver(c) == RxCheck(c) \/ RxRead(c) \/ RxParse(c) \/ RxLeave(c)

-----------------------------------------------------------------------------
(* The transmitter (serial_start_transmitter).                             *)

TxGoes(c, where) == tx' = [tx EXCEPT ![c] = where]

TxCheck(c) ==
  /\ tx[c] = "check"
  /\ IF stop[c]
     THEN TxGoes(c, "leaving") /\ health' = [health EXCEPT ![c] = FALSE]
     ELSE TxGoes(c, "recv") /\ UNCHANGED health
  /\ UNCHANGED <<uiVars, slot, stop, rx, left, queue, lost, late>>

\* recv() yields a notification, and SharedData is locked to look at it.
TxRecv(c) ==
  /\ tx[c] = "recv"
  /\ queue[c] # <<>>
  /\ ~Locked
  /\ queue' = [queue EXCEPT ![c] = Tail(@)]
  /\ \/ Head(queue[c]) \in Single /\ TxGoes(c, "write") /\ UNCHANGED left
     \/ /\ Head(queue[c]) = "broadcast"
        /\ TxGoes(c, "cast")
        /\ left' = [left EXCEPT ![c] = Targets]
     \/ Head(queue[c]) = "other" /\ TxGoes(c, "check") /\ UNCHANGED left
  /\ UNCHANGED <<uiVars, slot, stop, health, rx, lost, late>>

\* recv() fails: the channel is empty and its senders are gone.
TxDisconnected(c) ==
  /\ tx[c] = "recv"
  /\ queue[c] = <<>>
  /\ slot # c /\ rx[c] = "done"
  /\ TxGoes(c, "leaving")
  /\ health' = [health EXCEPT ![c] = FALSE]
  /\ UNCHANGED <<uiVars, slot, stop, rx, left, queue, lost, late>>

Wrote(c) == late' = IF stop[c] THEN [late EXCEPT ![c] = @ + 1] ELSE late

\* send_minimap or send_decision_frame; a write error is logged.
TxWrite(c) ==
  /\ tx[c] = "write"
  /\ Wrote(c)
  /\ TxGoes(c, "check")
  /\ UNCHANGED <<uiVars, slot, stop, health, rx, left, queue, lost>>

\* Mutant: the broadcast does not end.
TxCast_NoEnd(c) ==
  /\ tx[c] = "cast"
  /\ TxGoes(c, IF stop[c] THEN "check" ELSE "castWrite")
  /\ UNCHANGED <<uiVars, slot, stop, health, rx, left, queue, lost, late>>

\* Mutant: the stop flag is not looked at between the frames.
TxCast_NoStop(c) ==
  /\ tx[c] = "cast"
  /\ TxGoes(c, IF left[c] = 0 THEN "check" ELSE "castWrite")
  /\ UNCHANGED <<uiVars, slot, stop, health, rx, left, queue, lost, late>>

\* The broadcast looks at the stop flag before each of its frames.
TxCast(c) ==
  /\ tx[c] = "cast"
  /\ TxGoes(c, IF stop[c] \/ left[c] = 0 THEN "check" ELSE "castWrite")
  /\ UNCHANGED <<uiVars, slot, stop, health, rx, left, queue, lost, late>>

TxCastWrite(c) ==
  /\ tx[c] = "castWrite"
  /\ Wrote(c)
  /\ left' = [left EXCEPT ![c] = @ - 1]
  /\ TxGoes(c, "cast")
  /\ UNCHANGED <<uiVars, slot, stop, health, rx, queue, lost>>

\* The end of the thread drops the receiving end of the channel.
TxLeave(c) ==
  /\ tx[c] = "leaving"
  /\ TxGoes(c, "done")
  /\ queue' = [queue EXCEPT ![c] = <<>>]
  /\ UNCHANGED <<uiVars, slot, stop, health, rx, left, lost, late>>

Transmitter(c) ==
  \/ TxCheck(c) \/ TxRecv(c) \/ TxDisconnected(c)
  \/ TxWrite(c) \/ TxCast(c) \/ TxCastWrite(c) \/ TxLeave(c)

-----------------------------------------------------------------------------
(* What else happens.                                                      *)

\* notify_tx in the SUB thread, under the slot's lock.
SubNotifies ==
  /\ slot # NoConn
  /\ \E n \in {"minimap", "broadcast"} : Notify(slot, <<n>>)
  /\ UNCHANGED <<uiVars, slot, stop, health, rx, tx, left, lost, late>>

\* A worker panics: its thread ends without a word to worker_health.
RxPanics(c) ==
  /\ rx[c] \in RxBusy
  /\ rx' = [rx EXCEPT ![c] = "done"]
  /\ UNCHANGED <<uiVars, slot, stop, health, tx, left, queue, lost, late>>

TxPanics(c) ==
  /\ tx[c] \in TxBusy
  /\ TxGoes(c, "done")
  /\ queue' = [queue EXCEPT ![c] = <<>>]
  /\ UNCHANGED <<uiVars, slot, stop, health, rx, left, lost, late>>

\* The device is unplugged.
PortLost(c) ==
  /\ conn = c
  /\ ~lost[c]
  /\ lost' = [lost EXCEPT ![c] = TRUE]
  /\ UNCHANGED <<uiVars, slot, stop, health, rx, tx, left, queue, late>>

-----------------------------------------------------------------------------

Reconcile == ReconcileFailed \/ ReconcileHealthy

Close == SetStop \/ JoinRx \/ JoinTx

Next ==
  \/ OpenSerial \/ OpenSerialFails \/ EndFrame \/ CloseSerial
  \/ Reconcile \/ Close
  \/ SubNotifies
  \/ \E c \in Conn : \/ Receiver(c) \/ Transmitter(c)
                     \/ RxPanics(c) \/ TxPanics(c) \/ PortLost(c)

Spec == Init /\ [][Next]_vars

(***************************************************************************)
(* The threads run.  The UI draws a frame every 100 ms                     *)
(* (request_repaint_after) unless it is blocked.  A thread that waits for  *)
(* the SharedData lock gets it at last although the transmitter takes it   *)
(* again and again: strong fairness where the lock is taken.  Nothing is   *)
(* assumed of the user, of the SUB thread, or of a worker's panicking.     *)
(***************************************************************************)
Fairness ==
  /\ SF_vars(Reconcile)
  /\ WF_vars(EndFrame)
  /\ WF_vars(Close)
  /\ \A c \in Conn : /\ WF_vars(RxCheck(c) \/ RxRead(c) \/ RxLeave(c))
                     /\ SF_vars(RxParse(c))
                     /\ WF_vars(Transmitter(c))

FairSpec == Spec /\ Fairness
=============================================================================
