---------------------------- MODULE SerialProofs ----------------------------
(***************************************************************************)
(* The serial port: the safety invariants of SerialLifecycle, for every    *)
(* number of opens and every bound on the notifications waiting in a       *)
(* channel, and those of SerialFraming, for every set of frames, every     *)
(* length of a stream and every way in which the reads cut it.             *)
(***************************************************************************)
EXTENDS SerialLifecycleProperties, SerialFraming, SequenceTheorems, WellFoundedInduction, TLAPS

-----------------------------------------------------------------------------
(***************************************************************************)
(* SerialLifecycle.                                                        *)
(***************************************************************************)

-----------------------------------------------------------------------------
(* Types.                                                                  *)

\* The frame about to be written is one of those left.
CastLeft == \A c \in Conn : tx[c] = "castWrite" => left[c] > 0

TypeInv == TypeOK /\ CastLeft

(* The initial state.                                                      *)
LEMMA TypeInit == Init => TypeInv
<1> SUFFICES ASSUME Init PROVE TypeInv
  OBVIOUS
<1>1. opened \in 0 .. MaxOpens /\ conn \in 0 .. opened /\ slot \in 0 .. opened
  BY SerialAssumption DEF Init, NoConn
<1>2. queue \in [Conn -> Seq(Notification)]
  <2>1. <<>> \in Seq(Notification)
    OBVIOUS
  <2> QED
    BY <2>1 DEF Init
<1>3. /\ rx \in [Conn -> RxBusy \cup {"none", "leaving", "done"}]
      /\ tx \in [Conn -> TxBusy \cup {"none", "leaving", "done"}]
      /\ left \in [Conn -> 0 .. Targets]
      /\ late \in [Conn -> Nat]
  BY DEF Init, Targets
<1>4. CastLeft
  BY DEF Init, CastLeft
<1> QED
  BY <1>1, <1>2, <1>3, <1>4 DEF Init, TypeInv, TypeOK

(* The UI thread: what the connections' functions do not share.            *)
LEMMA UiType ==
  ASSUME TypeInv,
         OpenSerialFails \/ EndFrame \/ CloseSerial \/ Reconcile \/ Close
  PROVE  TypeInv'
<1>1. CASE OpenSerialFails
  BY <1>1 DEF OpenSerialFails, TypeInv, TypeOK, CastLeft, connVars
<1>2. CASE EndFrame
  BY <1>2 DEF EndFrame, TypeInv, TypeOK, CastLeft, connVars
<1>3. CASE CloseSerial
  <2>1. /\ ui' = "stop" /\ slot' = NoConn /\ after' \in {"reconcile", "exited"}
        /\ UNCHANGED <<opened, conn, serial_open, serial_error, connVars>>
    BY <1>3 DEF CloseSerial, BeginClose
  <2> QED
    BY <2>1 DEF TypeInv, TypeOK, CastLeft, connVars, NoConn
<1>4. CASE ReconcileFailed
  <2>1. /\ ui' = "stop" /\ slot' = NoConn /\ after' = "view" /\ serial_error' = TRUE
        /\ UNCHANGED <<opened, conn, serial_open, connVars>>
    BY <1>4 DEF ReconcileFailed, BeginClose
  <2> QED
    BY <2>1 DEF TypeInv, TypeOK, CastLeft, connVars, NoConn
<1>5. CASE ReconcileHealthy
  BY <1>5 DEF ReconcileHealthy, TypeInv, TypeOK, CastLeft, connVars
<1>6. CASE SetStop
  BY <1>6 DEF SetStop, TypeInv, TypeOK, CastLeft
<1>7. CASE JoinRx
  BY <1>7 DEF JoinRx, TypeInv, TypeOK, CastLeft, connVars
<1>8. CASE JoinTx
  <2>1. /\ conn' = 0 /\ serial_open' = FALSE /\ serial_error' \in BOOLEAN /\ ui' = after
        /\ UNCHANGED <<after, opened, slot, stop, rx, tx, queue>>
    BY <1>8 DEF JoinTx, NoConn, TypeInv, TypeOK
  <2>2. conn' \in 0 .. opened'
    BY <2>1, SerialAssumption DEF TypeInv, TypeOK
  <2>3. /\ health' \in [Conn -> BOOLEAN]
        /\ left' \in [Conn -> 0 .. Targets]
        /\ lost' \in [Conn -> BOOLEAN]
        /\ late' \in [Conn -> Nat]
    BY <1>8 DEF JoinTx, Forget, TypeInv, TypeOK, Targets
  <2>4. CastLeft'
    <3>1. \A c \in Conn : tx[c] = "castWrite" => c # conn
      BY <1>8 DEF JoinTx, TypeInv, TypeOK, NoConn, Conn
    <3> QED
      BY <1>8, <2>1, <3>1 DEF JoinTx, Forget, TypeInv, CastLeft
  <2> QED
    BY <2>1, <2>2, <2>3, <2>4 DEF TypeInv, TypeOK
<1> QED
  BY <1>1, <1>2, <1>3, <1>4, <1>5, <1>6, <1>7, <1>8 DEF Reconcile, Close

(* A new connection.                                                       *)
LEMMA OpenType ==
  ASSUME TypeInv, OpenSerial
  PROVE  TypeInv'
<1>1. opened + 1 \in 0 .. MaxOpens /\ opened + 1 \in 0 .. opened'
  BY SerialAssumption DEF OpenSerial, TypeInv, TypeOK
<1>2. /\ rx' \in [Conn -> RxBusy \cup {"none", "leaving", "done"}]
      /\ tx' \in [Conn -> TxBusy \cup {"none", "leaving", "done"}]
  BY DEF OpenSerial, TypeInv, TypeOK, RxBusy, TxBusy
<1>3. CastLeft'
  BY DEF OpenSerial, TypeInv, TypeOK, CastLeft
<1> QED
  BY <1>1, <1>2, <1>3 DEF OpenSerial, TypeInv, TypeOK

(* Notifications put in a channel.                                         *)
LEMMA NotifyType ==
  ASSUME TypeOK, NEW c \in Conn, NEW batch \in Seq(Notification), Notify(c, batch)
  PROVE  queue' \in [Conn -> Seq(Notification)]
<1>1. queue[c] \o batch \in Seq(Notification)
  BY DEF TypeOK
<1> QED
  BY <1>1 DEF Notify, TypeOK

(* The receiver, its panic included.                                       *)
LEMMA ReceiverType ==
  ASSUME TypeInv, NEW c \in Conn, Receiver(c) \/ RxPanics(c)
  PROVE  TypeInv'
<1>1. /\ rx' \in [Conn -> RxBusy \cup {"none", "leaving", "done"}]
      /\ health' \in [Conn -> BOOLEAN]
      /\ UNCHANGED <<uiVars, slot, stop, tx, left, lost, late>>
  BY DEF Receiver, RxCheck, RxRead, RxParse, RxLeave, RxPanics, TypeInv, TypeOK, RxBusy
<1>2. queue' \in [Conn -> Seq(Notification)]
  <2>1. CASE RxParse(c)
    <3>1. PICK batch \in Batch : Notify(c, batch)
      BY <2>1 DEF RxParse
    <3>2. "other" \in Notification /\ "decision" \in Notification
      BY DEF Notification, Single
    <3>3. batch \in Seq(Notification)
      <4>1. <<>> \in Seq(Notification)
        OBVIOUS
      <4>2. <<"other">> \in Seq(Notification)
        BY <3>2
      <4>3. <<"other", "decision">> \in Seq(Notification)
        BY <3>2
      <4> QED
        BY <4>1, <4>2, <4>3 DEF Batch
    <3> QED
      BY <3>1, <3>3, NotifyType DEF TypeInv
  <2>2. CASE RxCheck(c) \/ RxRead(c) \/ RxLeave(c) \/ RxPanics(c)
    BY <2>2 DEF RxCheck, RxRead, RxLeave, RxPanics, TypeInv, TypeOK
  <2> QED
    BY <2>1, <2>2 DEF Receiver
<1>3. CastLeft'
  BY <1>1 DEF CastLeft, TypeInv
<1> QED
  BY <1>1, <1>2, <1>3 DEF TypeInv, TypeOK, uiVars

(* The transmitter, its panic included.                                    *)
LEMMA TransmitterType ==
  ASSUME TypeInv, NEW c \in Conn, Transmitter(c) \/ TxPanics(c)
  PROVE  TypeInv'
<1> USE DEF TypeInv
<1>1. /\ tx' \in [Conn -> TxBusy \cup {"none", "leaving", "done"}]
      /\ health' \in [Conn -> BOOLEAN]
      /\ UNCHANGED <<uiVars, slot, stop, rx, lost>>
  BY DEF Transmitter, TxCheck, TxRecv, TxDisconnected, TxWrite, TxCast, TxCastWrite,
         TxLeave, TxPanics, TxGoes, TypeOK, TxBusy
<1>2. queue' \in [Conn -> Seq(Notification)]
  <2>1. CASE TxRecv(c)
    <3>1. Tail(queue[c]) \in Seq(Notification)
      BY <2>1 DEF TxRecv, TypeOK
    <3> QED
      BY <2>1, <3>1 DEF TxRecv, TypeOK
  <2>2. <<>> \in Seq(Notification)
    OBVIOUS
  <2>3. CASE TxLeave(c) \/ TxPanics(c)
    BY <2>2, <2>3 DEF TxLeave, TxPanics, TypeOK
  <2>4. CASE TxCheck(c) \/ TxDisconnected(c) \/ TxWrite(c) \/ TxCast(c) \/ TxCastWrite(c)
    BY <2>4 DEF TxCheck, TxDisconnected, TxWrite, TxCast, TxCastWrite, TypeOK
  <2> QED
    BY <2>1, <2>3, <2>4 DEF Transmitter
<1>3. late' \in [Conn -> Nat]
  BY DEF Transmitter, TxCheck, TxRecv, TxDisconnected, TxWrite, TxCast, TxCastWrite,
         TxLeave, TxPanics, Wrote, TypeOK
<1>4. left' \in [Conn -> 0 .. Targets] /\ CastLeft'
  <2>1. CASE TxCastWrite(c)
    <3>1. left[c] - 1 \in 0 .. Targets
      BY <2>1 DEF TxCastWrite, CastLeft, TypeOK, Targets
    <3> QED
      BY <2>1, <3>1 DEF TxCastWrite, TxGoes, CastLeft, TypeOK
  <2>2. CASE TxCast(c)
    <3>1. left' = left /\ tx' = [tx EXCEPT ![c] = tx'[c]]
      BY <2>2 DEF TxCast, TxGoes, TypeOK
    <3>2. tx'[c] = "castWrite" => left[c] # 0
      BY <2>2 DEF TxCast, TxGoes, TypeOK
    <3>3. left[c] # 0 => left[c] > 0
      <4>1. left[c] \in 0 .. 3
        BY DEF TypeOK, Targets
      <4> QED
        BY <4>1
    <3> QED
      BY <3>1, <3>2, <3>3 DEF CastLeft, TypeOK
  <2>3. CASE TxRecv(c)
    <3>1. /\ left' = left \/ left' = [left EXCEPT ![c] = Targets]
          /\ \E where \in {"write", "cast", "check"} : tx' = [tx EXCEPT ![c] = where]
      BY <2>3 DEF TxRecv, TxGoes
    <3>2. left' \in [Conn -> 0 .. Targets]
      <4>1. left \in [Conn -> 0 .. Targets]
        BY DEF TypeOK
      <4>2. Targets \in 0 .. Targets
        BY DEF Targets
      <4> QED
        BY <3>1, <4>1, <4>2
    <3>3. tx'[c] # "castWrite" /\ \A d \in Conn : d # c => left'[d] = left[d] /\ tx'[d] = tx[d]
      BY <3>1 DEF TypeOK
    <3> QED
      BY <3>2, <3>3 DEF CastLeft
  <2>4. CASE TxCheck(c) \/ TxDisconnected(c) \/ TxWrite(c) \/ TxLeave(c) \/ TxPanics(c)
    BY <2>4 DEF TxCheck, TxDisconnected, TxWrite, TxLeave, TxPanics, TxGoes, CastLeft, TypeOK
  <2> QED
    BY <2>1, <2>2, <2>3, <2>4 DEF Transmitter
<1> QED
  BY <1>1, <1>2, <1>3, <1>4 DEF TypeOK, uiVars

(* The SUB thread and the device.                                          *)
LEMMA OutsideType ==
  ASSUME TypeInv, SubNotifies \/ \E c \in Conn : PortLost(c)
  PROVE  TypeInv'
<1>1. CASE SubNotifies
  <2>1. slot \in Conn
    BY <1>1, SerialAssumption DEF SubNotifies, TypeInv, TypeOK, Conn, NoConn
  <2>2. PICK n \in {"minimap", "broadcast"} : Notify(slot, <<n>>)
    BY <1>1 DEF SubNotifies
  <2>3. <<n>> \in Seq(Notification)
    BY DEF Notification, Single
  <2>4. queue' \in [Conn -> Seq(Notification)]
    BY <2>1, <2>2, <2>3, NotifyType DEF TypeInv
  <2> QED
    BY <1>1, <2>4 DEF SubNotifies, TypeInv, TypeOK, CastLeft, uiVars
<1>2. ASSUME NEW c \in Conn, PortLost(c) PROVE TypeInv'
  BY <1>2 DEF PortLost, TypeInv, TypeOK, CastLeft, uiVars
<1> QED
  BY <1>1, <1>2

(* No step leaves the types, and the counters of a broadcast and of late   *)
(* frames stay naturals.                                                   *)
LEMMA TypeStep == TypeInv /\ [Next]_vars => TypeInv'
<1> SUFFICES ASSUME TypeInv, [Next]_vars PROVE TypeInv'
  OBVIOUS
<1>1. CASE UNCHANGED vars
  BY <1>1 DEF vars, uiVars, connVars, TypeInv, TypeOK, CastLeft
<1>2. CASE Next
  BY <1>2, UiType, OpenType, ReceiverType, TransmitterType, OutsideType DEF Next
<1> QED
  BY <1>1, <1>2

LEMMA TypeAlways == Spec => []TypeInv
  BY TypeInit, TypeStep, PTL DEF Spec

(* Every variable keeps its type: in particular a broadcast never has more *)
(* frames left than targets, nor fewer than none.                          *)
THEOREM SerialTypeCorrect == Spec => []TypeOK
<1>1. TypeInv => TypeOK
  BY DEF TypeInv
<1> QED
  BY <1>1, TypeAlways, PTL

-----------------------------------------------------------------------------
(* Who runs.                                                               *)

\* Connections that were never opened have no worker and no stop flag set.
Fresh == \A c \in Conn : c > opened => rx[c] = "none" /\ tx[c] = "none" /\ ~stop[c]

OnlyConn == \A c \in Conn : Alive(c) => conn = c

RxJoined == ui = "joinTx" /\ conn # NoConn => rx[conn] = "done"

OwnInv ==
  /\ TypeInv
  /\ serial_open <=> conn # NoConn
  /\ Fresh
  /\ OnlyConn
  /\ RxJoined
  /\ SlotLive

\* What holds of every step but those of the UI: no worker appears, and one
\* that has ended stays so.
WorkersOnly ==
  /\ UNCHANGED <<uiVars, slot, stop>>
  /\ \A c \in Conn :
       /\ rx[c] = "none" => rx'[c] = "none"
       /\ tx[c] = "none" => tx'[c] = "none"
       /\ rx[c] = "done" => rx'[c] = "done"
       /\ tx[c] = "done" => tx'[c] = "done"

LEMMA WorkerSteps ==
  ASSUME TypeOK,
         \/ SubNotifies
         \/ \E c \in Conn : Receiver(c) \/ Transmitter(c) \/ RxPanics(c) \/ TxPanics(c) \/ PortLost(c)
  PROVE  WorkersOnly
<1> DEFINE types == /\ rx \in [Conn -> RxBusy \cup {"none", "leaving", "done"}]
                    /\ tx \in [Conn -> TxBusy \cup {"none", "leaving", "done"}]
<1>0. types
  BY DEF TypeOK
<1>1. CASE SubNotifies
  BY <1>1 DEF SubNotifies, WorkersOnly
<1>2. ASSUME NEW c \in Conn, Receiver(c) \/ RxPanics(c) PROVE WorkersOnly
  <2>1. /\ UNCHANGED <<uiVars, slot, stop, tx>>
        /\ rx[c] \notin {"none", "done"}
        /\ \E where \in {"leaving", "read", "check", "parse", "done"} : rx' = [rx EXCEPT ![c] = where]
    BY <1>2 DEF Receiver, RxCheck, RxRead, RxParse, RxLeave, RxPanics, RxBusy
  <2> QED
    BY <1>0, <2>1 DEF WorkersOnly
<1>3. ASSUME NEW c \in Conn, Transmitter(c) \/ TxPanics(c) PROVE WorkersOnly
  <2>1. /\ UNCHANGED <<uiVars, slot, stop, rx>>
        /\ tx[c] \notin {"none", "done"}
        /\ \E where \in TxBusy \cup {"leaving", "done"} : tx' = [tx EXCEPT ![c] = where]
    BY <1>3 DEF Transmitter, TxCheck, TxRecv, TxDisconnected, TxWrite, TxCast, TxCastWrite,
                TxLeave, TxPanics, TxGoes, TxBusy
  <2> QED
    BY <1>0, <2>1 DEF WorkersOnly, TxBusy
<1>4. ASSUME NEW c \in Conn, PortLost(c) PROVE WorkersOnly
  BY <1>4 DEF PortLost, WorkersOnly
<1> QED
  BY <1>1, <1>2, <1>3, <1>4

LEMMA WorkersKeepOwn ==
  ASSUME OwnInv, TypeInv', WorkersOnly
  PROVE  OwnInv'
<1>1. UNCHANGED <<ui, opened, conn, serial_open, slot, stop>>
  BY DEF WorkersOnly, uiVars
<1>2. conn # NoConn => conn \in Conn
  BY SerialAssumption DEF OwnInv, TypeInv, TypeOK, Conn, NoConn
<1>3. Fresh'
  BY <1>1 DEF OwnInv, Fresh, WorkersOnly
<1>4. OnlyConn'
  BY <1>1 DEF OwnInv, OnlyConn, Alive, WorkersOnly
<1>5. RxJoined'
  BY <1>1, <1>2 DEF OwnInv, RxJoined, WorkersOnly
<1>6. SlotLive'
  BY <1>1 DEF OwnInv, SlotLive
<1> QED
  BY <1>1, <1>3, <1>4, <1>5, <1>6 DEF OwnInv

(* Steps of the UI that keep the connection and its workers.               *)
LEMMA UiKeepsOwn ==
  ASSUME OwnInv, TypeInv',
         OpenSerialFails \/ EndFrame \/ CloseSerial \/ Reconcile \/ SetStop \/ JoinRx
  PROVE  OwnInv'
<1>1. UNCHANGED <<opened, conn, rx, tx>> /\ (serial_open' <=> serial_open)
  BY DEF OpenSerialFails, EndFrame, CloseSerial, Reconcile, ReconcileFailed, ReconcileHealthy,
         SetStop, JoinRx, connVars
<1>2. Fresh'
  <2>1. CASE SetStop
    <3>1. \A c \in Conn : c > opened => ~stop'[c]
      BY <2>1 DEF SetStop, OwnInv, TypeInv, TypeOK, Fresh, Conn
    <3> QED
      BY <1>1, <3>1 DEF OwnInv, Fresh
  <2>2. CASE UNCHANGED stop
    BY <1>1, <2>2 DEF OwnInv, Fresh
  <2> QED
    BY <2>1, <2>2 DEF OpenSerialFails, EndFrame, CloseSerial, Reconcile, ReconcileFailed,
                      ReconcileHealthy, JoinRx, connVars
<1>3. OnlyConn'
  BY <1>1 DEF OwnInv, OnlyConn, Alive
<1>4. RxJoined'
  <2>1. CASE JoinRx
    BY <1>1, <2>1 DEF JoinRx, RxJoined
  <2>2. CASE ui' # "joinTx"
    BY <2>2 DEF RxJoined
  <2> QED
    BY <2>1, <2>2 DEF OpenSerialFails, EndFrame, CloseSerial, BeginClose, Reconcile,
                      ReconcileFailed, ReconcileHealthy, SetStop
<1>5. SlotLive'
  <2>1. CASE slot' = NoConn
    BY <2>1 DEF SlotLive
  <2>2. CASE ui \in {"reconcile", "view"} /\ ui' \in {"reconcile", "view"} /\ UNCHANGED <<slot, stop>>
    BY <1>1, <2>2 DEF OwnInv, SlotLive
  <2>3. CASE SetStop \/ JoinRx
    <3>1. ui \notin {"reconcile", "view"} /\ slot' = slot
      BY <2>3 DEF SetStop, JoinRx
    <3> QED
      BY <3>1 DEF OwnInv, SlotLive
  <2> QED
    BY <2>1, <2>2, <2>3 DEF OpenSerialFails, EndFrame, CloseSerial, BeginClose, Reconcile,
                            ReconcileFailed, ReconcileHealthy, connVars
<1> QED
  BY <1>1, <1>2, <1>3, <1>4, <1>5 DEF OwnInv

(* A new connection finds no worker alive: the port was shown as closed.   *)
LEMMA OpenKeepsOwn ==
  ASSUME OwnInv, TypeInv', OpenSerial
  PROVE  OwnInv'
<1> DEFINE n == opened + 1
<1>1. /\ opened' = n /\ conn' = n /\ slot' = n /\ serial_open' = TRUE
      /\ ui' = "reconcile" /\ stop' = stop
      /\ rx' = [rx EXCEPT ![n] = "check"] /\ tx' = [tx EXCEPT ![n] = "check"]
  BY DEF OpenSerial
<1>2. n \in Conn /\ n > opened /\ n # NoConn
  BY SerialAssumption DEF OpenSerial, OwnInv, TypeInv, TypeOK, Conn, NoConn
<1>3. \A c \in Conn : ~Alive(c)
  <2>1. conn = NoConn
    BY DEF OpenSerial, OwnInv
  <2> QED
    BY <2>1, SerialAssumption DEF OwnInv, OnlyConn, Conn, NoConn
<1>4. \A c \in Conn : c # n => rx'[c] = rx[c] /\ tx'[c] = tx[c]
  BY <1>1 DEF OwnInv, TypeInv, TypeOK
<1> HIDE DEF n
<1>5. Fresh'
  <2>1. \A c \in Conn : c > opened' => c > opened /\ c # n
    BY <1>1, <1>2, SerialAssumption DEF OwnInv, TypeInv, TypeOK, Conn
  <2> QED
    BY <1>1, <1>4, <2>1 DEF OwnInv, Fresh
<1>6. OnlyConn'
  BY <1>1, <1>3, <1>4 DEF OnlyConn, Alive
<1>7. SlotLive'
  BY <1>1, <1>2 DEF OwnInv, Fresh, SlotLive
<1>8. RxJoined'
  BY <1>1 DEF RxJoined
<1> QED
  BY <1>1, <1>2, <1>5, <1>6, <1>7, <1>8 DEF OwnInv

(* The last join: both workers have ended when the port becomes closed.    *)
LEMMA JoinTxKeepsOwn ==
  ASSUME OwnInv, TypeInv', JoinTx
  PROVE  OwnInv'
<1>1. /\ ui = "joinTx" /\ conn' = NoConn /\ serial_open' = FALSE /\ ui' = after
      /\ UNCHANGED <<opened, slot, stop, rx, tx>>
  BY DEF JoinTx
<1>2. \A c \in Conn : ~Alive(c)
  BY SerialAssumption DEF JoinTx, OwnInv, OnlyConn, RxJoined, Alive, Conn, NoConn
<1>3. Fresh'
  BY <1>1 DEF OwnInv, Fresh
<1>4. OnlyConn'
  BY <1>1, <1>2 DEF OnlyConn, Alive
<1>5. slot = NoConn
  BY <1>1 DEF OwnInv, SlotLive
<1> QED
  BY <1>1, <1>3, <1>4, <1>5 DEF OwnInv, RxJoined, SlotLive

LEMMA OwnInit == Init => OwnInv
<1> SUFFICES ASSUME Init PROVE OwnInv
  OBVIOUS
<1>1. Fresh /\ OnlyConn
  BY DEF Init, Fresh, OnlyConn, Alive
<1> QED
  BY <1>1, TypeInit DEF Init, OwnInv, RxJoined, SlotLive

LEMMA OwnStep == OwnInv /\ [Next]_vars => OwnInv'
<1> SUFFICES ASSUME OwnInv, [Next]_vars PROVE OwnInv'
  OBVIOUS
<1>1. TypeInv' /\ TypeOK
  BY TypeStep DEF OwnInv, TypeInv
<1>2. CASE UNCHANGED vars
  <2>1. WorkersOnly
    BY <1>2 DEF vars, connVars, WorkersOnly
  <2> QED
    BY <1>1, <2>1, WorkersKeepOwn
<1>3. CASE Next
  <2>1. CASE OpenSerial
    BY <1>1, <2>1, OpenKeepsOwn
  <2>2. CASE OpenSerialFails \/ EndFrame \/ CloseSerial \/ Reconcile \/ SetStop \/ JoinRx
    BY <1>1, <2>2, UiKeepsOwn
  <2>3. CASE JoinTx
    BY <1>1, <2>3, JoinTxKeepsOwn
  <2>4. CASE \/ SubNotifies
             \/ \E c \in Conn : Receiver(c) \/ Transmitter(c) \/ RxPanics(c) \/ TxPanics(c) \/ PortLost(c)
    BY <1>1, <2>4, WorkerSteps, WorkersKeepOwn
  <2> QED
    BY <1>3, <2>1, <2>2, <2>3, <2>4 DEF Next, Close
<1> QED
  BY <1>2, <1>3

LEMMA OwnAlways == Spec => []OwnInv
  BY OwnInit, OwnStep, PTL DEF Spec

(* No worker runs but those of the connection that is shown as open: a     *)
(* close joins both, and an open never overwrites a running thread.        *)
THEOREM OwnedCorrect == Spec => []WorkersOwned
<1>1. OwnInv => WorkersOwned
  BY SerialAssumption DEF OwnInv, OnlyConn, WorkersOwned, Conn, NoConn
<1> QED
  BY <1>1, OwnAlways, PTL

(* The SUB thread's sender belongs to an open connection that nobody has   *)
(* begun to close.                                                         *)
THEOREM SlotCorrect == Spec => []SlotLive
<1>1. OwnInv => SlotLive
  BY DEF OwnInv
<1> QED
  BY <1>1, OwnAlways, PTL

-----------------------------------------------------------------------------
(* What is written after the stop flag.                                    *)

\* A frame written late is the last: the transmitter looks at the flag next.
LastFrame ==
  \A c \in Conn :
    \/ late[c] = 0
    \/ late[c] = 1 /\ stop[c] /\ tx[c] \in {"check", "cast", "leaving", "done"}

\* Steps that write nothing and do not let a late transmitter go on.
NoWrite ==
  /\ late' = late
  /\ \A c \in Conn : stop[c] => stop'[c]
  /\ \A c \in Conn :
       stop[c] /\ tx[c] \in {"check", "cast", "leaving", "done"} =>
         tx'[c] \in {"check", "cast", "leaving", "done"}

LEMMA NoWriteKeeps ==
  ASSUME LastFrame, NoWrite
  PROVE  LastFrame'
  BY DEF LastFrame, NoWrite

(* A transmitter that moves without writing.                               *)
LEMMA TxQuiet ==
  ASSUME TypeOK, NEW c \in Conn,
         TxCheck(c) \/ TxRecv(c) \/ TxDisconnected(c) \/ TxCast(c) \/ TxLeave(c) \/ TxPanics(c)
  PROVE  NoWrite
<1>1. /\ late' = late /\ stop' = stop
      /\ \E where : tx' = [tx EXCEPT ![c] = where]
  BY DEF TxCheck, TxRecv, TxDisconnected, TxCast, TxLeave, TxPanics, TxGoes
<1>2. stop[c] /\ tx[c] \in {"check", "cast", "leaving", "done"} =>
        tx'[c] \in {"check", "leaving", "done"}
  BY DEF TxCheck, TxRecv, TxDisconnected, TxCast, TxLeave, TxPanics, TxGoes, TypeOK
<1> QED
  BY <1>1, <1>2 DEF NoWrite, TypeOK

(* A transmitter that writes.                                              *)
LEMMA TxLoud ==
  ASSUME TypeOK, LastFrame, NEW c \in Conn, TxWrite(c) \/ TxCastWrite(c)
  PROVE  LastFrame'
<1>1. /\ late[c] = 0 /\ stop' = stop
      /\ late' = IF stop[c] THEN [late EXCEPT ![c] = late[c] + 1] ELSE late
      /\ \E where \in {"check", "cast"} : tx' = [tx EXCEPT ![c] = where]
  BY DEF LastFrame, TxWrite, TxCastWrite, TxGoes, Wrote
<1>2. late \in [Conn -> Nat] /\ tx \in [Conn -> TxBusy \cup {"none", "leaving", "done"}]
  BY DEF TypeOK
<1>3. \A d \in Conn : d # c => late'[d] = late[d] /\ tx'[d] = tx[d]
  BY <1>1, <1>2
<1>4. \/ late'[c] = 0
      \/ late'[c] = 1 /\ stop[c] /\ tx'[c] \in {"check", "cast"}
  BY <1>1, <1>2
<1> QED
  BY <1>1, <1>3, <1>4 DEF LastFrame

(* At most one frame goes out after the stop flag is set.                  *)
THEOREM StopCorrect == Spec => []StopsWithinOneFrame
<1> DEFINE inv == OwnInv /\ LastFrame
<1>1. Init => inv
  BY OwnInit DEF Init, LastFrame
<1>2. inv /\ [Next]_vars => inv'
  <2> SUFFICES ASSUME OwnInv, LastFrame, [Next]_vars PROVE LastFrame'
    BY OwnStep
  <2>0. TypeOK
    BY DEF OwnInv, TypeInv
  <2>1. CASE UNCHANGED vars
    BY <2>1, NoWriteKeeps DEF vars, connVars, NoWrite
  <2>2. CASE OpenSerial
    <3>1. late' = late /\ stop' = stop /\ ~stop[opened + 1]
          /\ \A c \in Conn : c # opened + 1 => tx'[c] = tx[c]
      BY <2>2, SerialAssumption DEF OpenSerial, OwnInv, TypeInv, TypeOK, Fresh, Conn
    <3> QED
      BY <3>1, NoWriteKeeps DEF NoWrite
  <2>3. CASE OpenSerialFails \/ EndFrame \/ CloseSerial \/ Reconcile \/ SetStop \/ JoinRx
    <3>1. late' = late /\ tx' = tx /\ \A c \in Conn : stop[c] => stop'[c]
      BY <2>3 DEF OpenSerialFails, EndFrame, CloseSerial, Reconcile, ReconcileFailed,
                  ReconcileHealthy, SetStop, JoinRx, connVars
    <3> QED
      BY <3>1, NoWriteKeeps DEF NoWrite
  <2>6. CASE JoinTx
    <3>1. tx' = tx /\ stop' = stop /\ \A c \in Conn : late'[c] = 0 \/ late'[c] = late[c]
      BY <2>6 DEF JoinTx, Forget
    <3> QED
      BY <3>1 DEF LastFrame
  <2>4. CASE SubNotifies \/ \E c \in Conn : Receiver(c) \/ RxPanics(c) \/ PortLost(c)
    <3>1. UNCHANGED <<late, stop, tx>>
      BY <2>4 DEF SubNotifies, Receiver, RxCheck, RxRead, RxParse, RxLeave, RxPanics, PortLost
    <3> QED
      BY <3>1, NoWriteKeeps DEF NoWrite
  <2>5. ASSUME NEW c \in Conn, Transmitter(c) \/ TxPanics(c) PROVE LastFrame'
    BY <2>0, <2>5, TxQuiet, TxLoud, NoWriteKeeps DEF Transmitter
  <2> QED
    BY <2>1, <2>2, <2>3, <2>4, <2>5, <2>6 DEF Next, Close
<1>3. inv => StopsWithinOneFrame
  BY DEF LastFrame, StopsWithinOneFrame
<1> QED
  BY <1>1, <1>2, <1>3, PTL DEF Spec
-----------------------------------------------------------------------------
(***************************************************************************)
(* SerialFraming.                                                          *)
(***************************************************************************)

-----------------------------------------------------------------------------
(* Induction.                                                              *)

(* A set of numbers that is not empty has a least element.                 *)
LEMMA LeastNumber ==
  ASSUME NEW S \in SUBSET Nat, S # {}
  PROVE  \E n \in S : \A m \in S : n <= m
<1> DEFINE Less == {p \in Nat \X Nat : p[1] < p[2]}
<1>1. IsWellFoundedOn(Less, Nat)
  BY NatLessThanWellFounded DEF OpToRel
<1>2. PICK n \in S : \A m \in S : <<m, n>> \notin Less
  BY <1>1, WFMin, Zenon
<1>3. ASSUME NEW m \in S
      PROVE  n <= m
  <2>1. m \in Nat /\ n \in Nat /\ <<m, n>> \in Nat \X Nat
    OBVIOUS
  <2>2. ~(m < n)
    BY <2>1, <1>2
  <2> QED
    BY <2>1, <2>2
<1> QED
  BY <1>3

(* Induction over the numbers, for a set in place of a predicate.          *)
LEMMA Induction ==
  ASSUME NEW S, 0 \in S, \A n \in Nat : n \in S => n + 1 \in S
  PROVE  \A n \in Nat : n \in S
<1> SUFFICES ASSUME Nat \ S # {}
             PROVE  FALSE
  OBVIOUS
<1>1. PICK n \in Nat \ S : \A m \in Nat \ S : n <= m
  BY LeastNumber
<1>2. n # 0 /\ n - 1 \in Nat
  BY <1>1
<1>3. n - 1 \in S
  BY <1>1, <1>2
<1>4. (n - 1) + 1 \in S
  BY <1>2, <1>3
<1> QED
  BY <1>1, <1>4

-----------------------------------------------------------------------------
(* Check sums and frames.                                                  *)

\* The function that Sum is defined by.
SumUpTo(f, bytes, m) ==
  f = [n \in 0 .. m |-> IF n = 0 THEN 0 ELSE f[n - 1] + bytes[n]]

(* It exists.                                                              *)
LEMMA SumExists ==
  ASSUME NEW bytes \in Seq(Nat), NEW m \in Nat, m <= Len(bytes)
  PROVE  \E f : SumUpTo(f, bytes, m)
<1> DEFINE S == {k \in Nat : k <= Len(bytes) => \E f : SumUpTo(f, bytes, k)}
<1>1. 0 \in S
  <2> DEFINE f == [n \in 0 .. 0 |-> 0]
  <2>1. SumUpTo(f, bytes, 0)
    BY DEF SumUpTo
  <2> QED
    BY <2>1
<1>2. ASSUME NEW k \in Nat, k \in S
      PROVE  k + 1 \in S
  <2> SUFFICES ASSUME k + 1 <= Len(bytes)
               PROVE  \E f : SumUpTo(f, bytes, k + 1)
    OBVIOUS
  <2>1. PICK f : SumUpTo(f, bytes, k)
    BY <1>2
  <2> DEFINE g == [n \in 0 .. k + 1 |-> IF n = k + 1 THEN f[k] + bytes[k + 1] ELSE f[n]]
  <2>2. ASSUME NEW n \in 0 .. k + 1
        PROVE  g[n] = IF n = 0 THEN 0 ELSE g[n - 1] + bytes[n]
    <3>1. CASE n = k + 1
      BY <3>1
    <3>2. CASE n # k + 1
      <4>1. n \in 0 .. k /\ g[n] = f[n]
        BY <3>2
      <4>2. f[n] = IF n = 0 THEN 0 ELSE f[n - 1] + bytes[n]
        BY <2>1, <4>1 DEF SumUpTo
      <4>3. n # 0 => g[n - 1] = f[n - 1]
        BY <4>1
      <4> QED
        BY <4>1, <4>2, <4>3
    <3> QED
      BY <3>1, <3>2
  <2>3. SumUpTo(g, bytes, k + 1)
    BY <2>2 DEF SumUpTo
  <2> QED
    BY <2>3
<1>3. m \in S
  BY <1>1, <1>2, Induction
<1> QED
  BY <1>3

(* A sum of numbers is a number.                                           *)
LEMMA SumType ==
  ASSUME NEW bytes \in Seq(Nat)
  PROVE  Sum(bytes) \in Nat
<1>1. PICK f : SumUpTo(f, bytes, Len(bytes)) /\ Sum(bytes) = f[Len(bytes)]
  <2> DEFINE f == CHOOSE f : SumUpTo(f, bytes, Len(bytes))
  <2>1. SumUpTo(f, bytes, Len(bytes))
    BY SumExists
  <2>2. Sum(bytes) = f[Len(bytes)]
    BY DEF Sum, SumUpTo
  <2> QED
    BY <2>1, <2>2
<1> DEFINE S == {n \in Nat : n <= Len(bytes) => f[n] \in Nat}
<1>2. 0 \in S
  BY <1>1 DEF SumUpTo
<1>3. ASSUME NEW n \in Nat, n \in S
      PROVE  n + 1 \in S
  <2> SUFFICES ASSUME n + 1 <= Len(bytes)
               PROVE  f[n + 1] \in Nat
    OBVIOUS
  <2>1. f[n + 1] = f[n] + bytes[n + 1]
    BY <1>1 DEF SumUpTo
  <2>2. f[n] \in Nat /\ bytes[n + 1] \in Nat
    BY <1>3
  <2> QED
    BY <2>1, <2>2
<1> HIDE DEF S
<1>4. \A n \in Nat : n \in S
  BY <1>2, <1>3, Induction
<1> QED
  BY <1>1, <1>4 DEF S

(* A check sum is a byte.                                                  *)
LEMMA CrcType ==
  ASSUME NEW bytes \in Seq(Byte)
  PROVE  Crc8(bytes) \in Byte /\ Crc16(bytes) \in Byte
<1>1. bytes \in Seq(Nat)
  BY FramingAssumption DEF Byte
<1>2. Sum(bytes) \in Nat
  BY <1>1, SumType
<1> QED
  BY <1>2, FramingAssumption DEF Crc8, Crc16, Byte

(* The part of a sequence that shows another one is that one.              *)
LEMMA Slice ==
  ASSUME NEW S, NEW s \in Seq(S), NEW t \in Seq(S), NEW d \in Nat,
         d + Len(t) <= Len(s), \A k \in 1 .. Len(t) : s[k + d] = t[k]
  PROVE  SubSeq(s, d + 1, d + Len(t)) = t
<1>1. \A k \in d + 1 .. d + Len(t) : s[k] \in S
  OBVIOUS
<1>2. /\ SubSeq(s, d + 1, d + Len(t)) \in Seq(S)
      /\ Len(SubSeq(s, d + 1, d + Len(t))) = Len(t)
      /\ \A k \in 1 .. Len(t) : SubSeq(s, d + 1, d + Len(t))[k] = s[d + 1 + k - 1]
  BY <1>1, SubSeqProperties
<1>3. \A k \in 1 .. Len(t) : SubSeq(s, d + 1, d + Len(t))[k] = t[k]
  BY <1>2
<1> QED
  BY <1>2, <1>3, SeqEqual

(* What is put at the end of a sequence can be taken off again.            *)
LEMMA FrontAndLast ==
  ASSUME NEW S, NEW s \in Seq(S), NEW e \in S
  PROVE  /\ Append(s, e) \in Seq(S) /\ Len(Append(s, e)) = Len(s) + 1
         /\ \A k \in 1 .. Len(s) : Append(s, e)[k] = s[k]
         /\ Front(Append(s, e)) = s /\ Last(Append(s, e)) = e
<1> DEFINE t == Append(s, e)
<1>1. /\ t \in Seq(S) /\ Len(t) = Len(s) + 1
      /\ \A k \in 1 .. Len(s) : t[k] = s[k]
      /\ t[Len(s) + 1] = e
  BY AppendProperties
<1> HIDE DEF t
<1>2. \A k \in 1 .. Len(s) : t[k + 0] = s[k]
  BY <1>1
<1>3. SubSeq(t, 0 + 1, 0 + Len(s)) = s
  BY <1>1, <1>2, Slice
<1>4. Front(t) = s /\ Last(t) = e
  BY <1>1, <1>3 DEF Front, Last
<1> QED
  BY <1>1, <1>4 DEF t

(* The length of a package is that of its data and five bytes more.        *)
LEMMA LengthType ==
  ASSUME NEW n \in Nat
  PROVE  PackageLength(n) = n + 5 /\ PackageLength(n) \in Nat /\ PackageLength(n) >= 5
  BY DEF PackageLength, HeaderLength, CmdIdLength, Crc16Length

(* No package is longer than MaxPackage, whatever byte its length field    *)
(* holds.                                                                  *)
LEMMA LengthBound ==
  ASSUME NEW n \in Byte
  PROVE  /\ n \in Nat /\ PackageLength(n) = n + 5
         /\ PackageLength(n) \in 1 .. MaxPackage /\ PackageLength(n) \in Nat
<1>1. MaxByte \in Nat /\ n \in 0 .. MaxByte
  BY FramingAssumption DEF Byte
<1>2. PackageLength(n) = n + 5 /\ PackageLength(MaxByte) = MaxByte + 5
  BY <1>1, LengthType
<1> QED
  BY <1>1, <1>2 DEF MaxPackage

(* The SOF is a byte.                                                      *)
LEMMA SofIsByte == SOF \in Byte
  BY FramingAssumption DEF SOF, Byte

\* What the parser looks at in a frame that is all there.
WellFormed(package, frame) ==
  /\ package \in Seq(Byte)
  /\ Len(package) = PackageLength(Len(frame.data))
  /\ package[1] = SOF
  /\ package[2] = Len(frame.data)
  /\ VerifyCrc8(SubSeq(package, 1, 3))
  /\ VerifyCrc16(package)
  /\ package[4] = frame.cmd
  /\ SubSeq(package, 5, Len(package) - 1) = frame.data

(* serial_package builds such a frame.                                     *)
LEMMA PackageWellFormed ==
  ASSUME NEW frame, frame.cmd \in Byte, frame.data \in Seq(Byte), Len(frame.data) <= MaxByte
  PROVE  WellFormed(Package(frame), frame)
<1>0. SUFFICES ASSUME NEW n, n = Len(frame.data),
                      NEW cmd, cmd = <<frame.cmd>>,
                      NEW start, start = <<SOF, n>>,
                      NEW header, header = Append(start, Crc8(start)),
                      NEW front, front = header \o cmd,
                      NEW body, body = front \o frame.data,
                      NEW package, package = Append(body, Crc16(body))
               PROVE  WellFormed(package, frame)
  BY DEF Package
<1>1. n \in Nat /\ n \in Byte /\ SOF \in Byte /\ n = Len(frame.data)
  BY <1>0, FramingAssumption, SofIsByte DEF Byte
<1>2. /\ start \in Seq(Byte) /\ Len(start) = 2 /\ start[1] = SOF /\ start[2] = n
      /\ cmd \in Seq(Byte) /\ Len(cmd) = 1 /\ cmd[1] = frame.cmd
  <2>1. start = <<SOF, n>> /\ cmd = <<frame.cmd>>
    BY <1>0
  <2> QED
    BY <1>1, <2>1
<1>3. Crc8(start) \in Byte
  BY <1>2, CrcType
<1>4. /\ header \in Seq(Byte) /\ Len(header) = Len(start) + 1
      /\ \A k \in 1 .. Len(start) : header[k] = start[k]
      /\ Front(header) = start /\ Last(header) = Crc8(start)
  <2>1. header = Append(start, Crc8(start))
    BY <1>0
  <2>2. /\ header \in Seq(Byte) /\ Len(header) = Len(start) + 1
        /\ \A k \in 1 .. Len(start) : header[k] = start[k]
    BY <1>2, <1>3, <2>1, FrontAndLast, Zenon
  <2>3. Front(header) = start /\ Last(header) = Crc8(start)
    BY <1>2, <1>3, <2>1, FrontAndLast, Zenon
  <2> QED
    BY <2>2, <2>3
<1>5. Len(header) = 3 /\ header[1] = SOF /\ header[2] = n
  BY <1>2, <1>4
<1>6. /\ front \in Seq(Byte) /\ Len(front) = 4
      /\ \A k \in 1 .. 4 : front[k] = IF k <= 3 THEN header[k] ELSE cmd[k - 3]
  <2>1. front = header \o cmd
    BY <1>0
  <2>2. /\ front \in Seq(Byte) /\ Len(front) = Len(header) + Len(cmd)
        /\ \A k \in 1 .. Len(header) + Len(cmd) :
             front[k] = IF k <= Len(header) THEN header[k] ELSE cmd[k - Len(header)]
    <3>1. header \in Seq(Byte) /\ cmd \in Seq(Byte)
      BY <1>2, <1>4
    <3> QED
      BY <2>1, <3>1, ConcatProperties, Zenon
  <2>3. Len(header) = 3 /\ Len(cmd) = 1 /\ Len(header) + Len(cmd) = 4
    BY <1>2, <1>5
  <2> QED
    BY <2>2, <2>3, Zenon
<1>7. /\ \A k \in 1 .. 3 : front[k] = header[k]
      /\ front[1] = SOF /\ front[2] = n /\ front[4] = frame.cmd
  BY <1>2, <1>5, <1>6
<1>8. /\ body \in Seq(Byte) /\ Len(body) = 4 + n
      /\ \A k \in 1 .. 4 + n : body[k] = IF k <= 4 THEN front[k] ELSE frame.data[k - 4]
  <2>1. body = front \o frame.data
    BY <1>0
  <2>2. /\ body \in Seq(Byte) /\ Len(body) = Len(front) + Len(frame.data)
        /\ \A k \in 1 .. Len(front) + Len(frame.data) :
             body[k] = IF k <= Len(front) THEN front[k] ELSE frame.data[k - Len(front)]
    BY <1>6, <2>1, ConcatProperties, Zenon
  <2> QED
    BY <1>1, <1>6, <2>2
<1>9. Crc16(body) \in Byte
  BY <1>8, CrcType
<1>10. /\ package \in Seq(Byte) /\ Len(package) = n + 5
       /\ \A k \in 1 .. n + 4 : package[k] = body[k]
       /\ Front(package) = body /\ Last(package) = Crc16(body)
  <2>1. package = Append(body, Crc16(body))
    BY <1>0
  <2>2. /\ package \in Seq(Byte) /\ Len(package) = Len(body) + 1
        /\ \A k \in 1 .. Len(body) : package[k] = body[k]
    BY <1>8, <1>9, <2>1, FrontAndLast, Zenon
  <2>3. Front(package) = body /\ Last(package) = Crc16(body)
    BY <1>8, <1>9, <2>1, FrontAndLast, Zenon
  <2> QED
    BY <1>1, <1>8, <2>2, <2>3
<1>11. \A k \in 1 .. 4 : package[k] = front[k]
  BY <1>1, <1>8, <1>10
<1>12. ASSUME NEW k \in 1 .. Len(frame.data)
       PROVE  package[k + 4] = frame.data[k]
  <2>1. k + 4 \in 1 .. 4 + n /\ k + 4 \in 1 .. n + 4 /\ ~(k + 4 <= 4) /\ (k + 4) - 4 = k
    BY <1>1
  <2> QED
    BY <2>1, <1>8, <1>10
<1>13. VerifyCrc8(SubSeq(package, 1, 3))
  <2>1. 0 + Len(header) <= Len(package)
    BY <1>1, <1>5, <1>10
  <2>2. \A k \in 1 .. Len(header) : package[k + 0] = header[k]
    BY <1>5, <1>7, <1>11
  <2>3. SubSeq(package, 0 + 1, 0 + Len(header)) = header
    BY <1>4, <1>10, <2>1, <2>2, Slice
  <2>4. SubSeq(package, 1, 3) = header
    BY <1>5, <2>3
  <2>5. VerifyCrc8(header)
    BY <1>4 DEF VerifyCrc8
  <2> QED
    BY <2>4, <2>5
<1>14. VerifyCrc16(package)
  BY <1>10 DEF VerifyCrc16
<1>15. SubSeq(package, 5, Len(package) - 1) = frame.data
  <2>1. 4 + Len(frame.data) <= Len(package)
    BY <1>1, <1>10
  <2>2. SubSeq(package, 4 + 1, 4 + Len(frame.data)) = frame.data
    BY <1>10, <1>12, <2>1, Slice
  <2> QED
    BY <1>1, <1>10, <2>2
<1>16. /\ Len(package) = PackageLength(Len(frame.data)) /\ package[1] = SOF
       /\ package[2] = Len(frame.data) /\ package[4] = frame.cmd
  <2>1. PackageLength(n) = n + 5
    BY <1>1, LengthType
  <2> QED
    BY <1>1, <1>7, <1>10, <1>11, <2>1
<1> QED
  BY <1>10, <1>13, <1>14, <1>15, <1>16 DEF WellFormed

-----------------------------------------------------------------------------
(* A turn looks at no byte in front of it and at none that is not there.   *)

\* The bytes of t lie in s, behind d others.
Within(s, t, d) == \A k \in 1 .. Len(t) : k + d <= Len(s) /\ s[k + d] = t[k]

(* A part of t is a part of any s that holds t.                            *)
LEMMA WithinSubSeq ==
  ASSUME NEW s \in Seq(Byte), NEW t \in Seq(Byte), NEW d \in Nat, Within(s, t, d),
         NEW i \in 1 .. Len(t), NEW j \in Int, i <= j, j <= Len(t)
  PROVE  SubSeq(s, i + d, j + d) = SubSeq(t, i, j)
<1> DEFINE part == SubSeq(t, i, j)
<1>1. /\ part \in Seq(Byte) /\ Len(part) = j - i + 1
      /\ \A k \in 1 .. j - i + 1 : part[k] = t[i + k - 1]
  <2>1. \A k \in i .. j : t[k] \in Byte
    OBVIOUS
  <2> QED
    BY <2>1, SubSeqProperties
<1> HIDE DEF part
<1>2. d + i - 1 \in Nat
  OBVIOUS
<1>3. (d + i - 1) + Len(part) <= Len(s)
  BY <1>1 DEF Within
<1>4. ASSUME NEW k \in 1 .. Len(part)
      PROVE  s[k + (d + i - 1)] = part[k]
  <2>1. i + k - 1 \in 1 .. Len(t) /\ (i + k - 1) + d = k + (d + i - 1)
    BY <1>1
  <2>2. s[(i + k - 1) + d] = t[i + k - 1]
    BY <2>1 DEF Within
  <2> QED
    BY <1>1, <2>1, <2>2
<1>5. SubSeq(s, (d + i - 1) + 1, (d + i - 1) + Len(part)) = part
  BY <1>1, <1>2, <1>3, <1>4, Slice
<1>6. (d + i - 1) + 1 = i + d /\ (d + i - 1) + Len(part) = j + d
  BY <1>1
<1> QED
  BY <1>5, <1>6 DEF part

(* A turn consumes something, and nothing that is not there.               *)
LEMMA TurnTakes ==
  ASSUME NEW bytes \in Seq(Byte), NEW i \in Nat \ {0}, ~Incomplete(bytes, i)
  PROVE  /\ i <= Len(bytes)
         /\ Skipped(bytes, i) \in 1 .. MaxPackage
         /\ i + Skipped(bytes, i) <= Len(bytes) + 1
         /\ IsHeaderAt(bytes, i) =>
              /\ i + 2 <= Len(bytes)
              /\ PackageLength(bytes[i + 1]) \in Nat
              /\ PackageLength(bytes[i + 1]) >= 5
              /\ i + PackageLength(bytes[i + 1]) - 1 <= Len(bytes)
              /\ Skipped(bytes, i) = PackageLength(bytes[i + 1])
         /\ ~IsHeaderAt(bytes, i) =>
              /\ Skipped(bytes, i) = 1
              /\ \A p : Stored(bytes, i, p) = <<>>
              /\ bytes[i] = SOF => i + 2 <= Len(bytes)
<1>1. i <= Len(bytes) /\ (bytes[i] = SOF => i + 2 <= Len(bytes))
  BY DEF Incomplete, HeaderLength
<1>2. MaxByte \in Nat /\ MaxPackage = MaxByte + 5
  BY FramingAssumption, LengthType DEF MaxPackage
<1>3. CASE IsHeaderAt(bytes, i)
  <2>1. i + 2 <= Len(bytes)
    BY <1>3 DEF IsHeaderAt, HeaderLength
  <2>2. bytes[i + 1] \in Byte
    BY <2>1
  <2>3. bytes[i + 1] \in Nat /\ bytes[i + 1] <= MaxByte
    BY <1>2, <2>2 DEF Byte
  <2>4. /\ PackageLength(bytes[i + 1]) = bytes[i + 1] + 5
        /\ PackageLength(bytes[i + 1]) \in 1 .. MaxPackage
    BY <2>2, LengthBound
  <2>5. ~(i + PackageLength(bytes[i + 1]) - 1 > Len(bytes))
    BY <1>1, <1>3 DEF Incomplete
  <2>6. Skipped(bytes, i) = PackageLength(bytes[i + 1])
    BY <1>3 DEF Skipped
  <2> QED
    BY <1>1, <1>2, <1>3, <2>1, <2>3, <2>4, <2>5, <2>6
<1>4. CASE ~IsHeaderAt(bytes, i)
  <2>1. Skipped(bytes, i) = 1 /\ \A p : Stored(bytes, i, p) = <<>>
    BY <1>4 DEF Skipped, Stored
  <2> QED
    BY <1>1, <1>2, <1>4, <2>1
<1> QED
  BY <1>3, <1>4

(* Where there are more bytes in front or behind, a turn does the same.    *)
LEMMA TurnWithin ==
  ASSUME NEW s \in Seq(Byte), NEW t \in Seq(Byte), NEW d \in Nat, Within(s, t, d),
         NEW i \in Nat \ {0}, ~Incomplete(t, i)
  PROVE  /\ ~Incomplete(s, i + d)
         /\ Skipped(s, i + d) = Skipped(t, i)
         /\ \A p : Stored(s, i + d, p) = Stored(t, i, p)
<1>1. i \in 1 .. Len(t) /\ Len(t) \in Nat /\ Len(s) \in Nat
  BY TurnTakes
<1>2. i + d <= Len(s) /\ s[i + d] = t[i]
  BY <1>1 DEF Within
<1>3. ASSUME i + 2 <= Len(t)
      PROVE  HeaderAt(s, i + d) = HeaderAt(t, i) /\ (i + d) + 2 <= Len(s) /\ s[(i + d) + 1] = t[i + 1]
  <2>1. /\ i + 2 \in 1 .. Len(t) /\ i + 1 \in 1 .. Len(t)
        /\ i + 2 \in Int /\ i <= i + 2 /\ i + 2 <= Len(t)
    BY <1>1, <1>3
  <2>2. (i + 2) + d <= Len(s) /\ s[(i + 1) + d] = t[i + 1]
    BY <2>1 DEF Within
  <2>3. SubSeq(s, i + d, (i + 2) + d) = SubSeq(t, i, i + 2)
    <3>1. i \in 1 .. Len(t) /\ i + 2 \in Int /\ i <= i + 2 /\ i + 2 <= Len(t)
      BY <1>1, <2>1
    <3> QED
      BY <3>1, WithinSubSeq, Zenon
  <2>4. (i + 2) + d = (i + d) + 3 - 1 /\ i + 2 = i + 3 - 1 /\ (i + 1) + d = (i + d) + 1
    BY <1>1
  <2> QED
    BY <1>1, <2>2, <2>3, <2>4 DEF HeaderAt, HeaderLength
<1>4. CASE IsHeaderAt(t, i)
  <2> DEFINE n == PackageLength(t[i + 1])
  <2>1. i + 2 <= Len(t) /\ n \in Nat /\ n >= 5 /\ i + n - 1 <= Len(t)
    BY <1>4, TurnTakes
  <2>2. /\ HeaderAt(s, i + d) = HeaderAt(t, i) /\ (i + d) + 2 <= Len(s)
        /\ s[(i + d) + 1] = t[i + 1]
    BY <1>3, <2>1
  <2>3. IsHeaderAt(s, i + d)
    <3>1. t[i] = SOF /\ VerifyCrc8(HeaderAt(t, i))
      BY <1>4 DEF IsHeaderAt
    <3>2. (i + d) + HeaderLength - 1 <= Len(s)
      BY <2>2, <1>1 DEF HeaderLength
    <3> QED
      BY <1>2, <2>2, <3>1, <3>2 DEF IsHeaderAt
  <2>4. PackageLength(s[(i + d) + 1]) = n
    BY <2>2
  <2> HIDE DEF n
  <2>5. (i + n - 1) + d <= Len(s)
    <3>1. i + n - 1 \in 1 .. Len(t)
      BY <1>1, <2>1
    <3> QED
      BY <3>1 DEF Within
  <2>6. PackageAt(s, i + d) = PackageAt(t, i)
    <3>1. SubSeq(s, i + d, (i + n - 1) + d) = SubSeq(t, i, i + n - 1)
      BY <1>1, <2>1, WithinSubSeq
    <3>2. (i + n - 1) + d = (i + d) + n - 1
      BY <1>1, <2>1
    <3>3. PackageAt(t, i) = SubSeq(t, i, i + n - 1)
      BY DEF PackageAt, n
    <3>4. PackageAt(s, i + d) = SubSeq(s, i + d, (i + d) + n - 1)
      BY <2>4 DEF PackageAt
    <3> QED
      BY <3>1, <3>2, <3>3, <3>4
  <2>7. ~Incomplete(s, i + d)
    <3>1. (i + d) + n - 1 <= Len(s) /\ ~((i + d) + n - 1 > Len(s))
      BY <1>1, <2>1, <2>5
    <3>2. ~((i + d) + HeaderLength - 1 > Len(s))
      BY <1>1, <2>2 DEF HeaderLength
    <3> QED
      BY <1>2, <2>4, <3>1, <3>2 DEF Incomplete
  <2>8. Skipped(s, i + d) = n /\ Skipped(t, i) = n
    BY <1>4, <2>3, <2>4 DEF Skipped, n
  <2>9. ASSUME NEW p
        PROVE  Stored(s, i + d, p) = Stored(t, i, p)
    BY <1>4, <2>3, <2>6 DEF Stored
  <2> QED
    BY <2>7, <2>8, <2>9
<1>5. CASE ~IsHeaderAt(t, i)
  <2>1. ~IsHeaderAt(s, i + d) /\ (s[i + d] = SOF => (i + d) + 2 <= Len(s))
    <3>1. CASE t[i] # SOF
      BY <1>2, <3>1 DEF IsHeaderAt
    <3>2. CASE t[i] = SOF
      <4>1. i + 2 <= Len(t)
        BY <1>5, <3>2, TurnTakes
      <4>2. ~VerifyCrc8(HeaderAt(t, i))
        BY <1>1, <1>5, <3>2, <4>1 DEF IsHeaderAt, HeaderLength
      <4> QED
        BY <1>3, <4>1, <4>2 DEF IsHeaderAt
    <3> QED
      BY <3>1, <3>2
  <2>2. ~Incomplete(s, i + d)
    BY <1>1, <1>2, <2>1 DEF Incomplete, HeaderLength
  <2> QED
    BY <1>5, <2>1, <2>2 DEF Skipped, Stored
<1> QED
  BY <1>4, <1>5

(* A turn that needed no further bytes takes the same of a longer stream.  *)
LEMMA TurnExtend ==
  ASSUME NEW s \in Seq(Byte), NEW t \in Seq(Byte), Within(s, t, 0),
         NEW i \in Nat \ {0}, ~Incomplete(t, i)
  PROVE  /\ ~Incomplete(s, i)
         /\ Skipped(s, i) = Skipped(t, i)
         /\ \A p : Stored(s, i, p) = Stored(t, i, p)
<1>0. SUFFICES ASSUME NEW d, d = 0, NEW j, j = i + d
               PROVE  /\ ~Incomplete(s, j)
                      /\ Skipped(s, j) = Skipped(t, i)
                      /\ \A p : Stored(s, j, p) = Stored(t, i, p)
  <2>1. i + 0 = i
    OBVIOUS
  <2> QED
    BY <2>1
<1>1. d \in Nat /\ Within(s, t, d)
  BY <1>0
<1>2. /\ ~Incomplete(s, i + d)
      /\ Skipped(s, i + d) = Skipped(t, i)
      /\ \A p : Stored(s, i + d, p) = Stored(t, i, p)
  BY <1>1, TurnWithin
<1> QED
  BY <1>0, <1>2

(* Bytes in front alone do not let it go on.                               *)
LEMMA StopWithin ==
  ASSUME NEW s \in Seq(Byte), NEW t \in Seq(Byte), NEW d \in Nat, Within(s, t, d),
         Len(s) = Len(t) + d, NEW i \in Nat \ {0}, Incomplete(t, i)
  PROVE  Incomplete(s, i + d)
<1>1. Len(t) \in Nat /\ Len(s) \in Nat
  OBVIOUS
<1>2. CASE i > Len(t)
  BY <1>1, <1>2 DEF Incomplete
<1>3. CASE i <= Len(t)
  <2>1. i + d <= Len(s) /\ s[i + d] = t[i]
    BY <1>1, <1>3 DEF Within
  <2>2. CASE t[i] = SOF /\ i + 2 > Len(t)
    BY <1>1, <2>1, <2>2 DEF Incomplete, HeaderLength
  <2>3. CASE IsHeaderAt(t, i) /\ i + 2 <= Len(t) /\ i + PackageLength(t[i + 1]) - 1 > Len(t)
    <3>1. /\ i \in 1 .. Len(t) /\ i + 2 \in 1 .. Len(t) /\ i + 1 \in 1 .. Len(t)
          /\ i + 2 \in Int /\ i <= i + 2 /\ i + 2 <= Len(t)
      BY <1>1, <1>3, <2>3
    <3>2. (i + 2) + d <= Len(s) /\ s[(i + 1) + d] = t[i + 1]
      BY <3>1 DEF Within
    <3>3. SubSeq(s, i + d, (i + 2) + d) = SubSeq(t, i, i + 2)
      BY <3>1, WithinSubSeq, Zenon
    <3>4. (i + 2) + d = (i + d) + 3 - 1 /\ i + 2 = i + 3 - 1 /\ (i + 1) + d = (i + d) + 1
      BY <1>1
    <3>5. HeaderAt(s, i + d) = HeaderAt(t, i) /\ s[(i + d) + 1] = t[i + 1]
      BY <3>2, <3>3, <3>4 DEF HeaderAt, HeaderLength
    <3>6. IsHeaderAt(s, i + d)
      BY <1>1, <2>1, <2>3, <3>2, <3>4, <3>5 DEF IsHeaderAt, HeaderLength
    <3>7. t[i + 1] \in Byte /\ t[i + 1] \in Nat
      <4>1. t[i + 1] \in Byte
        BY <3>1
      <4> QED
        BY <4>1, LengthBound
    <3>8. PackageLength(t[i + 1]) \in Nat
      BY <3>7, LengthType
    <3>9. (i + d) + PackageLength(s[(i + d) + 1]) - 1 > Len(s)
      BY <1>1, <2>3, <3>5, <3>8
    <3> QED
      BY <3>6, <3>9 DEF Incomplete
  <2> QED
    BY <1>1, <1>3, <2>2, <2>3 DEF Incomplete, IsHeaderAt, HeaderLength
<1> QED
  BY <1>1, <1>2, <1>3

-----------------------------------------------------------------------------
(* What is stored.                                                         *)

Item == [at : Nat, cmd : Byte, data : Seq(Byte)]

(* Joining sequences in either order.                                      *)
Regroups(x, y, z) == (x \o y) \o z = x \o (y \o z)

LEMMA Regrouping ==
  ASSUME NEW S, NEW x \in Seq(S), NEW y \in Seq(S), NEW z \in Seq(S)
  PROVE  Regroups(x, y, z)
<1>1. (x \o y) \o z = x \o (y \o z)
  BY SMT
<1> QED
  BY <1>1 DEF Regroups

(* Sequences of one element.                                               *)
LEMMA Singleton ==
  ASSUME NEW S, NEW e \in S
  PROVE  <<e>> \in Seq(S) /\ Len(<<e>>) = 1 /\ <<e>>[1] = e
  OBVIOUS

(* A turn stores items.                                                    *)
LEMMA StoredType ==
  ASSUME NEW bytes \in Seq(Byte), NEW i \in Nat \ {0}, ~Incomplete(bytes, i), NEW p \in Nat
  PROVE  Stored(bytes, i, p) \in Seq(Item)
<1>1. CASE IsHeaderAt(bytes, i)
  <2> DEFINE n == PackageLength(bytes[i + 1])
             package == PackageAt(bytes, i)
             data == SubSeq(package, HeaderLength + CmdIdLength + 1, Len(package) - Crc16Length)
  <2>1. i + 2 <= Len(bytes) /\ n \in Nat /\ n >= 5 /\ i + n - 1 <= Len(bytes)
    BY <1>1, TurnTakes
  <2>2. package = SubSeq(bytes, i, i + n - 1)
    BY DEF PackageAt
  <2> HIDE DEF n, package
  <2>3. package \in Seq(Byte) /\ Len(package) = n
    <3>1. \A k \in i .. i + n - 1 : bytes[k] \in Byte
      BY <2>1
    <3> QED
      BY <2>1, <2>2, <3>1, SubSeqProperties
  <2>4. package[HeaderLength + 1] \in Byte
    BY <2>1, <2>3 DEF HeaderLength
  <2>5. data \in Seq(Byte)
    <3>1. \A k \in 5 .. n - 1 : package[k] \in Byte
      BY <2>1, <2>3
    <3>2. SubSeq(package, 5, n - 1) \in Seq(Byte)
      BY <2>1, <3>1, SubSeqProperties
    <3> QED
      BY <2>3, <3>2 DEF HeaderLength, CmdIdLength, Crc16Length
  <2> HIDE DEF data
  <2> DEFINE item == [at |-> p, cmd |-> package[HeaderLength + 1], data |-> data]
  <2>6. Stored(bytes, i, p) \in {<<>>, <<item>>}
    BY DEF Stored, package, data
  <2>7. item \in Item
    BY <2>4, <2>5 DEF Item
  <2> HIDE DEF item
  <2>8. <<>> \in Seq(Item) /\ <<item>> \in Seq(Item)
    BY <2>7, Singleton
  <2> QED
    BY <2>6, <2>8
<1>2. CASE ~IsHeaderAt(bytes, i)
  BY <1>2 DEF Stored
<1> QED
  BY <1>1, <1>2

-----------------------------------------------------------------------------
(* The reference pass.                                                     *)

\* One step of it.
ScanBody(f, bytes, i) ==
  IF Incomplete(bytes, i)
  THEN [stored |-> <<>>, rest |-> Rest(bytes, i)]
  ELSE [stored |-> Stored(bytes, i, i) \o f[i + Skipped(bytes, i)].stored,
        rest |-> f[i + Skipped(bytes, i)].rest]

\* The function that Scan is defined by, from the last m places on.
ScanFrom(f, bytes, m) ==
  f = [i \in Len(bytes) + 2 - m .. Len(bytes) + 1 |-> ScanBody(f, bytes, i)]

(* It exists.                                                              *)
LEMMA ScanExists ==
  ASSUME NEW bytes \in Seq(Byte), NEW m \in Nat, m <= Len(bytes) + 1
  PROVE  \E f : ScanFrom(f, bytes, m)
<1> DEFINE S == {k \in Nat : k <= Len(bytes) + 1 => \E f : ScanFrom(f, bytes, k)}
<1>1. 0 \in S
  <2> DEFINE f == [i \in Len(bytes) + 2 .. Len(bytes) + 1 |-> 0]
  <2>1. \A i : i \notin Len(bytes) + 2 .. Len(bytes) + 1
    OBVIOUS
  <2>2. ScanFrom(f, bytes, 0)
    BY <2>1 DEF ScanFrom
  <2> QED
    BY <2>2
<1>2. ASSUME NEW k \in Nat, k \in S
      PROVE  k + 1 \in S
  <2>0. SUFFICES ASSUME k + 1 <= Len(bytes) + 1
                 PROVE  \E f : ScanFrom(f, bytes, k + 1)
    OBVIOUS
  <2>1. PICK f : ScanFrom(f, bytes, k)
    BY <1>2, <2>0
  <2> DEFINE first == Len(bytes) + 1 - k
             g == [i \in first .. Len(bytes) + 1 |->
                     IF i = first THEN ScanBody(f, bytes, first) ELSE f[i]]
  <2>2. first \in Nat \ {0} /\ first <= Len(bytes) + 1 /\ first = Len(bytes) + 2 - (k + 1)
        /\ Len(bytes) + 2 - k = first + 1
    BY <2>0
  <2>3. ASSUME NEW i \in first .. Len(bytes) + 1
        PROVE  g[i] = ScanBody(g, bytes, i)
    <3>1. g[i] = ScanBody(f, bytes, i)
      <4>1. CASE i = first
        BY <4>1
      <4>2. CASE i # first
        <5>1. i \in Len(bytes) + 2 - k .. Len(bytes) + 1
          BY <2>2, <4>2
        <5>2. f[i] = ScanBody(f, bytes, i)
          BY <2>1, <5>1 DEF ScanFrom
        <5> QED
          BY <4>2, <5>2
      <4> QED
        BY <4>1, <4>2
    <3>2. CASE Incomplete(bytes, i)
      BY <3>1, <3>2 DEF ScanBody
    <3>3. CASE ~Incomplete(bytes, i)
      <4>1. i \in Nat \ {0}
        BY <2>2
      <4>2. Skipped(bytes, i) \in Nat \ {0} /\ i + Skipped(bytes, i) <= Len(bytes) + 1
        BY <3>3, <4>1, TurnTakes
      <4>3. i + Skipped(bytes, i) \in first .. Len(bytes) + 1 /\ i + Skipped(bytes, i) # first
        BY <2>2, <4>1, <4>2
      <4>4. g[i + Skipped(bytes, i)] = f[i + Skipped(bytes, i)]
        BY <4>3
      <4> HIDE DEF g, first
      <4> QED
        BY <3>1, <3>3, <4>4 DEF ScanBody
    <3> QED
      BY <3>2, <3>3
  <2>4. ScanFrom(g, bytes, k + 1)
    BY <2>2, <2>3 DEF ScanFrom
  <2> QED
    BY <2>4
<1> HIDE DEF S
<1>3. m \in S
  BY <1>1, <1>2, Induction
<1> QED
  BY <1>3 DEF S

(* Scan takes one step, then goes on from there.                           *)
LEMMA ScanStep ==
  ASSUME NEW bytes \in Seq(Byte), NEW i \in 1 .. Len(bytes) + 1
  PROVE  Scan(bytes)[i] = ScanBody(Scan(bytes), bytes, i)
<1> DEFINE f == CHOOSE f : ScanFrom(f, bytes, Len(bytes) + 1)
<1>1. Len(bytes) + 1 \in Nat /\ Len(bytes) + 2 - (Len(bytes) + 1) = 1
  OBVIOUS
<1>2. ScanFrom(f, bytes, Len(bytes) + 1)
  BY <1>1, ScanExists
<1>3. Scan(bytes) = CHOOSE g : g = [j \in 1 .. Len(bytes) + 1 |-> ScanBody(g, bytes, j)]
  BY DEF Scan, ScanBody
<1>4. \A g : ScanFrom(g, bytes, Len(bytes) + 1)
        <=> g = [j \in 1 .. Len(bytes) + 1 |-> ScanBody(g, bytes, j)]
  BY <1>1 DEF ScanFrom
<1>5. Scan(bytes) = [j \in 1 .. Len(bytes) + 1 |-> ScanBody(Scan(bytes), bytes, j)]
  BY <1>2, <1>3, <1>4
<1> QED
  BY <1>5

(* Where the parser goes on, Scan is that turn and what comes after it.    *)
LEMMA ScanTurn ==
  ASSUME NEW bytes \in Seq(Byte), NEW i \in 1 .. Len(bytes) + 1, ~Incomplete(bytes, i),
         NEW j, j = i + Skipped(bytes, i)
  PROVE  /\ j \in i + 1 .. Len(bytes) + 1
         /\ Scan(bytes)[i].stored = Stored(bytes, i, i) \o Scan(bytes)[j].stored
         /\ Scan(bytes)[i].rest = Scan(bytes)[j].rest
<1>1. i \in Nat \ {0}
  OBVIOUS
<1>2. j \in i + 1 .. Len(bytes) + 1
  BY <1>1, TurnTakes
<1>3. Scan(bytes)[i] = [stored |-> Stored(bytes, i, i) \o Scan(bytes)[j].stored,
                        rest |-> Scan(bytes)[j].rest]
  BY ScanStep DEF ScanBody
<1>4. Scan(bytes)[i].stored = Stored(bytes, i, i) \o Scan(bytes)[j].stored
  BY <1>3
<1>5. Scan(bytes)[i].rest = Scan(bytes)[j].rest
  BY <1>3
<1> QED
  BY <1>2, <1>4, <1>5, Zenon

(* Induction from the end of a stretch of numbers.                         *)
LEMMA Downward ==
  ASSUME NEW n \in Nat, NEW S,
         \A i \in 1 .. n : (\A j \in i + 1 .. n : j \in S) => i \in S
  PROVE  \A i \in 1 .. n : i \in S
<1> SUFFICES ASSUME NEW i \in 1 .. n, i \notin S
             PROVE  FALSE
  OBVIOUS
<1> DEFINE Bad == {n - j : j \in {j \in 1 .. n : j \notin S}}
<1>1. Bad \in SUBSET Nat /\ n - i \in Bad
  OBVIOUS
<1>2. PICK k \in Bad : \A m \in Bad : k <= m
  BY <1>1, LeastNumber
<1>3. PICK j \in 1 .. n : j \notin S /\ k = n - j
  BY <1>2
<1>4. ASSUME NEW l \in j + 1 .. n
      PROVE  l \in S
  <2>1. l \in 1 .. n /\ n - l < k
    BY <1>3, <1>4
  <2>2. n - l \notin Bad
    <3>1. n - l \in Nat /\ k \in Nat /\ ~(k <= n - l)
      BY <1>1, <1>3, <2>1
    <3> QED
      BY <1>2, <3>1
  <2> QED
    BY <2>1, <2>2
<1> QED
  BY <1>3, <1>4

(* Where the pass from i stops, it leaves the bytes from there on.         *)
Stop(bytes, i) == Len(bytes) + 1 - Len(Scan(bytes)[i].rest)

(* What one pass stores and where it stops: nowhere but where it began if  *)
(* the bytes there are incomplete.                                         *)
LEMMA ScanType ==
  ASSUME NEW bytes \in Seq(Byte), NEW i \in 1 .. Len(bytes) + 1
  PROVE  /\ Scan(bytes)[i].stored \in Seq(Item)
         /\ Stop(bytes, i) \in i .. Len(bytes) + 1
         /\ Incomplete(bytes, i) => Stop(bytes, i) = i /\ Scan(bytes)[i].stored = <<>>
<1> DEFINE S == {k \in 1 .. Len(bytes) + 1 : Scan(bytes)[k].stored \in Seq(Item)
                                              /\ Stop(bytes, k) \in k .. Len(bytes) + 1}
<1>1. ASSUME NEW k \in 1 .. Len(bytes) + 1, Incomplete(bytes, k)
      PROVE  Stop(bytes, k) = k /\ Scan(bytes)[k].stored = <<>>
  <2>1. Scan(bytes)[k] = [stored |-> <<>>, rest |-> Rest(bytes, k)]
    BY <1>1, ScanStep DEF ScanBody
  <2>2. Len(Rest(bytes, k)) = Len(bytes) + 1 - k
    <3>1. \A j \in k .. Len(bytes) : bytes[j] \in Byte
      OBVIOUS
    <3> QED
      BY <3>1, SubSeqProperties DEF Rest
  <2> QED
    BY <2>1, <2>2 DEF Stop
<1>2. ASSUME NEW k \in 1 .. Len(bytes) + 1, \A j \in k + 1 .. Len(bytes) + 1 : j \in S
      PROVE  k \in S
  <2>1. CASE Incomplete(bytes, k)
    <3>1. Stop(bytes, k) = k /\ Scan(bytes)[k].stored = <<>> /\ k \in k .. Len(bytes) + 1
      BY <1>1, <2>1
    <3>2. <<>> \in Seq(Item)
      OBVIOUS
    <3> QED
      BY <3>1, <3>2
  <2>2. CASE ~Incomplete(bytes, k)
    <3> DEFINE j == k + Skipped(bytes, k)
    <3>1. k \in Nat \ {0} /\ k \in Nat
      OBVIOUS
    <3>2. j \in k + 1 .. Len(bytes) + 1
      BY <2>2, ScanTurn
    <3>3. /\ Scan(bytes)[k].stored = Stored(bytes, k, k) \o Scan(bytes)[j].stored
          /\ Scan(bytes)[k].rest = Scan(bytes)[j].rest
      BY <2>2, ScanTurn
    <3> HIDE DEF j
    <3>4. j \in S
      BY <1>2, <3>2
    <3>5. Stored(bytes, k, k) \in Seq(Item)
      BY <2>2, <3>1, StoredType
    <3>6. Scan(bytes)[k].stored \in Seq(Item)
      BY <3>3, <3>4, <3>5
    <3>7. Stop(bytes, k) = Stop(bytes, j)
      BY <3>3 DEF Stop
    <3> QED
      BY <3>2, <3>4, <3>6, <3>7
  <2> QED
    BY <2>1, <2>2
<1> HIDE DEF S
<1>3. Len(bytes) + 1 \in Nat
  OBVIOUS
<1>4. i \in S
  BY <1>2, <1>3, Downward
<1> QED
  BY <1>1, <1>4 DEF S

(* A pass over a longer stream goes on where the one over the shorter      *)
(* stopped.                                                                *)
Resumes(s, t, i) ==
  /\ Scan(t)[i].stored = Scan(s)[i].stored \o Scan(t)[Stop(s, i)].stored
  /\ Scan(t)[i].rest = Scan(t)[Stop(s, i)].rest

LEMMA ScanExtend ==
  ASSUME NEW s \in Seq(Byte), NEW u \in Seq(Byte), NEW t \in Seq(Byte), t = s \o u,
         NEW i \in 1 .. Len(s) + 1
  PROVE  Resumes(s, t, i)
<1> DEFINE S == {k \in 1 .. Len(s) + 1 :
                   /\ Scan(t)[k].stored = Scan(s)[k].stored \o Scan(t)[Stop(s, k)].stored
                   /\ Scan(t)[k].rest = Scan(t)[Stop(s, k)].rest}
<1>0. Len(s) \in Nat /\ Len(t) \in Nat /\ Len(s) <= Len(t) /\ Within(t, s, 0)
  <2>1. /\ Len(t) = Len(s) + Len(u)
        /\ \A k \in 1 .. Len(s) + Len(u) : t[k] = IF k <= Len(s) THEN s[k] ELSE u[k - Len(s)]
    BY ConcatProperties, Zenon
  <2> QED
    BY <2>1 DEF Within
<1>1. ASSUME NEW k \in 1 .. Len(s) + 1
      PROVE  /\ k \in 1 .. Len(t) + 1 /\ k \in Nat \ {0} /\ k \in Nat /\ k + 0 = k
             /\ Scan(t)[k].stored \in Seq(Item) /\ Scan(s)[k].stored \in Seq(Item)
  <2>1. k \in 1 .. Len(t) + 1
    BY <1>0
  <2>2. Scan(t)[k].stored \in Seq(Item) /\ Scan(s)[k].stored \in Seq(Item)
    BY <2>1, ScanType
  <2>3. k \in Nat \ {0} /\ k \in Nat /\ k + 0 = k
    OBVIOUS
  <2> QED
    BY <2>1, <2>2, <2>3
<1>2. ASSUME NEW k \in 1 .. Len(s) + 1, \A j \in k + 1 .. Len(s) + 1 : j \in S
      PROVE  k \in S
  <2>1. CASE Incomplete(s, k)
    <3>1. Stop(s, k) = k /\ Scan(s)[k].stored = <<>>
      BY <2>1, ScanType
    <3>2. <<>> \o Scan(t)[k].stored = Scan(t)[k].stored
      BY <1>1, ConcatEmptySeq, Zenon
    <3> QED
      BY <3>1, <3>2
  <2>2. CASE ~Incomplete(s, k)
    <3> DEFINE j == k + Skipped(s, k)
    <3>1. /\ j \in k + 1 .. Len(s) + 1
          /\ Scan(s)[k].stored = Stored(s, k, k) \o Scan(s)[j].stored
          /\ Scan(s)[k].rest = Scan(s)[j].rest
      BY <2>2, ScanTurn
    <3>2. /\ ~Incomplete(t, k) /\ Skipped(t, k) = Skipped(s, k)
          /\ Stored(t, k, k) = Stored(s, k, k)
      <4>1. k \in Nat \ {0}
        OBVIOUS
      <4> QED
        <5>1. Within(t, s, 0)
          BY <1>0
        <5>2. /\ ~Incomplete(t, k) /\ Skipped(t, k) = Skipped(s, k)
              /\ \A p : Stored(t, k, p) = Stored(s, k, p)
          BY <2>2, <4>1, <5>1, TurnExtend
        <5> QED
          BY <5>2
    <3>4. /\ Scan(t)[k].stored = Stored(s, k, k) \o Scan(t)[j].stored
          /\ Scan(t)[k].rest = Scan(t)[j].rest
      <4>1. k \in 1 .. Len(t) + 1 /\ j = k + Skipped(t, k)
        BY <1>1, <3>2
      <4>2. /\ Scan(t)[k].stored = Stored(t, k, k) \o Scan(t)[j].stored
            /\ Scan(t)[k].rest = Scan(t)[j].rest
        BY <3>2, <4>1, ScanTurn
      <4> QED
        BY <3>2, <4>2
    <3> HIDE DEF j
    <3>5. j \in S /\ j \in 1 .. Len(s) + 1
      BY <1>2, <3>1
    <3>6. Stop(s, k) = Stop(s, j) /\ Stop(s, j) \in 1 .. Len(s) + 1
      <4>1. Stop(s, k) = Stop(s, j)
        BY <3>1 DEF Stop
      <4>2. Stop(s, j) \in j .. Len(s) + 1
        BY <3>5, ScanType
      <4> QED
        BY <3>5, <4>1, <4>2
    <3> DEFINE one == Stored(s, k, k)
               two == Scan(s)[j].stored
               three == Scan(t)[Stop(s, j)].stored
    <3>7. one \in Seq(Item) /\ two \in Seq(Item) /\ three \in Seq(Item)
      <4>1. k \in Nat \ {0} /\ k \in Nat
        BY <1>1
      <4>2. one \in Seq(Item)
        BY <2>2, <4>1, StoredType
      <4> QED
        BY <1>1, <3>5, <3>6, <4>2
    <3>8. Scan(t)[j].stored = two \o three /\ Scan(t)[j].rest = Scan(t)[Stop(s, j)].rest
      BY <3>5
    <3>9. Scan(s)[k].stored = one \o two /\ Scan(t)[k].stored = one \o Scan(t)[j].stored
          /\ Scan(t)[k].rest = Scan(t)[j].rest
      BY <3>1, <3>4
    <3> HIDE DEF one, two, three
    <3>10. (one \o two) \o three = one \o (two \o three)
      <4>1. Regroups(one, two, three)
        BY <3>7, Regrouping
      <4> QED
        BY <4>1 DEF Regroups
    <3>11. /\ Scan(t)[k].stored = Scan(s)[k].stored \o three
           /\ Scan(t)[k].rest = Scan(t)[Stop(s, j)].rest
      BY <3>8, <3>9, <3>10
    <3>12. three = Scan(t)[Stop(s, k)].stored
      BY <3>6 DEF three
    <3> QED
      BY <3>6, <3>11, <3>12
  <2> QED
    BY <2>1, <2>2
<1> HIDE DEF S
<1>3. Len(s) + 1 \in Nat
  OBVIOUS
<1>4. i \in S
  BY <1>2, <1>3, Downward
<1> QED
  BY <1>4 DEF S, Resumes

-----------------------------------------------------------------------------
(* Where the bytes of the line and of the buffer lie in the stream.        *)

\* t is the end of s, behind d bytes.
Suffix(s, t, d) ==
  /\ s \in Seq(Byte) /\ t \in Seq(Byte) /\ d \in Nat
  /\ Len(s) = Len(t) + d
  /\ Within(s, t, d)

(* The length of a joined sequence.                                        *)
LEMMA ConcatLength ==
  ASSUME NEW s \in Seq(Byte), NEW u \in Seq(Byte)
  PROVE  /\ s \o u \in Seq(Byte) /\ Len(s \o u) = Len(s) + Len(u)
         /\ Len(s) \in Nat /\ Len(u) \in Nat
  BY ConcatProperties

(* Both grow by the same bytes.                                            *)
LEMMA SuffixConcat ==
  ASSUME NEW s, NEW t, NEW u \in Seq(Byte), NEW d, Suffix(s, t, d)
  PROVE  Suffix(s \o u, t \o u, d)
<1>0. SUFFICES ASSUME NEW x, x = s \o u, NEW y, y = t \o u
               PROVE  Suffix(x, y, d)
  OBVIOUS
<1>s. s \in Seq(Byte) /\ t \in Seq(Byte) /\ d \in Nat /\ Within(s, t, d) /\ Len(s) = Len(t) + d
  BY DEF Suffix
<1>1. /\ x \in Seq(Byte) /\ Len(x) = Len(s) + Len(u)
      /\ \A k \in 1 .. Len(s) + Len(u) : x[k] = IF k <= Len(s) THEN s[k] ELSE u[k - Len(s)]
  BY <1>0, <1>s, ConcatProperties, Zenon
<1>2. /\ y \in Seq(Byte) /\ Len(y) = Len(t) + Len(u)
      /\ \A k \in 1 .. Len(t) + Len(u) : y[k] = IF k <= Len(t) THEN t[k] ELSE u[k - Len(t)]
  BY <1>0, <1>s, ConcatProperties, Zenon
<1>3. Len(s) \in Nat /\ Len(t) \in Nat /\ Len(u) \in Nat
  BY <1>s
<1>4. ASSUME NEW k \in 1 .. Len(y)
      PROVE  k + d <= Len(x) /\ x[k + d] = y[k]
  <2>1. k \in 1 .. Len(t) + Len(u) /\ k + d \in 1 .. Len(s) + Len(u)
    BY <1>s, <1>2, <1>3
  <2>2. CASE k <= Len(t)
    <3>1. k \in 1 .. Len(t) /\ k + d <= Len(s)
      BY <1>s, <1>3, <2>1, <2>2
    <3>2. s[k + d] = t[k]
      BY <1>s, <3>1 DEF Within
    <3> QED
      BY <1>1, <1>2, <2>1, <2>2, <3>1, <3>2
  <2>3. CASE ~(k <= Len(t))
    <3>1. ~(k + d <= Len(s)) /\ (k + d) - Len(s) = k - Len(t)
      BY <1>s, <1>3, <2>1, <2>3
    <3>2. k + d <= Len(x) /\ x[k + d] = u[(k + d) - Len(s)]
      BY <1>1, <2>1, <3>1
    <3>3. y[k] = u[k - Len(t)]
      BY <1>2, <2>1, <2>3
    <3>4. u[(k + d) - Len(s)] = u[k - Len(t)]
      BY <3>1
    <3> QED
      BY <3>2, <3>3, <3>4
  <2> QED
    BY <2>2, <2>3
<1>5. Within(x, y, d)
  BY <1>4 DEF Within
<1> QED
  BY <1>s, <1>1, <1>2, <1>3, <1>5 DEF Suffix

(* The end of s behind d bytes is SubSeq of s.                             *)
LEMMA SuffixIs ==
  ASSUME NEW s, NEW t, NEW d, Suffix(s, t, d)
  PROVE  SubSeq(s, d + 1, Len(s)) = t
<1>1. s \in Seq(Byte) /\ t \in Seq(Byte) /\ d \in Nat /\ Within(s, t, d) /\ Len(s) = Len(t) + d
  BY DEF Suffix
<1>2. d + Len(t) <= Len(s) /\ \A k \in 1 .. Len(t) : s[k + d] = t[k]
  BY <1>1 DEF Within
<1>3. SubSeq(s, d + 1, d + Len(t)) = t
  BY <1>1, <1>2, Slice
<1> QED
  BY <1>1, <1>3

(* What the buffer holds after it has been drained.                        *)
LEMMA RestLength ==
  ASSUME NEW t \in Seq(Byte), NEW i \in 1 .. Len(t) + 1
  PROVE  /\ SubSeq(t, i, Len(t)) \in Seq(Byte)
         /\ Len(SubSeq(t, i, Len(t))) = Len(t) + 1 - i
         /\ \A k \in 1 .. Len(t) + 1 - i : SubSeq(t, i, Len(t))[k] = t[i + k - 1]
<1>1. \A k \in i .. Len(t) : t[k] \in Byte
  OBVIOUS
<1>2. i \in Int /\ Len(t) \in Int /\ i <= Len(t) + 1 /\ Len(t) - i + 1 = Len(t) + 1 - i
  OBVIOUS
<1> QED
  BY <1>1, <1>2, SubSeqProperties

(* An end of an end.                                                       *)
LEMMA SuffixRest ==
  ASSUME NEW s, NEW t, NEW d, Suffix(s, t, d), NEW i \in 1 .. Len(t) + 1
  PROVE  Suffix(s, SubSeq(t, i, Len(t)), d + i - 1)
<1>0. SUFFICES ASSUME NEW r, r = SubSeq(t, i, Len(t))
               PROVE  Suffix(s, r, d + i - 1)
  OBVIOUS
<1>1. /\ s \in Seq(Byte) /\ t \in Seq(Byte) /\ d \in Nat /\ Within(s, t, d)
      /\ Len(s) = Len(t) + d /\ Len(t) \in Nat
  BY DEF Suffix
<1>2. /\ r \in Seq(Byte) /\ Len(r) = Len(t) + 1 - i
      /\ \A k \in 1 .. Len(t) + 1 - i : r[k] = t[i + k - 1]
  BY <1>0, <1>1, RestLength
<1>3. ASSUME NEW k \in 1 .. Len(r)
      PROVE  k + (d + i - 1) <= Len(s) /\ s[k + (d + i - 1)] = r[k]
  <2>1. i + k - 1 \in 1 .. Len(t) /\ (i + k - 1) + d = k + (d + i - 1)
    BY <1>1, <1>2
  <2>2. (i + k - 1) + d <= Len(s) /\ s[(i + k - 1) + d] = t[i + k - 1]
    BY <1>1, <2>1 DEF Within
  <2> QED
    BY <1>2, <2>1, <2>2
<1>4. Within(s, r, d + i - 1)
  BY <1>3 DEF Within
<1>5. d + i - 1 \in Nat /\ Len(s) = Len(r) + (d + i - 1)
  BY <1>1, <1>2
<1> QED
  BY <1>1, <1>2, <1>4, <1>5 DEF Suffix

(* What has been read does not change when the stream grows.               *)
LEMMA FrontKept ==
  ASSUME NEW s \in Seq(Byte), NEW u \in Seq(Byte), NEW n \in Nat, n <= Len(s)
  PROVE  /\ SubSeq(s \o u, 1, n) = SubSeq(s, 1, n)
         /\ SubSeq(s, 1, n) \in Seq(Byte) /\ Len(SubSeq(s, 1, n)) = n
         /\ \A k \in 1 .. n : SubSeq(s, 1, n)[k] = s[k]
<1>0. SUFFICES ASSUME NEW x, x = s \o u, NEW r, r = SubSeq(s, 1, n)
               PROVE  /\ SubSeq(x, 1, n) = r /\ r \in Seq(Byte) /\ Len(r) = n
                      /\ \A k \in 1 .. n : r[k] = s[k]
  OBVIOUS
<1>1. /\ r \in Seq(Byte) /\ Len(r) = n
      /\ \A k \in 1 .. n : r[k] = s[1 + k - 1]
  <2>1. \A k \in 1 .. n : s[k] \in Byte
    OBVIOUS
  <2>2. 1 \in Int /\ n \in Int /\ 1 <= n + 1 /\ n - 1 + 1 = n
    OBVIOUS
  <2> QED
    BY <1>0, <2>1, <2>2, SubSeqProperties
<1>2. \A k \in 1 .. n : r[k] = s[k]
  BY <1>1
<1>3. /\ x \in Seq(Byte) /\ Len(x) = Len(s) + Len(u)
      /\ \A k \in 1 .. Len(s) + Len(u) : x[k] = IF k <= Len(s) THEN s[k] ELSE u[k - Len(s)]
  BY <1>0, ConcatProperties, Zenon
<1>4. 0 + Len(r) <= Len(x) /\ \A k \in 1 .. Len(r) : x[k + 0] = r[k]
  BY <1>1, <1>2, <1>3
<1>5. SubSeq(x, 0 + 1, 0 + Len(r)) = r
  BY <1>1, <1>3, <1>4, Slice
<1>6. 0 + 1 = 1 /\ 0 + Len(r) = n
  BY <1>1
<1> QED
  BY <1>1, <1>2, <1>5, <1>6

Joined(whole, front, end) == whole = front \o end

(* A read moves the front of the line behind what had been read.           *)
LEMMA FrontGrows ==
  ASSUME NEW s, NEW t, NEW d, Suffix(s, t, d), NEW n \in 1 .. Len(t)
  PROVE  Joined(SubSeq(s, 1, d + n), SubSeq(s, 1, d), SubSeq(t, 1, n))
<1>1. /\ s \in Seq(Byte) /\ t \in Seq(Byte) /\ d \in Nat /\ Within(s, t, d)
      /\ Len(s) = Len(t) + d
      /\ 1 \in 1 .. Len(t) /\ n \in Int /\ 1 <= n /\ n <= Len(t) /\ n \in Nat /\ n + d = d + n
  BY DEF Suffix
<1>2. SubSeq(s, 1 + d, n + d) = SubSeq(t, 1, n)
  BY <1>1, WithinSubSeq, Zenon
<1>3. SubSeq(s, 1, d) \o SubSeq(s, d + 1, d + n) = SubSeq(s, 1, d + n)
  <2>1. /\ 1 \in 1 .. Len(s) + 1 /\ d \in 1 - 1 .. Len(s) /\ d + n \in d .. Len(s)
    BY <1>1
  <2> QED
    BY <1>1, <2>1, ConcatAdjacentSubSeq, Zenon
<1>4. 1 + d = d + 1
  BY <1>1
<1> QED
  BY <1>1, <1>2, <1>3, <1>4 DEF Joined

-----------------------------------------------------------------------------
(* The state.                                                              *)

FramingType ==
  /\ noise \in Seq(Byte) /\ sent \in Seq(Byte)
  /\ line \in Seq(Byte) /\ buffer \in Seq(Byte)
  /\ frames \in Seq(Item) /\ delivered \in Seq(Item)
  /\ parsing \in BOOLEAN
  /\ index \in Nat \ {0}

\* What waits on the line is the end of what was sent, what is in the buffer the
\* end of what was read.
InStream ==
  /\ Suffix(sent, line, Len(sent) - Len(line))
  /\ Suffix(Received, buffer, Len(Received) - Len(buffer))
  /\ index <= Len(buffer) + 1

\* Between two reads the parser can go no further.
AtRest == ~parsing => index = 1 /\ Incomplete(buffer, 1)

\* One pass over all that was read stores what has been stored and then what it
\* stores from the parser's place on.
OnTrack ==
  /\ OnePass(Received).stored = delivered \o Scan(Received)[Position].stored
  /\ OnePass(Received).rest = Scan(Received)[Position].rest

FramingInv == FramingType /\ InStream /\ AtRest /\ OnTrack

(* The frames that the referee sends are well-formed packages.             *)
LEMMA FramePackage ==
  ASSUME NEW f \in Frames
  PROVE  /\ WellFormed(Package(f), f) /\ Package(f) \in Seq(Byte)
         /\ f.cmd \in Byte /\ f.data \in Seq(Byte) /\ Len(f.data) \in Byte
<1>1. f.cmd \in Byte /\ f.data \in Seq(Byte) /\ Len(f.data) <= MaxByte
  BY FramingAssumption
<1>2. WellFormed(Package(f), f)
  BY <1>1, PackageWellFormed
<1>3. Len(f.data) \in Byte
  BY <1>1, FramingAssumption DEF Byte
<1> QED
  BY <1>1, <1>2, <1>3 DEF WellFormed

(* The noise is bytes.                                                     *)
LEMMA NoiseType == Noises \subseteq Seq(Byte)
<1>1. ASSUME NEW s \in BoundedSeq(Byte, NoiseMax)
      PROVE  s \in Seq(Byte)
  BY FramingAssumption DEF BoundedSeq, SeqOf
<1>2. ASSUME NEW p \in Seq(Byte), NEW s \in Damaged(p)
      PROVE  s \in Seq(Byte)
  <2>1. ASSUME NEW i \in 1 .. Len(p), NEW j \in 1 .. Len(p)
        PROVE  SubSeq(p, i, j) \in Seq(Byte)
    <3>1. \A k \in i .. j : p[k] \in Byte
      OBVIOUS
    <3> QED
      BY <3>1, SubSeqProperties
  <2>2. ASSUME NEW k \in DOMAIN p, NEW b \in Byte
        PROVE  [p EXCEPT ![k] = b] \in Seq(Byte)
    OBVIOUS
  <2>3. CASE \E k \in 2 .. Len(p) : s = SubSeq(p, k, Len(p))
    BY <2>1, <2>3
  <2>4. CASE \E k \in 1 .. Len(p) - 1 : s = SubSeq(p, 1, k)
    BY <2>1, <2>4
  <2>5. CASE \E k \in DOMAIN p, b \in Byte : s = [p EXCEPT ![k] = b]
    BY <2>2, <2>5
  <2> QED
    BY <1>2, <2>3, <2>4, <2>5 DEF Damaged
<1>3. ASSUME NEW s \in UNION {Damaged(Package(f)) : f \in Frames}
      PROVE  s \in Seq(Byte)
  <2>1. PICK f \in Frames : s \in Damaged(Package(f))
    BY <1>3
  <2> QED
    BY <1>2, <2>1, FramePackage
<1> QED
  BY <1>1, <1>3 DEF Noises

(* Where the line and the parser are in the stream.                        *)
LEMMA ReceivedType ==
  ASSUME FramingType, InStream
  PROVE  /\ Received \in Seq(Byte) /\ Len(Received) = Len(sent) - Len(line)
         /\ Len(sent) - Len(line) \in Nat /\ Len(Received) - Len(buffer) \in Nat
         /\ \A k \in 1 .. Len(Received) : Received[k] = sent[k]
         /\ Position \in 1 .. Len(Received) + 1
         /\ Position = index + (Len(Received) - Len(buffer))
<1>1. /\ sent \in Seq(Byte) /\ line \in Seq(Byte) /\ buffer \in Seq(Byte) /\ index \in Nat \ {0}
      /\ Len(sent) - Len(line) \in Nat /\ Len(Received) - Len(buffer) \in Nat
      /\ index <= Len(buffer) + 1
  BY DEF FramingType, InStream, Suffix
<1>2. Len(sent) - Len(line) <= Len(sent)
  BY <1>1
<1>3. /\ Received \in Seq(Byte) /\ Len(Received) = Len(sent) - Len(line)
      /\ \A k \in 1 .. Len(sent) - Len(line) : Received[k] = sent[k]
  BY <1>1, <1>2, FrontKept DEF Received
<1>4. Len(buffer) \in Nat /\ Len(Received) \in Nat
  BY <1>1, <1>3
<1> QED
  BY <1>1, <1>2, <1>3, <1>4 DEF Position

(* Before the first read nothing has been stored and nothing is left       *)
(* over.                                                                   *)
LEMMA FramingInitially == FramingInit => FramingInv
<1> SUFFICES ASSUME FramingInit
             PROVE  FramingInv
  OBVIOUS
<1>1. /\ noise \in Seq(Byte) /\ sent = noise /\ line = noise /\ frames = <<>> /\ buffer = <<>>
      /\ parsing = FALSE /\ index = 1 /\ delivered = <<>>
  BY NoiseType DEF FramingInit
<1>2. FramingType
  <2>1. <<>> \in Seq(Byte) /\ <<>> \in Seq(Item)
    OBVIOUS
  <2>2. 1 \in Nat \ {0} /\ FALSE \in BOOLEAN
    OBVIOUS
  <2> QED
    BY <1>1, <2>1, <2>2 DEF FramingType
<1>3. Len(sent) - Len(line) = 0 /\ Len(line) \in Nat
  BY <1>1
<1>4. Received \in Seq(Byte) /\ Len(Received) = 0 /\ Received = <<>>
  <2>1. Received \in Seq(Byte) /\ Len(Received) = 0
    BY <1>1, <1>3, FrontKept DEF Received
  <2> QED
    BY <2>1
<1>5. Suffix(sent, line, 0) /\ Suffix(Received, buffer, 0)
  BY <1>1, <1>4 DEF Within, Suffix
<1>6. InStream
  BY <1>1, <1>3, <1>4, <1>5 DEF InStream
<1>7. AtRest
  BY <1>1 DEF AtRest, Incomplete
<1>8. Position = 1
  BY <1>1, <1>4 DEF Position
<1>9. 1 \in 1 .. Len(Received) + 1
  BY <1>4
<1>10. Scan(Received)[1].stored \in Seq(Item)
  BY <1>4, <1>9, ScanType
<1>11. OnTrack
  BY <1>1, <1>8, <1>10, ConcatEmptySeq DEF OnTrack, OnePass
<1> QED
  BY <1>2, <1>6, <1>7, <1>11 DEF FramingInv

(* A frame sent lengthens the line, and not what has been received.        *)
LEMMA SendReceived ==
  ASSUME FramingType, InStream, Send
  PROVE  /\ Received' = Received /\ Position' = Position
         /\ \E f \in Frames :
              /\ frames' = Append(frames, [at |-> Len(sent) + 1, cmd |-> f.cmd, data |-> f.data])
              /\ sent' = sent \o Package(f) /\ line' = line \o Package(f)
              /\ Len(sent') = Len(sent) + Len(Package(f))
              /\ Suffix(sent', line', Len(sent') - Len(line'))
<1>1. PICK f \in Frames :
        /\ frames' = Append(frames, [at |-> Len(sent) + 1, cmd |-> f.cmd, data |-> f.data])
        /\ sent' = sent \o Package(f) /\ line' = line \o Package(f)
  BY DEF Send
<1> DEFINE d == Len(sent) - Len(line)
<1>2. /\ sent \in Seq(Byte) /\ line \in Seq(Byte) /\ Package(f) \in Seq(Byte)
      /\ d \in Nat /\ d <= Len(sent) /\ Len(sent) = Len(line) + d
      /\ Suffix(sent, line, d)
  BY FramePackage DEF FramingType, InStream, Suffix
<1> HIDE DEF d
<1>3. Suffix(sent', line', d)
  <2>1. Suffix(sent \o Package(f), line \o Package(f), d)
    BY <1>2, SuffixConcat
  <2> QED
    BY <1>1, <2>1
<1>4. Len(sent') - Len(line') = d /\ Len(sent') = Len(sent) + Len(Package(f))
  <2>1. Len(sent') = Len(line') + d /\ line' \in Seq(Byte)
    BY <1>3 DEF Suffix
  <2>2. Len(line') \in Nat
    BY <2>1
  <2>3. Len(sent') - Len(line') = d
    BY <1>2, <2>1, <2>2
  <2>4. Len(sent') = Len(sent) + Len(Package(f))
    BY <1>1, <1>2, ConcatLength
  <2> QED
    BY <2>3, <2>4
<1>5. Received' = SubSeq(sent', 1, d) /\ Received = SubSeq(sent, 1, d)
  BY <1>4 DEF Received, d
<1>6. SubSeq(sent \o Package(f), 1, d) = SubSeq(sent, 1, d)
  BY <1>2, FrontKept
<1>7. Received' = Received
  BY <1>1, <1>5, <1>6
<1>8. buffer' = buffer /\ index' = index
  BY DEF Send
<1> QED
  BY <1>1, <1>3, <1>4, <1>7, <1>8 DEF Position

(* Sending a frame keeps the invariant.                                    *)
LEMMA SendKeeps ==
  ASSUME FramingInv, Send
  PROVE  FramingInv'
<1>1. FramingType /\ InStream /\ AtRest /\ OnTrack
  BY DEF FramingInv
<1>2. /\ noise' = noise /\ buffer' = buffer /\ parsing' = parsing /\ index' = index
      /\ delivered' = delivered
  BY DEF Send
<1>3. PICK f \in Frames :
        /\ Received' = Received /\ Position' = Position
        /\ frames' = Append(frames, [at |-> Len(sent) + 1, cmd |-> f.cmd, data |-> f.data])
        /\ Suffix(sent', line', Len(sent') - Len(line'))
  BY <1>1, SendReceived
<1>4. FramingType'
  <2> DEFINE item == [at |-> Len(sent) + 1, cmd |-> f.cmd, data |-> f.data]
  <2>1. Len(sent) + 1 \in Nat
    BY <1>1 DEF FramingType
  <2>2. item \in Item
    BY <2>1, FramePackage DEF Item
  <2> HIDE DEF item
  <2>3. Append(frames, item) \in Seq(Item)
    BY <1>1, <2>2, AppendProperties DEF FramingType
  <2>4. frames' \in Seq(Item)
    BY <1>3, <2>3 DEF item
  <2>5. sent' \in Seq(Byte) /\ line' \in Seq(Byte)
    BY <1>3 DEF Suffix
  <2> QED
    BY <1>1, <1>2, <2>4, <2>5 DEF FramingType
<1>5. InStream'
  BY <1>1, <1>2, <1>3 DEF InStream
<1>6. AtRest'
  BY <1>1, <1>2 DEF AtRest
<1>7. OnTrack'
  BY <1>1, <1>2, <1>3 DEF OnTrack
<1> QED
  BY <1>4, <1>5, <1>6, <1>7 DEF FramingInv

(* A read moves bytes from the line to the buffer.                         *)
LEMMA ReceiveReceived ==
  ASSUME FramingType, InStream, Receive
  PROVE  \E u \in Seq(Byte) :
           /\ Len(u) \in 1 .. Len(line)
           /\ Received' = Received \o u /\ buffer' = buffer \o u
           /\ Len(Received') = Len(Received) + Len(u)
           /\ Len(buffer') = Len(buffer) + Len(u)
           /\ Suffix(sent, line', Len(sent) - Len(line'))
           /\ Suffix(Received', buffer', Len(Received') - Len(buffer'))
<1>1. PICK n \in 1 .. Len(line) :
        line' = SubSeq(line, n + 1, Len(line)) /\ buffer' = buffer \o SubSeq(line, 1, n)
  BY DEF Receive
<1> DEFINE d == Len(sent) - Len(line)
           e == Len(Received) - Len(buffer)
           u == SubSeq(line, 1, n)
<1>2. /\ sent \in Seq(Byte) /\ line \in Seq(Byte) /\ buffer \in Seq(Byte)
      /\ d \in Nat /\ Len(sent) = Len(line) + d /\ Suffix(sent, line, d)
      /\ Suffix(Received, buffer, e) /\ sent' = sent
  BY DEF FramingType, InStream, Receive, Suffix
<1>3. Received \in Seq(Byte) /\ Received = SubSeq(sent, 1, d)
  BY ReceivedType DEF Received
<1> HIDE DEF d, e, u
<1>4. /\ SubSeq(sent, 1, d + n) = SubSeq(sent, 1, d) \o u /\ u \in Seq(Byte) /\ Len(u) = n
  <2>1. Joined(SubSeq(sent, 1, d + n), SubSeq(sent, 1, d), SubSeq(line, 1, n))
    <3>1. Suffix(sent, line, d)
      BY <1>2
    <3> QED
      BY <3>1, FrontGrows
  <2>2. SubSeq(line, 1, n) \in Seq(Byte) /\ Len(SubSeq(line, 1, n)) = n
    <3>1. n \in Nat /\ n <= Len(line)
      BY <1>2
    <3> QED
      BY <1>2, <3>1, FrontKept
  <2> QED
    BY <2>1, <2>2 DEF u, Joined
<1>5. Suffix(sent, line', d + n)
  <2>1. n + 1 \in 1 .. Len(line) + 1
    OBVIOUS
  <2>2. Suffix(sent, SubSeq(line, n + 1, Len(line)), d + (n + 1) - 1)
    BY <1>2, <2>1, SuffixRest
  <2>3. d + (n + 1) - 1 = d + n
    BY <1>2
  <2> QED
    BY <1>1, <2>2, <2>3
<1>6. Len(sent) - Len(line') = d + n
  <2>1. Len(sent) = Len(line') + (d + n) /\ line' \in Seq(Byte)
    BY <1>5 DEF Suffix
  <2>2. Len(line') \in Nat
    BY <2>1
  <2> QED
    BY <1>2, <2>1, <2>2
<1>7. Received' = Received \o u
  BY <1>2, <1>3, <1>4, <1>6 DEF Received
<1>8. buffer' = buffer \o u
  BY <1>1 DEF u
<1>9. Suffix(Received', buffer', e)
  <2>1. Suffix(Received \o u, buffer \o u, e)
    BY <1>2, <1>4, SuffixConcat
  <2> QED
    BY <1>7, <1>8, <2>1
<1>10. Len(Received') = Len(Received) + Len(u) /\ Len(buffer') = Len(buffer) + Len(u)
  BY <1>2, <1>3, <1>4, <1>7, <1>8, ConcatLength
<1>11. Len(Received') - Len(buffer') = e
  <2>1. Len(Received') = Len(buffer') + e /\ buffer' \in Seq(Byte) /\ e \in Nat
    BY <1>9 DEF Suffix
  <2> QED
    BY <2>1
<1> QED
  BY <1>4, <1>5, <1>6, <1>7, <1>8, <1>9, <1>10, <1>11

(* The buffer is the end of what has been received.                        *)
LEMMA StreamLengths ==
  ASSUME FramingType, InStream
  PROVE  /\ Len(line) \in Nat /\ Len(sent) \in Nat /\ Len(buffer) \in Nat /\ Len(Received) \in Nat
         /\ Len(line) <= Len(sent) /\ Len(buffer) <= Len(Received)
         /\ Len(Received) - Len(buffer) \in Nat
         /\ Len(Received) = Len(buffer) + (Len(Received) - Len(buffer))
         /\ Within(Received, buffer, Len(Received) - Len(buffer))
         /\ Received \in Seq(Byte) /\ buffer \in Seq(Byte)
<1>1. /\ Suffix(sent, line, Len(sent) - Len(line)) /\ Suffix(Received, buffer, Len(Received) - Len(buffer))
  BY DEF InStream
<1>2. /\ Len(line) \in Nat /\ Len(sent) \in Nat /\ Len(sent) - Len(line) \in Nat
  BY <1>1 DEF Suffix
<1>3. /\ Len(buffer) \in Nat /\ Len(Received) \in Nat /\ Len(Received) - Len(buffer) \in Nat
      /\ Received \in Seq(Byte) /\ buffer \in Seq(Byte)
      /\ Len(Received) = Len(buffer) + (Len(Received) - Len(buffer))
      /\ Within(Received, buffer, Len(Received) - Len(buffer))
  BY <1>1 DEF Suffix
<1> QED
  BY <1>2, <1>3

(* Where the parser stops, the pass over all that was read stops.          *)
LEMMA ParserStops ==
  ASSUME FramingType, InStream, Incomplete(buffer, index)
  PROVE  Incomplete(Received, Position)
<1>1. index \in Nat \ {0}
  BY DEF FramingType
<1>2. Incomplete(Received, index + (Len(Received) - Len(buffer)))
  BY <1>1, StreamLengths, StopWithin
<1> QED
  BY <1>2, ReceivedType

(* The parser had stopped where the bytes were incomplete, so that one     *)
(* pass over the longer stream resumes from there.                         *)
LEMMA ReceiveKeeps ==
  ASSUME FramingInv, Receive
  PROVE  FramingInv'
<1>1. FramingType /\ InStream /\ AtRest /\ OnTrack
  BY DEF FramingInv
<1>2. /\ noise' = noise /\ sent' = sent /\ frames' = frames /\ parsing = FALSE /\ parsing' = TRUE
      /\ index' = index /\ delivered' = delivered
  BY <1>1 DEF Receive, FramingType
<1>3. PICK u \in Seq(Byte) :
        /\ Len(u) \in 1 .. Len(line)
        /\ Received' = Received \o u
        /\ Len(Received') = Len(Received) + Len(u)
        /\ Len(buffer') = Len(buffer) + Len(u)
        /\ Suffix(sent, line', Len(sent) - Len(line'))
        /\ Suffix(Received', buffer', Len(Received') - Len(buffer'))
  BY <1>1, ReceiveReceived
<1>4. /\ Len(buffer) \in Nat /\ Len(Received) \in Nat /\ Received \in Seq(Byte)
      /\ index = 1 /\ Incomplete(buffer, index) /\ delivered \in Seq(Item)
  BY <1>1, <1>2, StreamLengths DEF AtRest, FramingType
<1>5. line' \in Seq(Byte) /\ buffer' \in Seq(Byte) /\ Received' \in Seq(Byte)
  BY <1>3 DEF Suffix
<1>6. FramingType'
  BY <1>1, <1>2, <1>5 DEF FramingType
<1>7. InStream'
  <2>1. index' <= Len(buffer') + 1
    BY <1>2, <1>3, <1>4
  <2> QED
    BY <1>2, <1>3, <2>1 DEF InStream
<1>8. AtRest'
  BY <1>2 DEF AtRest
<1>9. Position' = Position
  BY <1>2, <1>3, <1>4 DEF Position
<1>10. OnTrack'
  <2>1. Position \in 1 .. Len(Received) + 1 /\ 1 \in 1 .. Len(Received) + 1
    BY <1>1, <1>4, ReceivedType
  <2>2. Incomplete(Received, Position)
    BY <1>1, <1>4, ParserStops
  <2>3. Stop(Received, Position) = Position /\ Scan(Received)[Position].stored = <<>>
    BY <1>4, <2>1, <2>2, ScanType
  <2>4. Stop(Received, 1) = Position
    <3>1. Scan(Received)[1].rest = Scan(Received)[Position].rest
      BY <1>1 DEF OnTrack, OnePass
    <3> QED
      BY <2>3, <3>1 DEF Stop
  <2>5. Scan(Received)[1].stored = delivered
    <3>1. delivered \o <<>> = delivered
      BY <1>4, ConcatEmptySeq
    <3> QED
      BY <1>1, <2>3, <3>1 DEF OnTrack, OnePass
  <2>6. /\ Scan(Received')[1].stored = delivered \o Scan(Received')[Position].stored
        /\ Scan(Received')[1].rest = Scan(Received')[Position].rest
    <3>1. Resumes(Received, Received', 1)
      <4>1. /\ Received \in Seq(Byte) /\ Received' \in Seq(Byte) /\ u \in Seq(Byte)
            /\ Received' = Received \o u /\ 1 \in 1 .. Len(Received) + 1
        BY <1>3, <1>4, <1>5, <2>1
      <4> QED
        BY <4>1, ScanExtend, Zenon
    <3> QED
      BY <2>4, <2>5, <3>1 DEF Resumes
  <2> QED
    BY <1>2, <1>9, <2>6 DEF OnTrack, OnePass
<1> QED
  BY <1>6, <1>7, <1>8, <1>10 DEF FramingInv

(* A turn of the parser is a step of the pass over all that was read.      *)
LEMMA TurnMoves ==
  ASSUME FramingType, InStream, Turn
  PROVE  /\ Received' = Received /\ Received \in Seq(Byte) /\ Len(Received) \in Nat
         /\ Position \in 1 .. Len(Received) /\ Position \in Nat \ {0}
         /\ ~Incomplete(Received, Position)
         /\ Skipped(Received, Position) = Skipped(buffer, index)
         /\ Skipped(Received, Position) \in 1 .. MaxPackage
         /\ \A p : Stored(Received, Position, p) = Stored(buffer, index, p)
         /\ Position' = Position + Skipped(Received, Position)
         /\ Position' \in 1 .. Len(Received) + 1
<1>2. /\ sent' = sent /\ line' = line /\ buffer' = buffer
      /\ index' = index + Skipped(buffer, index)
      /\ ~Incomplete(buffer, index)
  BY DEF Turn
<1>3. /\ index \in Nat \ {0} /\ buffer \in Seq(Byte) /\ Received \in Seq(Byte)
      /\ Len(Received) - Len(buffer) \in Nat
      /\ Position \in 1 .. Len(Received) + 1 /\ Position = index + (Len(Received) - Len(buffer))
      /\ Len(Received) \in Nat /\ Len(buffer) \in Nat
      /\ Within(Received, buffer, Len(Received) - Len(buffer))
  BY ReceivedType, StreamLengths DEF FramingType
<1>4. Skipped(buffer, index) \in Nat
  BY <1>2, <1>3, TurnTakes
<1>5. Received' = Received
  BY <1>2 DEF Received
<1>6. Position' = Position + Skipped(buffer, index)
  <2>1. Position' = Len(Received) - Len(buffer) + (index + Skipped(buffer, index))
    BY <1>2, <1>5 DEF Position
  <2> QED
    BY <1>3, <1>4, <2>1
<1>7. /\ ~Incomplete(Received, Position)
      /\ Skipped(Received, Position) = Skipped(buffer, index)
      /\ \A p : Stored(Received, Position, p) = Stored(buffer, index, p)
  <2> DEFINE d == Len(Received) - Len(buffer)
  <2>1. Within(Received, buffer, d) /\ d \in Nat /\ Position = index + d
    BY <1>3
  <2> HIDE DEF d
  <2>2. /\ ~Incomplete(Received, index + d)
        /\ Skipped(Received, index + d) = Skipped(buffer, index)
        /\ \A p : Stored(Received, index + d, p) = Stored(buffer, index, p)
    BY <1>2, <1>3, <2>1, TurnWithin
  <2> QED
    BY <2>1, <2>2
<1>8. Position \in Nat \ {0}
  BY <1>3
<1>9. /\ Position <= Len(Received)
      /\ Skipped(Received, Position) \in 1 .. MaxPackage
      /\ Position + Skipped(Received, Position) <= Len(Received) + 1
  BY <1>3, <1>7, <1>8, TurnTakes
<1>10. Position' = Position + Skipped(Received, Position)
  BY <1>6, <1>7
<1>11. Position' \in 1 .. Len(Received) + 1
  <2>1. Skipped(Received, Position) \in Nat
    BY <1>4, <1>7
  <2> QED
    BY <1>3, <1>8, <1>9, <1>10, <2>1
<1> QED
  BY <1>3, <1>5, <1>7, <1>8, <1>9, <1>10, <1>11

(* A turn of the loop is a step of the one pass.                           *)
LEMMA TurnKeeps ==
  ASSUME FramingInv, Turn
  PROVE  FramingInv'
<1>1. FramingType /\ InStream /\ AtRest /\ OnTrack
  BY DEF FramingInv
<1>2. /\ noise' = noise /\ sent' = sent /\ line' = line /\ frames' = frames
      /\ parsing = TRUE /\ parsing' = TRUE /\ buffer' = buffer
      /\ index' = index + Skipped(buffer, index)
      /\ delivered' = delivered \o Stored(buffer, index, Position)
      /\ ~Incomplete(buffer, index)
  BY <1>1 DEF Turn, FramingType
<1>3. /\ index \in Nat \ {0} /\ buffer \in Seq(Byte) /\ Received \in Seq(Byte)
      /\ delivered \in Seq(Item)
      /\ Position \in 1 .. Len(Received) + 1
      /\ Len(Received) \in Nat /\ Len(buffer) \in Nat
  BY <1>1, ReceivedType, StreamLengths DEF FramingType
<1>4. Skipped(buffer, index) \in Nat \ {0} /\ index + Skipped(buffer, index) <= Len(buffer) + 1
  BY <1>2, <1>3, TurnTakes
<1>5. Received' = Received
  BY <1>1, TurnMoves
<1>7. /\ ~Incomplete(Received, Position)
      /\ Position' = Position + Skipped(Received, Position)
      /\ Stored(Received, Position, Position) = Stored(buffer, index, Position)
  BY <1>1, TurnMoves
<1> DEFINE one == Stored(buffer, index, Position)
<1>8. one \in Seq(Item)
  <2>1. Position \in Nat
    BY <1>3
  <2> QED
    BY <1>2, <1>3, <2>1, StoredType
<1> HIDE DEF one
<1>9. FramingType'
  <2>1. delivered' \in Seq(Item)
    BY <1>2, <1>3, <1>8, ConcatProperties DEF one
  <2>2. index' \in Nat \ {0}
    BY <1>2, <1>3, <1>4
  <2> QED
    BY <1>1, <1>2, <2>1, <2>2 DEF FramingType
<1>10. InStream'
  BY <1>1, <1>2, <1>4, <1>5 DEF InStream
<1>11. AtRest'
  BY <1>2 DEF AtRest
<1>12. OnTrack'
  <2> DEFINE two == Scan(Received)[Position'].stored
  <2>1. /\ Position' \in Position + 1 .. Len(Received) + 1
        /\ Scan(Received)[Position].stored = one \o two
        /\ Scan(Received)[Position].rest = Scan(Received)[Position'].rest
    <3>1. Position' = Position + Skipped(Received, Position)
      BY <1>7
    <3>2. ASSUME NEW j, j = Position + Skipped(Received, Position)
          PROVE  /\ j \in Position + 1 .. Len(Received) + 1
                 /\ Scan(Received)[Position].stored
                      = Stored(Received, Position, Position) \o Scan(Received)[j].stored
                 /\ Scan(Received)[Position].rest = Scan(Received)[j].rest
      BY <1>3, <1>7, <3>2, ScanTurn
    <3> QED
      BY <1>7, <3>1, <3>2 DEF one
  <2>2. two \in Seq(Item)
    <3>1. Position' \in 1 .. Len(Received) + 1
      BY <1>3, <2>1
    <3> QED
      BY <1>3, <3>1, ScanType
  <2> HIDE DEF two
  <2>3. (delivered \o one) \o two = delivered \o (one \o two)
    <3>1. Regroups(delivered, one, two)
      BY <1>3, <1>8, <2>2, Regrouping
    <3> QED
      BY <3>1 DEF Regroups
  <2>4. OnePass(Received).stored = delivered' \o two
    BY <1>1, <1>2, <2>1, <2>3 DEF OnTrack, one
  <2>5. OnePass(Received).rest = Scan(Received)[Position'].rest
    BY <1>1, <2>1 DEF OnTrack
  <2> QED
    BY <1>5, <2>4, <2>5 DEF OnTrack, two
<1> QED
  BY <1>9, <1>10, <1>11, <1>12 DEF FramingInv

(* What the buffer keeps is what the one pass leaves over.                 *)
LEMMA ReturnKeeps ==
  ASSUME FramingInv, Return
  PROVE  FramingInv'
<1>1. FramingType /\ InStream /\ AtRest /\ OnTrack
  BY DEF FramingInv
<1>2. /\ noise' = noise /\ sent' = sent /\ line' = line /\ frames' = frames
      /\ parsing' = FALSE /\ index' = 1 /\ delivered' = delivered
      /\ buffer' = SubSeq(buffer, index, Len(buffer))
      /\ Incomplete(buffer, index)
  BY DEF Return, Rest
<1>3. /\ index \in 1 .. Len(buffer) + 1 /\ buffer \in Seq(Byte) /\ Received \in Seq(Byte)
      /\ Len(Received) - Len(buffer) \in Nat /\ Len(Received) \in Nat /\ Len(buffer) \in Nat
      /\ index \in Nat \ {0}
  BY <1>1, ReceivedType, StreamLengths DEF FramingType, InStream
<1>4. Received' = Received
  BY <1>2 DEF Received
<1>5. buffer' \in Seq(Byte) /\ Len(buffer') = Len(buffer) + 1 - index
  BY <1>2, <1>3, RestLength
<1>6. Position' = Position
  <2>1. Position' = Len(Received) - Len(buffer') + 1
    BY <1>2, <1>4 DEF Position
  <2> QED
    BY <1>3, <1>5, <2>1 DEF Position
<1>7. FramingType'
  <2>1. 1 \in Nat \ {0} /\ FALSE \in BOOLEAN
    OBVIOUS
  <2>2. index' \in Nat \ {0} /\ parsing' \in BOOLEAN
    BY <1>2, <2>1
  <2> QED
    BY <1>1, <1>2, <1>5, <2>2 DEF FramingType
<1>8. InStream'
  <2>1. Suffix(Received, buffer', Len(Received) - Len(buffer'))
    <3>1. Suffix(Received, SubSeq(buffer, index, Len(buffer)), (Len(Received) - Len(buffer)) + index - 1)
      BY <1>1, <1>3, SuffixRest DEF InStream
    <3>2. (Len(Received) - Len(buffer)) + index - 1 = Len(Received) - Len(buffer')
      BY <1>3, <1>5
    <3> QED
      BY <1>2, <3>1, <3>2
  <2>2. index' <= Len(buffer') + 1
    BY <1>2, <1>3, <1>5
  <2> QED
    BY <1>1, <1>2, <1>4, <2>1, <2>2 DEF InStream
<1>9. AtRest'
  <2>1. Incomplete(buffer', 1)
    <3>1. Suffix(buffer, buffer', index - 1)
      <4>1. Suffix(buffer, buffer, 0)
        BY <1>3 DEF Suffix, Within
      <4>2. Suffix(buffer, SubSeq(buffer, index, Len(buffer)), 0 + index - 1)
        BY <1>3, <4>1, SuffixRest
      <4> QED
        BY <1>2, <1>3, <4>2
    <3>2. CASE Incomplete(buffer', 1)
      BY <3>2
    <3>3. CASE ~Incomplete(buffer', 1)
      <4>1. ~Incomplete(buffer, 1 + (index - 1))
        BY <3>1, <3>3, TurnWithin DEF Suffix
      <4>2. 1 + (index - 1) = index
        BY <1>3
      <4> QED
        BY <1>2, <4>1, <4>2
    <3> QED
      BY <3>2, <3>3
  <2> QED
    BY <1>2, <2>1 DEF AtRest
<1>10. OnTrack'
  BY <1>1, <1>2, <1>4, <1>6 DEF OnTrack
<1> QED
  BY <1>7, <1>8, <1>9, <1>10 DEF FramingInv

(* A stuttering step keeps the invariant.                                  *)
LEMMA FramingStutters ==
  ASSUME FramingInv, UNCHANGED framingVars
  PROVE  FramingInv'
<1>1. /\ noise' = noise /\ sent' = sent /\ line' = line /\ frames' = frames /\ buffer' = buffer
      /\ parsing' = parsing /\ index' = index /\ delivered' = delivered
  BY DEF framingVars
<1>2. Received' = Received
  BY <1>1 DEF Received
<1>3. Position' = Position
  BY <1>1, <1>2 DEF Position
<1> QED
  BY <1>1, <1>2, <1>3 DEF FramingInv, FramingType, InStream, AtRest, OnTrack

(* In every behaviour the buffer is the end of the received bytes, the     *)
(* parser rests only where a frame is incomplete, and what it has stored   *)
(* with what one pass stores from its place on is what one pass stores     *)
(* from the beginning.                                                     *)
THEOREM FramingInvariant == FramingSpec => []FramingInv
<1>1. FramingInv /\ [FramingNext]_framingVars => FramingInv'
  BY SendKeeps, ReceiveKeeps, TurnKeeps, ReturnKeeps, FramingStutters DEF FramingNext
<1> QED
  BY FramingInitially, <1>1, PTL DEF FramingSpec

(* What an unfinished frame leaves is less than the longest frame.         *)
LEMMA IncompleteShort ==
  ASSUME NEW bytes \in Seq(Byte), Incomplete(bytes, 1)
  PROVE  Len(bytes) < MaxPackage
<1>1. MaxPackage \in Nat /\ MaxPackage >= 5 /\ Len(bytes) \in Nat
  <2>1. MaxByte \in Nat
    BY FramingAssumption
  <2> QED
    <3>1. PackageLength(MaxByte) \in Nat /\ PackageLength(MaxByte) >= 5
      BY <2>1, LengthType
    <3>2. Len(bytes) \in Nat
      OBVIOUS
    <3> QED
      BY <3>1, <3>2 DEF MaxPackage
<1>2. CASE Len(bytes) < 3
  BY <1>1, <1>2
<1>3. CASE ~(Len(bytes) < 3)
  <2>1. 1 <= Len(bytes) /\ ~(1 + HeaderLength - 1 > Len(bytes))
    BY <1>1, <1>3 DEF HeaderLength
  <2>2. 1 + PackageLength(bytes[1 + 1]) - 1 > Len(bytes)
    BY <2>1 DEF Incomplete
  <2>3. bytes[1 + 1] \in Byte
    <3>1. 1 + 1 \in 1 .. Len(bytes)
      BY <1>1, <1>3
    <3> QED
      BY <3>1
  <2>4. PackageLength(bytes[1 + 1]) \in 1 .. MaxPackage
    BY <2>3, LengthBound
  <2> QED
    BY <1>1, <2>2, <2>4
<1> QED
  BY <1>2, <1>3

(* CutIndependent: after any sequence of reads, the stores are those of    *)
(* one pass over all that has arrived, and less than one frame is kept.    *)
THEOREM CutIndependentCorrect == FramingSpec => []CutIndependent
<1>1. FramingInv => CutIndependent
  <2> SUFFICES ASSUME FramingInv, ~parsing
               PROVE  /\ [stored |-> delivered, rest |-> buffer] = OnePass(Received)
                      /\ Len(buffer) < MaxPackage
    BY DEF CutIndependent
  <2>1. FramingType /\ InStream /\ AtRest /\ OnTrack
    BY DEF FramingInv
  <2>2. /\ index = 1 /\ Incomplete(buffer, index) /\ buffer \in Seq(Byte)
        /\ Received \in Seq(Byte) /\ Len(Received) - Len(buffer) \in Nat
        /\ Len(Received) \in Nat /\ Len(buffer) \in Nat
        /\ delivered \in Seq(Item)
    BY <2>1, StreamLengths DEF AtRest, FramingType
  <2>3. /\ Incomplete(Received, Position) /\ Position \in 1 .. Len(Received) + 1
        /\ Position = (Len(Received) - Len(buffer)) + 1
    <3>1. Position = index + (Len(Received) - Len(buffer)) /\ Position \in 1 .. Len(Received) + 1
      BY <2>1, ReceivedType
    <3> QED
      BY <2>1, <2>2, <3>1, ParserStops
  <2>4. Scan(Received)[Position] = [stored |-> <<>>, rest |-> Rest(Received, Position)]
    BY <2>2, <2>3, ScanStep DEF ScanBody
  <2>5. Rest(Received, Position) = buffer
    <3>1. SubSeq(Received, (Len(Received) - Len(buffer)) + 1, Len(Received)) = buffer
      BY <2>1, SuffixIs DEF InStream
    <3> QED
      BY <2>3, <3>1 DEF Rest
  <2>6. OnePass(Received).stored = delivered /\ OnePass(Received).rest = buffer
    <3>1. delivered \o <<>> = delivered
      BY <2>2, ConcatEmptySeq
    <3> QED
      BY <2>1, <2>4, <2>5, <3>1 DEF OnTrack
  <2>7. OnePass(Received) = [stored |-> OnePass(Received).stored, rest |-> OnePass(Received).rest]
    <3>1. 1 \in 1 .. Len(Received) + 1
      BY <2>2
    <3>2. OnePass(Received) = ScanBody(Scan(Received), Received, 1)
      BY <2>2, <3>1, ScanStep DEF OnePass
    <3>3. CASE Incomplete(Received, 1)
      BY <3>2, <3>3 DEF ScanBody
    <3>4. CASE ~Incomplete(Received, 1)
      BY <3>2, <3>4 DEF ScanBody
    <3> QED
      BY <3>3, <3>4
  <2>8. Len(buffer) < MaxPackage
    BY <2>2, IncompleteShort
  <2> QED
    BY <2>6, <2>7, <2>8
<1> QED
  BY <1>1, FramingInvariant, PTL

-----------------------------------------------------------------------------
(* A frame in the stream.                                                  *)

(* A longer stream holds the shorter one.                                  *)
LEMMA WithinExtend ==
  ASSUME NEW s \in Seq(Byte), NEW u \in Seq(Byte)
  PROVE  Within(s \o u, s, 0)
<1>0. SUFFICES ASSUME NEW x, x = s \o u
               PROVE  Within(x, s, 0)
  OBVIOUS
<1>1. /\ Len(x) = Len(s) + Len(u) /\ Len(s) \in Nat /\ Len(u) \in Nat
      /\ \A k \in 1 .. Len(s) + Len(u) : x[k] = IF k <= Len(s) THEN s[k] ELSE u[k - Len(s)]
  BY <1>0, ConcatProperties
<1> QED
  BY <1>1 DEF Within

(* Two neighbours are within s where they are both within it.              *)
LEMMA WithinJoin ==
  ASSUME NEW s \in Seq(Byte), NEW t \in Seq(Byte), NEW u \in Seq(Byte), NEW d \in Nat,
         Within(s, t, d), Within(s, u, d + Len(t))
  PROVE  Within(s, t \o u, d)
<1>0. SUFFICES ASSUME NEW x, x = t \o u
               PROVE  Within(s, x, d)
  OBVIOUS
<1>1. /\ Len(x) = Len(t) + Len(u) /\ Len(t) \in Nat /\ Len(u) \in Nat
      /\ \A k \in 1 .. Len(t) + Len(u) : x[k] = IF k <= Len(t) THEN t[k] ELSE u[k - Len(t)]
  BY <1>0, ConcatProperties
<1>2. ASSUME NEW k \in 1 .. Len(x)
      PROVE  k + d <= Len(s) /\ s[k + d] = x[k]
  <2>1. CASE k <= Len(t)
    <3>1. k \in 1 .. Len(t) /\ x[k] = t[k]
      BY <1>1, <2>1
    <3> QED
      BY <3>1 DEF Within
  <2>2. CASE ~(k <= Len(t))
    <3>1. k - Len(t) \in 1 .. Len(u) /\ x[k] = u[k - Len(t)]
      BY <1>1, <2>2
    <3>2. (k - Len(t)) + (d + Len(t)) = k + d
      BY <1>1
    <3>3. /\ (k - Len(t)) + (d + Len(t)) <= Len(s)
          /\ s[(k - Len(t)) + (d + Len(t))] = u[k - Len(t)]
      BY <3>1 DEF Within
    <3> QED
      BY <3>1, <3>2, <3>3
  <2> QED
    BY <2>1, <2>2
<1> QED
  BY <1>2 DEF Within

\* The first three bytes at j in s and at i in t.
SameHeader(s, j, t, i) ==
  /\ IsHeaderAt(s, j) <=> IsHeaderAt(t, i)
  /\ j + 2 <= Len(s) /\ s[j] = t[i] /\ s[j + 1] = t[i + 1]

(* A header that is all there is one with whatever around it.              *)
LEMMA HeaderWithin ==
  ASSUME NEW s \in Seq(Byte), NEW t \in Seq(Byte), NEW d \in Nat, Within(s, t, d),
         NEW i \in Nat \ {0}, i + 2 <= Len(t)
  PROVE  SameHeader(s, i + d, t, i)
<1>1. /\ Len(t) \in Nat /\ Len(s) \in Nat
      /\ i \in 1 .. Len(t) /\ i + 2 \in 1 .. Len(t) /\ i + 1 \in 1 .. Len(t)
      /\ i + 2 \in Int /\ i <= i + 2 /\ i + 2 <= Len(t)
  OBVIOUS
<1>2. (i + 2) + d <= Len(s) /\ s[(i + 1) + d] = t[i + 1] /\ s[i + d] = t[i]
  BY <1>1 DEF Within
<1>3. SubSeq(s, i + d, (i + 2) + d) = SubSeq(t, i, i + 2)
  <2>1. i \in 1 .. Len(t) /\ i + 2 \in Int /\ i <= i + 2 /\ i + 2 <= Len(t)
    BY <1>1
  <2> QED
    BY <2>1, WithinSubSeq, Zenon
<1>4. (i + 2) + d = (i + d) + 3 - 1 /\ i + 2 = i + 3 - 1 /\ (i + 1) + d = (i + d) + 1
  BY <1>1
<1>5. HeaderAt(s, i + d) = HeaderAt(t, i)
  BY <1>3, <1>4 DEF HeaderAt, HeaderLength
<1>6. (i + d) + HeaderLength - 1 <= Len(s) /\ i + HeaderLength - 1 <= Len(t)
  BY <1>1, <1>2, <1>4 DEF HeaderLength
<1>7. (i + d) + 2 <= Len(s) /\ s[(i + d) + 1] = t[i + 1]
  BY <1>1, <1>2, <1>4
<1> QED
  BY <1>2, <1>5, <1>6, <1>7 DEF IsHeaderAt, SameHeader

Known(frame) == frame.cmd \in DOMAIN Size /\ Len(frame.data) >= Size[frame.cmd]

(* What the parser makes of a frame.                                       *)
LEMMA ParsePackage ==
  ASSUME NEW frame, NEW package, WellFormed(package, frame), Len(frame.data) \in Byte
  PROVE  /\ IsHeaderAt(package, 1) /\ ~Incomplete(package, 1)
         /\ Skipped(package, 1) = Len(package)
         /\ Len(package) \in Nat /\ Len(package) >= 5
         /\ PackageLength(package[2]) = Len(package)
         /\ \A p : Stored(package, 1, p) =
                     IF Known(frame) THEN <<[at |-> p, cmd |-> frame.cmd, data |-> frame.data]>>
                                     ELSE <<>>
<1>1. /\ package \in Seq(Byte) /\ Len(package) = PackageLength(Len(frame.data))
      /\ package[1] = SOF /\ package[2] = Len(frame.data)
      /\ VerifyCrc8(SubSeq(package, 1, 3)) /\ VerifyCrc16(package)
      /\ package[4] = frame.cmd /\ SubSeq(package, 5, Len(package) - 1) = frame.data
  BY DEF WellFormed
<1>2. Len(package) \in Nat /\ Len(package) >= 5 /\ PackageLength(package[1 + 1]) = Len(package)
  <2>1. Len(frame.data) \in Nat
    BY LengthBound
  <2>2. PackageLength(Len(frame.data)) \in Nat /\ PackageLength(Len(frame.data)) >= 5
    BY <2>1, LengthType
  <2>3. 1 + 1 = 2
    OBVIOUS
  <2> QED
    BY <1>1, <2>2, <2>3
<1>3. IsHeaderAt(package, 1)
  <2>1. HeaderAt(package, 1) = SubSeq(package, 1, 3)
    BY DEF HeaderAt, HeaderLength
  <2>2. 1 + HeaderLength - 1 <= Len(package)
    BY <1>2 DEF HeaderLength
  <2> QED
    BY <1>1, <2>1, <2>2 DEF IsHeaderAt
<1>4. ~Incomplete(package, 1)
  <2>1. 1 <= Len(package) /\ ~(1 + HeaderLength - 1 > Len(package))
        /\ ~(1 + Len(package) - 1 > Len(package))
    BY <1>2 DEF HeaderLength
  <2> QED
    BY <1>2, <2>1 DEF Incomplete
<1>5. Skipped(package, 1) = Len(package)
  BY <1>2, <1>3 DEF Skipped
<1>6. PackageAt(package, 1) = package
  <2>1. PackageAt(package, 1) = SubSeq(package, 1, 1 + Len(package) - 1)
    BY <1>2 DEF PackageAt
  <2>2. 1 + Len(package) - 1 = 0 + Len(package) /\ 0 + 1 = 1 /\ 0 + Len(package) <= Len(package)
        /\ \A k \in 1 .. Len(package) : package[k + 0] = package[k]
    BY <1>2
  <2>3. SubSeq(package, 0 + 1, 0 + Len(package)) = package
    BY <1>1, <2>2, Slice
  <2> QED
    BY <2>1, <2>2, <2>3
<1>7. ASSUME NEW p
      PROVE  Stored(package, 1, p) =
               IF Known(frame) THEN <<[at |-> p, cmd |-> frame.cmd, data |-> frame.data]>>
                               ELSE <<>>
  <2>1. package[HeaderLength + 1] = frame.cmd
        /\ SubSeq(package, HeaderLength + CmdIdLength + 1, Len(package) - Crc16Length) = frame.data
    BY <1>1 DEF HeaderLength, CmdIdLength, Crc16Length
  <2> QED
    BY <1>1, <1>3, <1>6, <2>1, Zenon DEF Stored, Known
<1> QED
  BY <1>2, <1>3, <1>4, <1>5, <1>7

(* A frame that is all there is not waited for, and is taken as it is      *)
(* when it stands alone.                                                   *)
LEMMA WholeFrame ==
  ASSUME NEW frame, NEW package, WellFormed(package, frame), Len(frame.data) \in Byte,
         NEW sentBytes \in Seq(Byte), NEW i \in Nat \ {0}, Within(sentBytes, package, i - 1),
         NEW s \in Seq(Byte), Within(sentBytes, s, 0), i + Len(package) <= Len(s) + 1
  PROVE  /\ ~Incomplete(s, i)
         /\ Skipped(s, i) = Skipped(package, 1)
         /\ \A p : Stored(s, i, p) = Stored(package, 1, p)
<1>1. /\ package \in Seq(Byte) /\ Len(package) \in Nat /\ Len(package) >= 5 /\ Len(s) \in Nat
      /\ i - 1 \in Nat /\ 1 + (i - 1) = i /\ 1 \in Nat \ {0}
  <2>1. Len(package) \in Nat /\ Len(package) >= 5
    BY ParsePackage
  <2>2. package \in Seq(Byte)
    BY DEF WellFormed
  <2> QED
    BY <2>1, <2>2
<1>2. Within(s, package, i - 1)
  <2> SUFFICES ASSUME NEW k \in 1 .. Len(package)
               PROVE  k + (i - 1) <= Len(s) /\ s[k + (i - 1)] = package[k]
    BY DEF Within
  <2>1. k + (i - 1) \in 1 .. Len(s) /\ (k + (i - 1)) + 0 = k + (i - 1)
    BY <1>1
  <2>2. sentBytes[k + (i - 1)] = package[k]
    BY DEF Within
  <2>3. sentBytes[(k + (i - 1)) + 0] = s[k + (i - 1)]
    BY <2>1 DEF Within
  <2> QED
    BY <2>1, <2>2, <2>3
<1>3. ~Incomplete(package, 1)
  BY ParsePackage
<1>4. /\ ~Incomplete(s, 1 + (i - 1))
      /\ Skipped(s, 1 + (i - 1)) = Skipped(package, 1)
      /\ \A p : Stored(s, 1 + (i - 1), p) = Stored(package, 1, p)
  BY <1>1, <1>2, <1>3, TurnWithin
<1> QED
  BY <1>1, <1>4

(* Where a frame begins, a turn takes all of it, and stores it if it       *)
(* decodes.                                                                *)
LEMMA ParseFrame ==
  ASSUME NEW frame, NEW package, WellFormed(package, frame), Len(frame.data) \in Byte,
         NEW sentBytes \in Seq(Byte), NEW i \in Nat \ {0}, Within(sentBytes, package, i - 1),
         NEW s \in Seq(Byte), Within(sentBytes, s, 0), i <= Len(s), ~Incomplete(s, i)
  PROVE  /\ i + Len(package) <= Len(s) + 1
         /\ Skipped(s, i) = Len(package)
         /\ \A p : Stored(s, i, p) =
                     IF Known(frame) THEN <<[at |-> p, cmd |-> frame.cmd, data |-> frame.data]>>
                                     ELSE <<>>
<1>1. /\ package \in Seq(Byte) /\ Len(package) \in Nat /\ Len(package) >= 5 /\ Len(s) \in Nat
      /\ i - 1 \in Nat /\ 1 + (i - 1) = i /\ 1 \in Nat \ {0} /\ 1 + 2 <= Len(package)
      /\ package[1] = SOF /\ 1 + 1 = 2
  <2>1. Len(package) \in Nat /\ Len(package) >= 5
    BY ParsePackage
  <2>2. package \in Seq(Byte) /\ package[1] = SOF
    BY DEF WellFormed
  <2> QED
    BY <2>1, <2>2
<1>2. /\ IsHeaderAt(sentBytes, i) /\ sentBytes[i + 1] = package[2] /\ sentBytes[i] = SOF
  <2>1. SameHeader(sentBytes, 1 + (i - 1), package, 1)
    BY <1>1, HeaderWithin
  <2>2. SameHeader(sentBytes, i, package, 1)
    BY <1>1, <2>1
  <2> QED
    BY <1>1, <2>2, ParsePackage DEF SameHeader
<1>3. s[i] = SOF /\ i + 2 <= Len(s)
  <2>1. s[i] = SOF
    <3>1. i \in 1 .. Len(s)
      BY <1>1
    <3> QED
      BY <1>2, <3>1 DEF Within
  <2>2. ~(i + HeaderLength - 1 > Len(s))
    BY <2>1 DEF Incomplete
  <2> QED
    BY <1>1, <2>1, <2>2 DEF HeaderLength
<1>4. IsHeaderAt(s, i) /\ s[i + 1] = package[2]
  <2>1. SameHeader(sentBytes, i + 0, s, i)
    BY <1>3, HeaderWithin, 0 \in Nat
  <2>2. i + 0 = i
    OBVIOUS
  <2>3. SameHeader(sentBytes, i, s, i)
    BY <2>1, <2>2
  <2> QED
    BY <1>2, <2>3 DEF SameHeader
<1>5. PackageLength(s[i + 1]) = Len(package)
  BY <1>4, ParsePackage
<1>6. i + Len(package) - 1 <= Len(s)
  <2>1. ~(i + Len(package) - 1 > Len(s))
    BY <1>4, <1>5 DEF Incomplete
  <2> QED
    BY <1>1, <2>1
<1>7. i + Len(package) <= Len(s) + 1
  BY <1>1, <1>6
<1>8. /\ Skipped(s, i) = Skipped(package, 1)
      /\ \A p : Stored(s, i, p) = Stored(package, 1, p)
  BY <1>7, WholeFrame
<1> QED
  BY <1>7, <1>8, ParsePackage

-----------------------------------------------------------------------------
(* The frames of the stream, one behind the other.                         *)

\* Where the k-th frame begins, and where the one after the last would.
Begin(k) == IF k <= Len(frames) THEN frames[k].at ELSE Len(sent) + 1

\* Frame i is sent where it begins, and the next one behind it.
LaidOut(i, f) ==
  /\ frames[i].cmd = f.cmd /\ frames[i].data = f.data
  /\ Within(sent, Package(f), Begin(i) - 1)
  /\ Begin(i + 1) = Begin(i) + Len(Package(f))

Layout ==
  /\ Begin(1) = Len(noise) + 1
  /\ \A i \in 1 .. Len(frames) : \E f \in Frames : LaidOut(i, f)

\* Behind the last byte of a frame.
End(frame) == frame.at + PackageLength(Len(frame.data))

(* The beginnings of the frames are places in the stream.                  *)
LEMMA BeginType ==
  ASSUME FramingType
  PROVE  /\ Len(frames) \in Nat /\ Len(sent) \in Nat /\ Len(noise) \in Nat
         /\ \A k \in 1 .. Len(frames) : frames[k] \in Item /\ Begin(k) = frames[k].at
         /\ \A k \in Nat \ {0} : Begin(k) \in Nat
         /\ Begin(Len(frames) + 1) = Len(sent) + 1
<1>1. Len(frames) \in Nat /\ Len(sent) \in Nat /\ Len(noise) \in Nat
  BY DEF FramingType
<1>2. ASSUME NEW k \in 1 .. Len(frames)
      PROVE  frames[k] \in Item /\ Begin(k) = frames[k].at /\ Begin(k) \in Nat
  <2>1. frames[k] \in Item
    BY DEF FramingType
  <2> QED
    BY <2>1 DEF Begin, Item
<1>3. ASSUME NEW k \in Nat \ {0}
      PROVE  Begin(k) \in Nat
  <2>1. CASE k <= Len(frames)
    <3>1. k \in 1 .. Len(frames)
      BY <1>1, <2>1
    <3> QED
      BY <1>2, <3>1
  <2>2. CASE ~(k <= Len(frames))
    <3>1. Begin(k) = Len(sent) + 1
      BY <2>2 DEF Begin
    <3> QED
      BY <1>1, <3>1
  <2> QED
    BY <2>1, <2>2
<1>4. ~(Len(frames) + 1 <= Len(frames))
  BY <1>1
<1> QED
  BY <1>1, <1>2, <1>3, <1>4 DEF Begin

(* A frame ends where the next one begins.                                 *)
LEMMA LayoutStep ==
  ASSUME FramingType, NEW i \in 1 .. Len(frames), NEW f \in Frames, LaidOut(i, f)
  PROVE  /\ Begin(i + 1) = Begin(i) + Len(Package(f))
         /\ Begin(i + 1) = End(frames[i])
         /\ Begin(i) + 5 <= Begin(i + 1)
         /\ Begin(i) \in Nat /\ Begin(i + 1) \in Nat
         /\ Len(Package(f)) \in Nat /\ Len(Package(f)) >= 5
         /\ Len(Package(f)) = PackageLength(Len(frames[i].data))
         /\ Begin(i) = frames[i].at
<1>1. i \in Nat \ {0} /\ i + 1 \in Nat \ {0}
  BY BeginType
<1>2. Begin(i) \in Nat /\ Begin(i + 1) \in Nat /\ Begin(i) = frames[i].at
  BY <1>1, BeginType
<1>3. Len(Package(f)) \in Nat /\ Len(Package(f)) >= 5
  BY FramePackage, ParsePackage
<1>4. Begin(i + 1) = Begin(i) + Len(Package(f)) /\ frames[i].data = f.data
  BY DEF LaidOut
<1>5. Len(Package(f)) = PackageLength(Len(f.data))
  BY FramePackage DEF WellFormed
<1> QED
  BY <1>2, <1>3, <1>4, <1>5 DEF End

(* The beginnings ascend.                                                  *)
LEMMA LayoutRises ==
  ASSUME FramingType, Layout,
         NEW i \in 1 .. Len(frames), NEW j \in 1 .. Len(frames) + 1, i < j
  PROVE  Begin(i + 1) <= Begin(j)
<1> DEFINE S == {k \in Nat : (i + 1) + k <= Len(frames) + 1 => Begin(i + 1) <= Begin((i + 1) + k)}
<1>1. i + 1 \in Nat \ {0} /\ Len(frames) \in Nat /\ (i + 1) + 0 = i + 1
  BY BeginType
<1>2. 0 \in S
  <2>1. Begin(i + 1) \in Nat
    BY <1>1, BeginType
  <2>2. Begin(i + 1) <= Begin((i + 1) + 0)
    BY <1>1, <2>1
  <2> QED
    BY <2>2
<1>3. ASSUME NEW k \in Nat, k \in S
      PROVE  k + 1 \in S
  <2>0. SUFFICES ASSUME (i + 1) + (k + 1) <= Len(frames) + 1
                 PROVE  Begin(i + 1) <= Begin((i + 1) + (k + 1))
    OBVIOUS
  <2> DEFINE l == (i + 1) + k
  <2>1. l \in 1 .. Len(frames) /\ l + 1 = (i + 1) + (k + 1) /\ l \in Nat \ {0} /\ l + 1 \in Nat \ {0}
    BY <1>1, <2>0
  <2>2. Begin(i + 1) <= Begin(l)
    BY <1>1, <1>3, <2>0
  <2> HIDE DEF l
  <2>3. PICK f \in Frames : LaidOut(l, f)
    BY <2>1 DEF Layout
  <2>4. Begin(l) + 5 <= Begin(l + 1)
    BY <2>1, <2>3, LayoutStep
  <2>5. Begin(i + 1) \in Nat /\ Begin(l) \in Nat /\ Begin(l + 1) \in Nat
    BY <1>1, <2>1, BeginType
  <2>6. Begin(i + 1) <= Begin(l + 1)
    BY <2>2, <2>4, <2>5
  <2> QED
    BY <2>1, <2>6
<1> HIDE DEF S
<1>4. j - (i + 1) \in Nat /\ (i + 1) + (j - (i + 1)) = j /\ j <= Len(frames) + 1
  BY <1>1
<1>5. j - (i + 1) \in S
  BY <1>2, <1>3, <1>4, Induction
<1> QED
  BY <1>4, <1>5 DEF S

(* Every byte behind the noise is part of a frame.                         *)
LEMMA LayoutCovers ==
  ASSUME FramingType, Layout, NEW p \in Nat, p > Len(noise), p <= Len(sent)
  PROVE  \E i \in 1 .. Len(frames) : Begin(i) <= p /\ p < Begin(i + 1)
<1> DEFINE Behind == {k \in 1 .. Len(frames) + 1 : p < Begin(k)}
<1>1. Len(frames) \in Nat /\ Begin(Len(frames) + 1) = Len(sent) + 1 /\ Len(sent) \in Nat
      /\ Begin(1) = Len(noise) + 1 /\ Len(noise) \in Nat
  BY BeginType DEF Layout
<1>2. Len(frames) + 1 \in Behind /\ Behind \in SUBSET Nat
  BY <1>1
<1>3. PICK k \in Behind : \A l \in Behind : k <= l
  BY <1>2, LeastNumber
<1>4. k \in 1 .. Len(frames) + 1 /\ p < Begin(k)
  BY <1>3
<1>5. k # 1
  BY <1>1, <1>4
<1>6. k - 1 \in 1 .. Len(frames) /\ (k - 1) + 1 = k /\ k - 1 \in 1 .. Len(frames) + 1
      /\ k - 1 \in Nat \ {0} /\ ~(k <= k - 1)
  BY <1>1, <1>4, <1>5
<1>7. ~(p < Begin(k - 1))
  BY <1>3, <1>6
<1>8. Begin(k - 1) \in Nat
  BY <1>6, BeginType
<1>9. Begin(k - 1) <= p
  BY <1>7, <1>8
<1> QED
  BY <1>4, <1>6, <1>9

(* All frames are behind the noise.                                        *)
LEMMA LayoutPositive ==
  ASSUME FramingType, Layout, NEW i \in 1 .. Len(frames)
  PROVE  /\ Begin(i) \in Nat \ {0} /\ Begin(i) - 1 \in Nat
         /\ Len(noise) \in Nat /\ Begin(i) >= Len(noise) + 1
<1>1. i \in 1 .. Len(frames) + 1 /\ i \in Nat \ {0} /\ Len(frames) \in Nat
  BY BeginType
<1>2. Begin(1) = Len(noise) + 1 /\ Len(noise) \in Nat /\ Begin(i) \in Nat
  BY <1>1, BeginType DEF Layout
<1>3. CASE i = 1
  BY <1>2, <1>3
<1>4. CASE i # 1
  <2>1. 1 \in 1 .. Len(frames) /\ 1 < i
    BY <1>1, <1>4
  <2>2. Begin(1 + 1) <= Begin(i)
    BY <1>1, <2>1, LayoutRises
  <2>3. PICK g \in Frames : LaidOut(1, g)
    BY <2>1 DEF Layout
  <2>4. Begin(1) + 5 <= Begin(1 + 1) /\ Begin(1 + 1) \in Nat
    BY <2>1, <2>3, LayoutStep
  <2> QED
    BY <1>2, <2>2, <2>4
<1> QED
  BY <1>3, <1>4

(* No header begins within a frame.                                        *)
LEMMA HeaderInside ==
  ASSUME HeadersOnlyInFront, FramingType, Layout,
         NEW i \in 1 .. Len(frames), NEW p \in Nat, Begin(i) < p, p < Begin(i + 1)
  PROVE  ~IsHeaderAt(sent, p)
<1> SUFFICES ASSUME IsHeaderAt(sent, p)
             PROVE  FALSE
  OBVIOUS
<1>1. PICK f \in Frames : LaidOut(i, f)
  BY DEF Layout
<1> DEFINE d == Begin(i) - 1
           q == p - d
           P == Package(f)
<1>2. /\ Begin(i) \in Nat /\ Begin(i + 1) = Begin(i) + Len(P) /\ Len(P) \in Nat /\ Len(P) >= 5
      /\ P \in Seq(Byte) /\ sent \in Seq(Byte) /\ Len(sent) \in Nat
  BY <1>1, LayoutStep, FramePackage DEF FramingType
<1>3. Begin(i) \in Nat \ {0}
  BY LayoutPositive
<1>4. d \in Nat /\ q \in 2 .. Len(P) /\ q \in Nat \ {0} /\ q + d = p /\ Within(sent, P, d)
      /\ Begin(i + 1) = d + 1 + Len(P)
  <2>1. d \in Nat /\ q \in 2 .. Len(P) /\ q \in Nat \ {0} /\ q + d = p
        /\ Begin(i + 1) = d + 1 + Len(P)
    <3>1. ASSUME NEW b \in Nat \ {0}, NEW l \in Nat, b < p, p < b + l
          PROVE  /\ b - 1 \in Nat /\ p - (b - 1) \in 2 .. l /\ p - (b - 1) \in Nat \ {0}
                 /\ (p - (b - 1)) + (b - 1) = p /\ b + l = (b - 1) + 1 + l
      BY <3>1
    <3> QED
      BY <1>2, <1>3, <3>1, Zenon
  <2>2. Within(sent, P, d)
    BY <1>1 DEF LaidOut
  <2> QED
    BY <2>1, <2>2
<1>5. p + 2 <= Len(sent)
  <2>1. p + HeaderLength - 1 <= Len(sent)
    BY DEF IsHeaderAt
  <2> QED
    BY <1>2, <2>1 DEF HeaderLength
<1> HIDE DEF d, q, P
<1>6. PICK g \in Frames : Within(sent, P \o Package(g), d) \/ q + 2 <= Len(P)
  <2>1. CASE i = Len(frames)
    <3>1. Begin(i + 1) = Len(sent) + 1
      BY <2>1, BeginType
    <3>2. ASSUME NEW l \in Nat, NEW n \in Nat, NEW x \in Nat, NEW y \in Nat,
                 (x + y) + 2 <= n, y + 1 + l = n + 1
          PROVE  x + 2 <= l
      BY <3>2
    <3>3. (q + d) + 2 <= Len(sent) /\ d + 1 + Len(P) = Len(sent) + 1 /\ q \in Nat
      BY <1>4, <1>5, <3>1
    <3>4. q + 2 <= Len(P)
      BY <1>2, <1>4, <3>2, <3>3, Zenon
    <3> QED
      BY <3>4
  <2>2. CASE i # Len(frames)
    <3>1. i + 1 \in 1 .. Len(frames)
      <4>1. Len(frames) \in Nat
        BY BeginType, Zenon
      <4> QED
        BY <2>2, <4>1
    <3>2. PICK g \in Frames : LaidOut(i + 1, g)
      BY <3>1 DEF Layout
    <3>3. Within(sent, Package(g), d + Len(P))
      <4>1. Begin(i + 1) - 1 = d + Len(P)
        BY <1>2, <1>4
      <4> QED
        BY <3>2, <4>1 DEF LaidOut
    <3>4. Package(g) \in Seq(Byte)
      BY FramePackage
    <3>5. Within(sent, P \o Package(g), d)
      BY <1>2, <1>4, <3>3, <3>4, WithinJoin
    <3> QED
      BY <3>5
  <2> QED
    BY <2>1, <2>2
<1> DEFINE G == Package(g)
           PG == P \o G
<1>7. G \in Seq(Byte) /\ Len(G) \in Nat /\ Len(G) >= 5
  BY FramePackage, ParsePackage
<1> HIDE DEF G
<1>8. PG \in Seq(Byte) /\ Len(PG) = Len(P) + Len(G) /\ Within(PG, P, 0)
  BY <1>2, <1>7, ConcatLength, WithinExtend
<1> HIDE DEF PG
<1>9. IsHeaderAt(PG, q)
  <2>1. CASE q + 2 <= Len(P)
    <3>1. SameHeader(sent, q + d, P, q)
      BY <1>2, <1>4, <2>1, HeaderWithin
    <3>2. SameHeader(PG, q + 0, P, q)
      BY <1>2, <1>4, <1>8, <2>1, HeaderWithin, 0 \in Nat
    <3>3. q + 0 = q
      BY <1>4
    <3>4. IsHeaderAt(sent, q + d) <=> IsHeaderAt(P, q)
      BY <3>1 DEF SameHeader
    <3>5. IsHeaderAt(PG, q) <=> IsHeaderAt(P, q)
      BY <3>2, <3>3 DEF SameHeader
    <3> QED
      BY <1>4, <3>4, <3>5
  <2>2. CASE Within(sent, PG, d)
    <3>1. q + 2 <= Len(PG)
      BY <1>2, <1>4, <1>7, <1>8
    <3>2. SameHeader(sent, q + d, PG, q)
      BY <1>2, <1>4, <1>8, <2>2, <3>1, HeaderWithin
    <3> QED
      BY <1>4, <3>2 DEF SameHeader
  <2> QED
    BY <1>6, <2>1, <2>2 DEF PG, G
<1>10. ~IsHeaderAt(PG, q)
  BY <1>4 DEF HeadersOnlyInFront, PG, G, P
<1> QED
  BY <1>9, <1>10

\* Without noise the parser is always where a frame begins, or behind the last.
AtBeginning == noise = <<>> /\ \E k \in 1 .. Len(frames) + 1 : Position = Begin(k)

\* Where the parser meets no header but the frames' own.
Aligned == HeadersOnlyInFront \/ AtBeginning

(* The parser meets no header within a frame: there is none, or it is not  *)
(* within a frame.                                                         *)
LEMMA ParserMeetsNoHeader ==
  ASSUME Aligned, FramingType, Layout, NEW i \in 1 .. Len(frames),
         Position \in Nat, Begin(i) < Position, Position < Begin(i + 1)
  PROVE  ~IsHeaderAt(sent, Position)
<1>1. CASE HeadersOnlyInFront
  BY <1>1, HeaderInside
<1>2. CASE AtBeginning
  <2>1. PICK k \in 1 .. Len(frames) + 1 : Position = Begin(k)
    BY <1>2 DEF AtBeginning
  <2>2. /\ i \in Nat \ {0} /\ k \in Nat \ {0} /\ i + 1 \in Nat \ {0} /\ Len(frames) \in Nat
        /\ Begin(i) \in Nat /\ Begin(k) \in Nat /\ Begin(i + 1) \in Nat
    <3>1. Len(frames) \in Nat /\ \A j \in Nat \ {0} : Begin(j) \in Nat
      BY BeginType, Zenon
    <3>2. i \in Nat \ {0} /\ k \in Nat \ {0} /\ i + 1 \in Nat \ {0}
      BY <3>1
    <3>3. Begin(i) \in Nat /\ Begin(k) \in Nat /\ Begin(i + 1) \in Nat
      BY <3>1, <3>2, Zenon
    <3> QED
      BY <3>1, <3>2, <3>3, Zenon
  <2>3. CASE i < k
    <3>1. Begin(i + 1) <= Begin(k)
      BY <2>3, LayoutRises
    <3> QED
      BY <2>1, <2>2, <3>1
  <2>4. CASE k = i
    BY <2>1, <2>2, <2>4
  <2>5. CASE k < i
    <3>1. k \in 1 .. Len(frames) /\ i \in 1 .. Len(frames) + 1
      BY <2>2, <2>5
    <3>2. Begin(k + 1) <= Begin(i)
      BY <2>5, <3>1, LayoutRises
    <3>3. PICK g \in Frames : LaidOut(k, g)
      BY <3>1 DEF Layout
    <3>4. Begin(k) + 5 <= Begin(k + 1) /\ Begin(k + 1) \in Nat
      BY <3>1, <3>3, LayoutStep
    <3>5. Begin(k) <= Begin(k + 1)
      BY <2>2, <3>4
    <3> QED
      BY <2>1, <2>2, <3>2, <3>4, <3>5
  <2> QED
    BY <2>2, <2>3, <2>4, <2>5
<1> QED
  BY <1>1, <1>2 DEF Aligned

(* What was within the stream still is when it grows.                      *)
LEMMA ShiftWithin ==
  ASSUME NEW s \in Seq(Byte), NEW u \in Seq(Byte), NEW x, x = s \o u, NEW t, NEW d,
         Within(s, t, d), d \in Nat, t \in Seq(Byte)
  PROVE  Within(x, t, d)
<1>1. /\ Len(x) = Len(s) + Len(u) /\ Len(s) \in Nat /\ Len(u) \in Nat
      /\ \A k \in 1 .. Len(s) + Len(u) : x[k] = IF k <= Len(s) THEN s[k] ELSE u[k - Len(s)]
  BY ConcatProperties
<1>2. ASSUME NEW k \in 1 .. Len(t)
      PROVE  k + d <= Len(x) /\ x[k + d] = t[k]
  <2>1. k + d <= Len(s) /\ s[k + d] = t[k]
    BY DEF Within
  <2>2. k + d \in 1 .. Len(s) + Len(u)
    BY <1>1, <2>1
  <2> QED
    BY <1>1, <2>1, <2>2
<1> QED
  BY <1>2 DEF Within

(* What the stream grows by is within it.                                  *)
LEMMA EndWithin ==
  ASSUME NEW s \in Seq(Byte), NEW u \in Seq(Byte), NEW x, x = s \o u
  PROVE  Within(x, u, Len(s))
<1>1. /\ Len(x) = Len(s) + Len(u) /\ Len(s) \in Nat /\ Len(u) \in Nat
      /\ \A k \in 1 .. Len(s) + Len(u) : x[k] = IF k <= Len(s) THEN s[k] ELSE u[k - Len(s)]
  BY ConcatProperties
<1>2. ASSUME NEW k \in 1 .. Len(u)
      PROVE  k + Len(s) <= Len(x) /\ x[k + Len(s)] = u[k]
  <2>1. k + Len(s) \in 1 .. Len(s) + Len(u) /\ ~(k + Len(s) <= Len(s)) /\ (k + Len(s)) - Len(s) = k
    BY <1>1
  <2> QED
    BY <1>1, <2>1
<1> QED
  BY <1>2 DEF Within

(* Before any frame is sent the noise is all of the stream.                *)
LEMMA LayoutInitially == FramingInit => Layout
  BY DEF FramingInit, Layout, Begin

(* A frame is sent behind the others.                                      *)
LEMMA SendKeepsLayout ==
  ASSUME FramingInv, Layout, Send
  PROVE  /\ Layout'
         /\ Len(frames') = Len(frames) + 1
         /\ \A k \in 1 .. Len(frames) : frames'[k] = frames[k]
         /\ frames'[Len(frames) + 1].at = Len(sent) + 1
<1>1. FramingType /\ InStream
  BY DEF FramingInv
<1>2. PICK f \in Frames :
        /\ frames' = Append(frames, [at |-> Len(sent) + 1, cmd |-> f.cmd, data |-> f.data])
        /\ sent' = sent \o Package(f) /\ Len(sent') = Len(sent) + Len(Package(f))
  BY <1>1, SendReceived
<1> DEFINE item == [at |-> Len(sent) + 1, cmd |-> f.cmd, data |-> f.data]
<1>n. PICK n \in Nat : n = Len(frames)
  BY <1>1 DEF FramingType
<1>3. /\ n \in Nat /\ sent \in Seq(Byte) /\ Len(sent) \in Nat /\ noise' = noise
      /\ Package(f) \in Seq(Byte)
  BY <1>1, FramePackage DEF FramingType, Send
<1>4. item \in Item /\ item.at = Len(sent) + 1 /\ item.cmd = f.cmd /\ item.data = f.data
  BY <1>3, FramePackage DEF Item
<1> HIDE DEF item
<1>5. /\ Len(frames') = n + 1
      /\ \A k \in 1 .. n : frames'[k] = frames[k]
      /\ frames'[n + 1] = item
  <2>1. frames' = Append(frames, item) /\ frames \in Seq(Item)
    BY <1>1, <1>2 DEF item, FramingType
  <2> QED
    BY <1>4, <1>n, <2>1, AppendProperties
<1>6. ASSUME NEW k \in 1 .. n + 1
      PROVE  Begin(k)' = Begin(k)
  <2>1. CASE k \in 1 .. n
    <3>1. k <= Len(frames) /\ k <= Len(frames')
      BY <1>3, <1>5, <1>n, <2>1
    <3> QED
      BY <1>5, <2>1, <3>1 DEF Begin
  <2>2. CASE k = n + 1
    <3>1. ~(k <= Len(frames)) /\ k <= Len(frames')
      BY <1>3, <1>5, <1>n, <2>2
    <3> QED
      BY <1>4, <1>5, <2>2, <3>1 DEF Begin
  <2> QED
    BY <1>3, <2>1, <2>2
<1>7. Begin((n + 1) + 1)' = Len(sent) + 1 + Len(Package(f))
  <2>1. ~((n + 1) + 1 <= Len(frames'))
    BY <1>3, <1>5
  <2>2. Begin((n + 1) + 1)' = Len(sent') + 1
    BY <2>1 DEF Begin
  <2>3. Len(Package(f)) \in Nat
    BY <1>3
  <2> QED
    BY <1>2, <1>3, <2>2, <2>3
<1>8. Begin(1)' = Len(noise') + 1
  <2>1. 1 \in 1 .. n + 1
    BY <1>3
  <2> QED
    BY <1>3, <1>6, <2>1 DEF Layout
<1>9. ASSUME NEW i \in 1 .. n
      PROVE  \E g \in Frames : LaidOut(i, g)'
  <2>0. i \in 1 .. Len(frames)
    BY <1>n
  <2>1. PICK g \in Frames : LaidOut(i, g)
    BY <2>0 DEF Layout
  <2>2. i \in 1 .. n + 1 /\ i + 1 \in 1 .. n + 1 /\ i \in Nat \ {0}
    BY <1>3
  <2>3. Begin(i)' = Begin(i) /\ Begin(i + 1)' = Begin(i + 1)
    BY <1>6, <2>2
  <2>4. Within(sent', Package(g), Begin(i)' - 1)
    <3>1. Begin(i) - 1 \in Nat
      BY <1>1, <2>0, LayoutPositive
    <3>2. Within(sent \o Package(f), Package(g), Begin(i) - 1)
      BY <1>3, <2>1, <3>1, FramePackage, ShiftWithin DEF LaidOut
    <3> QED
      BY <1>2, <2>3, <3>2
  <2> QED
    BY <1>5, <2>1, <2>3, <2>4 DEF LaidOut
<1>10. LaidOut(n + 1, f)'
  <2>1. n + 1 \in 1 .. n + 1 /\ Begin(n + 1) = Len(sent) + 1
    BY <1>1, <1>n, BeginType
  <2>2. Begin(n + 1)' = Len(sent) + 1
    BY <1>6, <2>1
  <2>3. Within(sent', Package(f), Len(sent))
    <3>1. Within(sent \o Package(f), Package(f), Len(sent))
      BY <1>3, EndWithin
    <3> QED
      BY <1>2, <3>1
  <2>4. Begin(n + 1)' - 1 = Len(sent)
    BY <1>3, <2>2
  <2> QED
    BY <1>4, <1>5, <1>7, <2>2, <2>3, <2>4 DEF LaidOut
<1>11. Layout'
  <2>1. ASSUME NEW i \in 1 .. Len(frames')
        PROVE  \E g \in Frames : LaidOut(i, g)'
    <3>1. i \in 1 .. n \/ i = n + 1
      BY <1>3, <1>5
    <3> QED
      BY <1>9, <1>10, <3>1
  <2> QED
    BY <1>8, <2>1 DEF Layout
<1> QED
  BY <1>4, <1>5, <1>n, <1>11

-----------------------------------------------------------------------------
(* Where a turn of the parser is in the stream of frames.                  *)

(* What has been received is the beginning of what was sent.               *)
LEMMA ReceivedWithin ==
  ASSUME FramingType, InStream
  PROVE  Within(sent, Received, 0) /\ Len(Received) <= Len(sent)
<1>1. /\ Received \in Seq(Byte) /\ Len(Received) = Len(sent) - Len(line)
      /\ \A k \in 1 .. Len(Received) : Received[k] = sent[k]
  BY ReceivedType
<1>2. Len(line) \in Nat /\ Len(sent) \in Nat
  BY StreamLengths
<1> QED
  BY <1>1, <1>2 DEF Within

\* In the noise.
InNoise == Position <= Len(noise)

\* At frame i, which is taken as a whole.
AtFrame(i) ==
  /\ frames[i].at = Position
  /\ Position' = End(frames[i])
  /\ Stored(buffer, index, Position) = IF Decodes(frames[i]) THEN <<frames[i]>> ELSE <<>>
  /\ \A j \in 1 .. Len(frames) : Position <= frames[j].at /\ frames[j].at < Position' => j = i

\* Within a frame, of which one byte is skipped.
InsideFrame ==
  /\ Stored(buffer, index, Position) = <<>>
  /\ Position' = Position + 1
  /\ \A j \in 1 .. Len(frames) : frames[j].at # Position

(* A turn takes noise, a byte or more inside a frame that is no header,    *)
(* or a frame from its beginning.                                          *)
LEMMA TurnPlace ==
  ASSUME Aligned, FramingInv, Layout, Turn
  PROVE  InNoise \/ InsideFrame \/ \E i \in 1 .. Len(frames) : AtFrame(i)
<1>1. FramingType /\ InStream
  BY DEF FramingInv
<1>2. /\ Received \in Seq(Byte) /\ Len(Received) \in Nat
      /\ Position \in 1 .. Len(Received) /\ Position \in Nat \ {0}
      /\ ~Incomplete(Received, Position)
      /\ \A p : Stored(Received, Position, p) = Stored(buffer, index, p)
      /\ Position' = Position + Skipped(Received, Position)
  BY <1>1, TurnMoves
<1>3. /\ Within(sent, Received, 0) /\ Len(Received) <= Len(sent) /\ sent \in Seq(Byte)
      /\ Len(sent) \in Nat /\ Len(noise) \in Nat
  BY <1>1, ReceivedWithin DEF FramingType
<1> SUFFICES ASSUME ~InNoise
             PROVE  InsideFrame \/ \E i \in 1 .. Len(frames) : AtFrame(i)
  OBVIOUS
<1>4. PICK i \in 1 .. Len(frames) : Begin(i) <= Position /\ Position < Begin(i + 1)
  <2>1. Position > Len(noise) /\ Position <= Len(sent) /\ Position \in Nat
    BY <1>2, <1>3 DEF InNoise
  <2> QED
    BY <1>1, <2>1, LayoutCovers
<1>5. PICK f \in Frames : LaidOut(i, f)
  BY DEF Layout
<1>6. /\ Begin(i + 1) = End(frames[i]) /\ Begin(i) = frames[i].at
      /\ Begin(i + 1) = Begin(i) + Len(Package(f))
      /\ Begin(i) \in Nat /\ Begin(i + 1) \in Nat
  BY <1>1, <1>5, LayoutStep
<1>7. ASSUME NEW j \in 1 .. Len(frames), Begin(i) <= frames[j].at, frames[j].at < Begin(i + 1)
      PROVE  j = i
  <2>1. /\ Begin(j) = frames[j].at /\ j \in 1 .. Len(frames) + 1 /\ i \in 1 .. Len(frames) + 1
        /\ Begin(j) \in Nat /\ j \in Nat /\ i \in Nat
    <3>1. j \in Nat \ {0}
      OBVIOUS
    <3> QED
      BY <1>1, <3>1, BeginType
  <2>2. CASE i < j
    <3>1. Begin(i + 1) <= Begin(j)
      BY <1>1, <2>1, <2>2, LayoutRises
    <3> QED
      BY <1>6, <1>7, <2>1, <3>1
  <2>3. CASE j < i
    <3>1. Begin(j + 1) <= Begin(i)
      BY <1>1, <2>1, <2>3, LayoutRises
    <3>2. PICK g \in Frames : LaidOut(j, g)
      BY DEF Layout
    <3>3. Begin(j) + 5 <= Begin(j + 1) /\ Begin(j + 1) \in Nat
      BY <1>1, <3>2, LayoutStep
    <3>4. Begin(j) < Begin(j + 1) /\ Begin(i) <= Begin(j)
      BY <1>7, <2>1, <3>3
    <3>5. \A a, b, c \in Nat : ~(a <= b /\ b < c /\ c <= a)
      OBVIOUS
    <3>6. Begin(i) \in Nat
      BY <1>6
    <3> QED
      BY <2>1, <3>1, <3>3, <3>4, <3>5, <3>6, Zenon
  <2> QED
    BY <2>1, <2>2, <2>3
<1>8. CASE Begin(i) = Position
  <2> DEFINE P == Package(f)
  <2>1. /\ WellFormed(P, f) /\ Len(f.data) \in Byte
        /\ Within(sent, P, Position - 1) /\ frames[i].cmd = f.cmd /\ frames[i].data = f.data
    BY <1>5, <1>8, FramePackage DEF LaidOut
  <2> HIDE DEF P
  <2>2. /\ Skipped(Received, Position) = Len(P)
        /\ \A p : Stored(Received, Position, p) =
                    IF Known(f) THEN <<[at |-> p, cmd |-> f.cmd, data |-> f.data]>> ELSE <<>>
    <3>1. Position <= Len(Received)
      BY <1>2
    <3> QED
      BY <1>2, <1>3, <2>1, <3>1, ParseFrame
  <2>3. Position' = End(frames[i])
    BY <1>2, <1>6, <1>8, <2>2 DEF P
  <2>4. Known(f) <=> Decodes(frames[i])
    BY <2>1 DEF Known, Decodes
  <2>5. frames[i] = [at |-> Position, cmd |-> f.cmd, data |-> f.data]
    <3>1. frames[i] \in Item
      BY <1>1 DEF FramingType
    <3> QED
      BY <1>6, <1>8, <2>1, <3>1 DEF Item
  <2>6. Stored(buffer, index, Position) = IF Decodes(frames[i]) THEN <<frames[i]>> ELSE <<>>
    <3>1. Stored(buffer, index, Position) =
            IF Known(f) THEN <<[at |-> Position, cmd |-> f.cmd, data |-> f.data]>> ELSE <<>>
      BY <1>2, <2>2
    <3> QED
      BY <2>4, <2>5, <3>1
  <2>7. AtFrame(i)
    BY <1>6, <1>7, <1>8, <2>3, <2>6 DEF AtFrame
  <2> QED
    BY <2>7
<1>9. CASE Begin(i) # Position
  <2>1. Begin(i) < Position /\ Position \in Nat
    BY <1>2, <1>4, <1>6, <1>9
  <2>2. ~IsHeaderAt(sent, Position)
    BY <1>1, <1>4, <2>1, ParserMeetsNoHeader
  <2>3. ~IsHeaderAt(Received, Position)
    <3>1. ASSUME IsHeaderAt(Received, Position)
          PROVE  FALSE
      <4>1. Position + 2 <= Len(Received)
        BY <1>2, <3>1 DEF IsHeaderAt, HeaderLength
      <4>2. SameHeader(sent, Position + 0, Received, Position)
        BY <1>2, <1>3, <4>1, HeaderWithin, 0 \in Nat
      <4>3. Position + 0 = Position
        BY <1>2
      <4> QED
        BY <2>2, <3>1, <4>2, <4>3 DEF SameHeader
    <3> QED
      BY <3>1
  <2>4. Skipped(Received, Position) = 1 /\ \A p : Stored(Received, Position, p) = <<>>
    BY <2>3 DEF Skipped, Stored
  <2>5. ASSUME NEW j \in 1 .. Len(frames), frames[j].at = Position
        PROVE  FALSE
    <3>1. j = i
      BY <1>4, <1>7, <2>5
    <3> QED
      BY <1>6, <1>9, <2>5, <3>1
  <2>6. InsideFrame
    BY <1>2, <2>4, <2>5 DEF InsideFrame
  <2> QED
    BY <2>6
<1> QED
  BY <1>8, <1>9

-----------------------------------------------------------------------------
(* What has been stored, and what the referee sent.                        *)

\* Whatever is stored begins behind the parser's place no more, and beyond the
\* reach of the noise it is a frame that was sent, all of it in front of there.
StoredWasSent ==
  \A k \in 1 .. Len(delivered) :
    /\ delivered[k].at < Position
    /\ OutOfReach(delivered[k].at) =>
         \E i \in 1 .. Len(frames) :
           /\ frames[i] = delivered[k]
           /\ Decodes(frames[i])
           /\ End(frames[i]) <= Position

\* Beyond that reach a frame that the parser has come to is stored.
SentIsStored ==
  \A i \in 1 .. Len(frames) :
    OutOfReach(frames[i].at) /\ frames[i].at < Position /\ Decodes(frames[i]) =>
      \E k \in 1 .. Len(delivered) : delivered[k] = frames[i]

Ascending ==
  \A j, k \in 1 .. Len(delivered) : j < k => delivered[j].at < delivered[k].at

ResyncInv == FramingInv /\ Layout /\ StoredWasSent /\ SentIsStored /\ Ascending

(* Nothing has been sent and nothing stored.                               *)
LEMMA ResyncInitially == FramingInit => ResyncInv
<1> SUFFICES ASSUME FramingInit
             PROVE  ResyncInv
  OBVIOUS
<1>1. Len(frames) = 0 /\ Len(delivered) = 0
  BY DEF FramingInit
<1> QED
  BY <1>1, FramingInitially, LayoutInitially
     DEF ResyncInv, StoredWasSent, SentIsStored, Ascending

\* The parser's place and what was sent and stored stay.
Same ==
  /\ Position' = Position /\ delivered' = delivered /\ noise' = noise
  /\ frames' = frames /\ sent' = sent

(* They are kept when the parser and the frames are where they were.       *)
LEMMA SameKeeps ==
  ASSUME Layout, StoredWasSent, SentIsStored, Ascending, Same
  PROVE  Layout' /\ StoredWasSent' /\ SentIsStored' /\ Ascending'
<1>1. Layout'
  BY DEF Same, Layout, LaidOut, Begin
<1>2. StoredWasSent'
  BY DEF Same, StoredWasSent, OutOfReach, Decodes, End
<1>3. SentIsStored'
  BY DEF Same, SentIsStored, OutOfReach, Decodes
<1>4. Ascending'
  BY DEF Same, Ascending
<1> QED
  BY <1>1, <1>2, <1>3, <1>4

(* A frame sent begins behind all that has been received.                  *)
LEMMA SendKeepsResync ==
  ASSUME ResyncInv, Send
  PROVE  ResyncInv'
<1>1. FramingInv /\ Layout /\ StoredWasSent /\ SentIsStored /\ Ascending
  BY DEF ResyncInv
<1>2. FramingType /\ InStream
  BY <1>1 DEF FramingInv
<1>3. delivered' = delivered /\ noise' = noise /\ Position' = Position
  BY <1>2, SendReceived DEF Send
<1>4. /\ Layout' /\ Len(frames') = Len(frames) + 1
      /\ \A k \in 1 .. Len(frames) : frames'[k] = frames[k]
      /\ frames'[Len(frames) + 1].at = Len(sent) + 1
  BY <1>1, SendKeepsLayout
<1>5. Len(frames) \in Nat /\ Len(sent) \in Nat
  BY <1>2 DEF FramingType
<1>6. Position <= Len(sent) + 1 /\ Position \in Nat
  <2>1. Position \in 1 .. Len(Received) + 1 /\ Len(Received) <= Len(sent) /\ Len(Received) \in Nat
    BY <1>2, ReceivedType, ReceivedWithin, StreamLengths
  <2> QED
    BY <1>5, <2>1
<1>7. StoredWasSent'
  <2> SUFFICES ASSUME NEW k \in 1 .. Len(delivered)
               PROVE  /\ delivered[k].at < Position
                      /\ OutOfReach(delivered[k].at) =>
                           \E i \in 1 .. Len(frames') :
                             /\ frames'[i] = delivered[k]
                             /\ Decodes(frames'[i])
                             /\ End(frames'[i]) <= Position
    BY <1>3 DEF StoredWasSent, OutOfReach, Decodes, End
  <2>1. delivered[k].at < Position
    BY <1>1 DEF StoredWasSent
  <2>2. ASSUME OutOfReach(delivered[k].at)
        PROVE  \E i \in 1 .. Len(frames') :
                 /\ frames'[i] = delivered[k]
                 /\ Decodes(frames'[i])
                 /\ End(frames'[i]) <= Position
    <3>1. PICK i \in 1 .. Len(frames) :
            frames[i] = delivered[k] /\ Decodes(frames[i]) /\ End(frames[i]) <= Position
      BY <1>1, <2>2 DEF StoredWasSent
    <3>2. i \in 1 .. Len(frames') /\ frames'[i] = frames[i]
      BY <1>4, <1>5
    <3> QED
      BY <3>1, <3>2
  <2> QED
    BY <2>1, <2>2
<1>8. SentIsStored'
  <2> SUFFICES ASSUME NEW i \in 1 .. Len(frames'), OutOfReach(frames'[i].at),
                      frames'[i].at < Position, Decodes(frames'[i])
               PROVE  \E k \in 1 .. Len(delivered) : delivered[k] = frames'[i]
    BY <1>3 DEF SentIsStored, OutOfReach, Decodes
  <2>1. CASE i \in 1 .. Len(frames)
    <3>1. frames'[i] = frames[i]
      BY <1>4, <2>1
    <3> QED
      BY <1>1, <2>1, <3>1 DEF SentIsStored
  <2>2. CASE i = Len(frames) + 1
    <3>1. frames'[i].at = Len(sent) + 1
      BY <1>4, <2>2
    <3> QED
      BY <1>5, <1>6, <3>1
  <2> QED
    BY <1>4, <1>5, <2>1, <2>2
<1>9. Ascending'
  BY <1>1, <1>3 DEF Ascending
<1> QED
  BY <1>1, <1>4, <1>7, <1>8, <1>9, SendKeeps DEF ResyncInv

(* A read does not move the parser in the stream.                          *)
LEMMA ReceiveSame ==
  ASSUME FramingInv, Receive
  PROVE  Same
<1>1. FramingType /\ InStream
  BY DEF FramingInv
<1>2. /\ noise' = noise /\ sent' = sent /\ frames' = frames /\ index' = index
      /\ delivered' = delivered
  BY DEF Receive
<1>3. PICK u \in Seq(Byte) :
        Len(Received') = Len(Received) + Len(u) /\ Len(buffer') = Len(buffer) + Len(u)
  BY <1>1, ReceiveReceived
<1>4. Len(Received) \in Nat /\ Len(buffer) \in Nat /\ Len(u) \in Nat /\ index \in Nat
  BY <1>1, StreamLengths DEF FramingType
<1>5. Position' = Position
  BY <1>2, <1>3, <1>4 DEF Position
<1> QED
  BY <1>2, <1>5 DEF Same

(* Nor does draining the buffer.                                           *)
LEMMA ReturnSame ==
  ASSUME FramingInv, Return
  PROVE  Same
<1>1. FramingType /\ InStream
  BY DEF FramingInv
<1>2. /\ noise' = noise /\ sent' = sent /\ line' = line /\ frames' = frames
      /\ index' = 1 /\ delivered' = delivered
      /\ buffer' = SubSeq(buffer, index, Len(buffer))
  BY DEF Return, Rest
<1>3. /\ index \in 1 .. Len(buffer) + 1 /\ buffer \in Seq(Byte)
      /\ Len(Received) \in Nat /\ Len(buffer) \in Nat
  BY <1>1, StreamLengths DEF FramingType, InStream
<1>4. Received' = Received
  BY <1>2 DEF Received
<1>5. Len(buffer') = Len(buffer) + 1 - index
  BY <1>2, <1>3, RestLength
<1>6. Position' = Len(Received) - Len(buffer') + 1
  BY <1>2, <1>4 DEF Position
<1>7. Position' = Position
  BY <1>3, <1>5, <1>6 DEF Position
<1> QED
  BY <1>2, <1>7 DEF Same

\* One more is stored.
OneMore(item) ==
  /\ Len(delivered') = Len(delivered) + 1
  /\ \A k \in 1 .. Len(delivered) : delivered'[k] = delivered[k]
  /\ delivered'[Len(delivered) + 1] = item

(* At most one item is stored, with the place where it began.              *)
LEMMA StoredItem ==
  ASSUME NEW bytes, NEW i, NEW p, Stored(bytes, i, p) # <<>>
  PROVE  \E item : Stored(bytes, i, p) = <<item>> /\ item.at = p
<1> DEFINE package == PackageAt(bytes, i)
           data == SubSeq(package, HeaderLength + CmdIdLength + 1, Len(package) - Crc16Length)
           item == [at |-> p, cmd |-> package[HeaderLength + 1], data |-> data]
<1>1. Stored(bytes, i, p) = <<item>>
  BY DEF Stored
<1>2. item.at = p
  OBVIOUS
<1> QED
  BY <1>1, <1>2

(* A turn stores nothing or appends one item.                              *)
LEMMA TurnStores ==
  ASSUME FramingInv, Turn
  PROVE  \/ Stored(buffer, index, Position) = <<>> /\ delivered' = delivered
         \/ \E item : /\ Stored(buffer, index, Position) = <<item>>
                      /\ item.at = Position /\ OneMore(item)
<1>1. FramingType /\ InStream
  BY DEF FramingInv
<1>2. delivered' = delivered \o Stored(buffer, index, Position) /\ delivered \in Seq(Item)
  BY <1>1 DEF Turn, FramingType
<1>3. CASE Stored(buffer, index, Position) = <<>>
  <2>1. delivered \o <<>> = delivered
    BY <1>2, ConcatEmptySeq
  <2> QED
    BY <1>2, <1>3, <2>1
<1>4. CASE Stored(buffer, index, Position) # <<>>
  <2>1. PICK item : Stored(buffer, index, Position) = <<item>> /\ item.at = Position
    BY <1>4, StoredItem
  <2> DEFINE one == Stored(buffer, index, Position)
  <2>2. one \in Seq(Item)
    <3>1. Position \in Nat /\ index \in Nat \ {0} /\ buffer \in Seq(Byte) /\ ~Incomplete(buffer, index)
      BY <1>1, TurnMoves DEF FramingType, Turn
    <3> QED
      BY <3>1, StoredType
  <2>3. Len(one) = 1 /\ one[1] = item
    BY <2>1
  <2> HIDE DEF one
  <2>4. /\ Len(delivered \o one) = Len(delivered) + Len(one)
        /\ \A k \in 1 .. Len(delivered) + Len(one) :
             (delivered \o one)[k] =
               IF k <= Len(delivered) THEN delivered[k] ELSE one[k - Len(delivered)]
    BY <1>2, <2>2, ConcatProperties, Zenon
  <2>5. Len(delivered) \in Nat
    BY <1>2
  <2>6. OneMore(item)
    <3>1. Len(delivered') = Len(delivered) + 1
      BY <1>2, <2>3, <2>4 DEF one
    <3>2. ASSUME NEW k \in 1 .. Len(delivered)
          PROVE  delivered'[k] = delivered[k]
      <4>1. k \in 1 .. Len(delivered) + Len(one) /\ k <= Len(delivered)
        BY <2>3, <2>5
      <4> QED
        BY <1>2, <2>4, <4>1 DEF one
    <3>3. delivered'[Len(delivered) + 1] = item
      <4> DEFINE k == Len(delivered) + 1
      <4>1. k \in 1 .. Len(delivered) + Len(one) /\ ~(k <= Len(delivered)) /\ k - Len(delivered) = 1
        BY <2>3, <2>5
      <4> HIDE DEF k
      <4>2. (delivered \o one)[k] = one[k - Len(delivered)]
        BY <2>4, <4>1
      <4> QED
        BY <1>2, <2>3, <4>1, <4>2 DEF one, k
    <3> QED
      BY <3>1, <3>2, <3>3 DEF OneMore
  <2> QED
    BY <2>1, <2>6
<1> QED
  BY <1>3, <1>4

(* A turn stores the frame that begins where the parser is, and passes no  *)
(* frame that begins behind it, out of the reach of the noise.             *)
LEMMA TurnKeepsResync ==
  ASSUME Aligned, ResyncInv, Turn
  PROVE  ResyncInv'
<1>1. FramingInv /\ Layout /\ StoredWasSent /\ SentIsStored /\ Ascending
  BY DEF ResyncInv
<1>2. FramingType /\ InStream
  BY <1>1 DEF FramingInv
<1>3. noise' = noise /\ frames' = frames /\ sent' = sent
  BY DEF Turn
<1>4. /\ Position \in Nat /\ Position > 0 /\ Position' \in Nat
      /\ Position < Position' /\ Position' <= Position + MaxPackage
  <2>1. /\ Position \in Nat \ {0} /\ Skipped(Received, Position) \in 1 .. MaxPackage
        /\ Position' = Position + Skipped(Received, Position)
    BY <1>2, TurnMoves
  <2>2. MaxPackage \in Nat
    <3>1. MaxByte \in Nat
      BY FramingAssumption
    <3> QED
      BY <3>1, LengthType DEF MaxPackage
  <2> QED
    BY <2>1, <2>2
<1>5. InNoise \/ InsideFrame \/ \E i \in 1 .. Len(frames) : AtFrame(i)
  BY <1>1, TurnPlace
<1>6. \/ Stored(buffer, index, Position) = <<>> /\ delivered' = delivered
      \/ \E item : /\ Stored(buffer, index, Position) = <<item>>
                   /\ item.at = Position /\ OneMore(item)
  BY <1>1, TurnStores
<1>7. /\ Len(frames) \in Nat /\ Len(delivered) \in Nat /\ Len(noise) \in Nat
      /\ \A i \in 1 .. Len(frames) : frames[i].at \in Nat
      /\ \A k \in 1 .. Len(delivered) : delivered[k].at \in Nat
  <2>1. /\ \A i \in 1 .. Len(frames) : frames[i] \in Item
        /\ \A k \in 1 .. Len(delivered) : delivered[k] \in Item
    BY <1>2 DEF FramingType
  <2> QED
    BY <1>2, <2>1 DEF FramingType, Item
\* The noise reaches no further than from its last byte on.
<1>8. ASSUME InNoise, NEW p \in Nat, OutOfReach(p)
      PROVE  p >= Position'
  <2>1. noise # <<>>
    BY <1>4, <1>7, <1>8 DEF InNoise
  <2>2. p >= Len(noise) + MaxPackage
    BY <1>8, <2>1 DEF OutOfReach
  <2>3. MaxPackage \in Nat
    <3>1. MaxByte \in Nat
      BY FramingAssumption
    <3> QED
      BY <3>1, LengthType DEF MaxPackage
  <2> QED
    BY <1>4, <1>7, <1>8, <2>2, <2>3 DEF InNoise
<1>9. Layout'
  BY <1>1, <1>3 DEF Layout, LaidOut, Begin
\* What was stored stays right.
<1>10. ASSUME NEW k \in 1 .. Len(delivered)
       PROVE  /\ delivered[k].at < Position'
              /\ OutOfReach(delivered[k].at) =>
                   \E i \in 1 .. Len(frames) :
                     frames[i] = delivered[k] /\ Decodes(frames[i]) /\ End(frames[i]) <= Position'
  <2>1. delivered[k].at < Position
    BY <1>1 DEF StoredWasSent
  <2>2. ASSUME OutOfReach(delivered[k].at)
        PROVE  \E i \in 1 .. Len(frames) :
                 frames[i] = delivered[k] /\ Decodes(frames[i]) /\ End(frames[i]) <= Position'
    <3>1. PICK i \in 1 .. Len(frames) :
            frames[i] = delivered[k] /\ Decodes(frames[i]) /\ End(frames[i]) <= Position
      BY <1>1, <2>2 DEF StoredWasSent
    <3>2. End(frames[i]) \in Nat
      <4>1. PICK f \in Frames : LaidOut(i, f)
        BY <1>1 DEF Layout
      <4> QED
        BY <1>2, <4>1, LayoutStep
    <3>3. End(frames[i]) <= Position'
      BY <1>4, <3>1, <3>2
    <3> QED
      BY <3>1, <3>3
  <2> QED
    BY <1>4, <1>7, <2>1, <2>2
\* What is stored now is right.
<1>11. ASSUME NEW item, Stored(buffer, index, Position) = <<item>>, item.at = Position
       PROVE  /\ item.at < Position'
              /\ OutOfReach(item.at) =>
                   \E i \in 1 .. Len(frames) :
                     frames[i] = item /\ Decodes(frames[i]) /\ End(frames[i]) <= Position'
  <2>1. item.at < Position' /\ <<item>> # <<>>
    BY <1>4, <1>11
  <2>2. ASSUME OutOfReach(item.at)
        PROVE  \E i \in 1 .. Len(frames) :
                 frames[i] = item /\ Decodes(frames[i]) /\ End(frames[i]) <= Position'
    <3>1. CASE InNoise
      BY <1>4, <1>8, <1>11, <2>2, <3>1
    <3>2. CASE InsideFrame
      BY <1>11, <2>1, <3>2 DEF InsideFrame
    <3>3. ASSUME NEW i \in 1 .. Len(frames), AtFrame(i)
          PROVE  frames[i] = item /\ Decodes(frames[i]) /\ End(frames[i]) <= Position'
      <4>1. Decodes(frames[i]) /\ <<item>> = <<frames[i]>>
        BY <1>11, <2>1, <3>3 DEF AtFrame
      <4>2. <<item>>[1] = item /\ <<frames[i]>>[1] = frames[i]
        OBVIOUS
      <4>3. Position' = End(frames[i])
        BY <3>3 DEF AtFrame
      <4> QED
        BY <1>4, <4>1, <4>2, <4>3
    <3> QED
      BY <1>5, <3>1, <3>2, <3>3
  <2> QED
    BY <2>1, <2>2
\* A frame that the parser passes now is stored now.
<1>12. ASSUME NEW i \in 1 .. Len(frames), OutOfReach(frames[i].at), Decodes(frames[i]),
              Position <= frames[i].at, frames[i].at < Position'
       PROVE  Stored(buffer, index, Position) = <<frames[i]>>
  <2>1. CASE InNoise
    <3>1. frames[i].at \in Nat
      BY <1>7
    <3>2. frames[i].at >= Position'
      BY <1>8, <1>12, <2>1, <3>1
    <3> QED
      BY <1>4, <1>12, <3>1, <3>2
  <2>2. CASE InsideFrame
    <3>1. frames[i].at # Position /\ Position' = Position + 1
      BY <2>2 DEF InsideFrame
    <3> QED
      BY <1>4, <1>7, <1>12, <3>1
  <2>3. ASSUME NEW j \in 1 .. Len(frames), AtFrame(j)
        PROVE  Stored(buffer, index, Position) = <<frames[i]>>
    <3>1. i = j
      BY <1>12, <2>3 DEF AtFrame
    <3> QED
      BY <1>12, <2>3, <3>1 DEF AtFrame
  <2> QED
    BY <1>5, <2>1, <2>2, <2>3
<1>13. CASE Stored(buffer, index, Position) = <<>> /\ delivered' = delivered
  <2>1. StoredWasSent'
    BY <1>3, <1>10, <1>13 DEF StoredWasSent, OutOfReach, Decodes, End
  <2>2. SentIsStored'
    <3> SUFFICES ASSUME NEW i \in 1 .. Len(frames), OutOfReach(frames[i].at),
                        frames[i].at < Position', Decodes(frames[i])
                 PROVE  \E k \in 1 .. Len(delivered) : delivered[k] = frames[i]
      BY <1>3, <1>13 DEF SentIsStored, OutOfReach, Decodes
    <3>1. frames[i].at < Position
      <4>1. <<frames[i]>> # <<>>
        OBVIOUS
      <4>2. ~(Position <= frames[i].at)
        BY <1>12, <1>13, <4>1
      <4> QED
        BY <1>4, <1>7, <4>2
    <3> QED
      BY <1>1, <3>1 DEF SentIsStored
  <2>3. Ascending'
    BY <1>1, <1>13 DEF Ascending
  <2> QED
    BY <1>1, <1>9, <2>1, <2>2, <2>3, TurnKeeps DEF ResyncInv
<1>14. ASSUME NEW item, Stored(buffer, index, Position) = <<item>>, item.at = Position,
              OneMore(item)
       PROVE  ResyncInv'
  <2>0. PICK n \in Nat : n = Len(delivered)
    BY <1>7
  <2>1. /\ Len(delivered') = n + 1
        /\ \A k \in 1 .. n : delivered'[k] = delivered[k]
        /\ delivered'[n + 1] = item
    BY <1>14, <2>0 DEF OneMore
  <2>2. StoredWasSent'
    <3> SUFFICES ASSUME NEW k \in 1 .. n + 1
                 PROVE  /\ delivered'[k].at < Position'
                        /\ OutOfReach(delivered'[k].at) =>
                             \E i \in 1 .. Len(frames) :
                               /\ frames[i] = delivered'[k]
                               /\ Decodes(frames[i])
                               /\ End(frames[i]) <= Position'
      BY <1>3, <2>1 DEF StoredWasSent, OutOfReach, Decodes, End
    <3>1. CASE k \in 1 .. n
      <4>1. delivered'[k] = delivered[k] /\ k \in 1 .. Len(delivered)
        BY <2>0, <2>1, <3>1
      <4> QED
        BY <1>10, <4>1
    <3>2. CASE k = n + 1
      BY <1>11, <1>14, <2>1, <3>2
    <3> QED
      BY <3>1, <3>2
  <2>3. SentIsStored'
    <3> SUFFICES ASSUME NEW i \in 1 .. Len(frames), OutOfReach(frames[i].at),
                        frames[i].at < Position', Decodes(frames[i])
                 PROVE  \E k \in 1 .. n + 1 : delivered'[k] = frames[i]
      BY <1>3, <2>1 DEF SentIsStored, OutOfReach, Decodes
    <3>1. CASE frames[i].at < Position
      <4>1. PICK k \in 1 .. Len(delivered) : delivered[k] = frames[i]
        BY <1>1, <3>1 DEF SentIsStored
      <4>2. k \in 1 .. n + 1 /\ delivered'[k] = delivered[k]
        BY <2>0, <2>1
      <4> QED
        BY <4>1, <4>2
    <3>2. CASE Position <= frames[i].at
      <4>1. <<item>> = <<frames[i]>>
        BY <1>12, <1>14, <3>2
      <4>2. <<item>>[1] = item /\ <<frames[i]>>[1] = frames[i]
        OBVIOUS
      <4>3. n + 1 \in 1 .. n + 1
        OBVIOUS
      <4> QED
        BY <2>1, <4>1, <4>2, <4>3
    <3> QED
      BY <1>4, <1>7, <3>1, <3>2
  <2>4. Ascending'
    <3> SUFFICES ASSUME NEW j \in 1 .. n + 1, NEW k \in 1 .. n + 1, j < k
                 PROVE  delivered'[j].at < delivered'[k].at
      BY <2>1 DEF Ascending
    <3>1. j \in 1 .. Len(delivered) /\ delivered'[j] = delivered[j]
      BY <2>0, <2>1
    <3>2. CASE k \in 1 .. n
      <4>1. k \in 1 .. Len(delivered) /\ delivered'[k] = delivered[k]
        BY <2>0, <2>1, <3>2
      <4> QED
        BY <1>1, <3>1, <4>1 DEF Ascending
    <3>3. CASE k = n + 1
      <4>1. delivered[j].at < Position
        BY <1>1, <3>1 DEF StoredWasSent
      <4> QED
        BY <1>14, <2>1, <3>1, <3>3, <4>1
    <3> QED
      BY <3>2, <3>3
  <2> QED
    BY <1>1, <1>9, <2>2, <2>3, <2>4, TurnKeeps DEF ResyncInv
<1> QED
  BY <1>6, <1>13, <1>14

(* Between two reads the parser has passed every frame that has arrived,   *)
(* beyond the reach of the noise.                                          *)
LEMMA ArrivedIsPassed ==
  ASSUME Aligned, FramingType, InStream, Layout, Incomplete(Received, Position),
         NEW i \in 1 .. Len(frames), OutOfReach(frames[i].at), HasArrived(frames[i])
  PROVE  frames[i].at < Position
<1>1. /\ Position \in 1 .. Len(Received) + 1 /\ Received \in Seq(Byte) /\ Len(Received) \in Nat
      /\ Position \in Nat \ {0} /\ Position \in Nat
  <2>1. Position \in 1 .. Len(Received) + 1 /\ Received \in Seq(Byte)
    BY ReceivedType
  <2> QED
    BY <2>1
<1>2. /\ Within(sent, Received, 0) /\ Len(Received) <= Len(sent) /\ sent \in Seq(Byte)
      /\ Len(sent) \in Nat /\ Len(noise) \in Nat
  BY ReceivedWithin DEF FramingType
<1>3. PICK f \in Frames : LaidOut(i, f)
  BY DEF Layout
<1>4. /\ Begin(i) \in Nat /\ Begin(i + 1) \in Nat /\ Begin(i) + 5 <= Begin(i + 1)
      /\ Begin(i) = frames[i].at /\ Begin(i + 1) = End(frames[i])
  BY <1>3, LayoutStep
<1>5. Begin(i + 1) <= Len(Received) + 1
  <2>1. frames[i].at \in Nat /\ PackageLength(Len(frames[i].data)) \in Nat
    BY <1>3, <1>4, LayoutStep
  <2>2. End(frames[i]) - 1 <= Len(Received)
    BY <1>1, <2>1 DEF HasArrived, End
  <2> QED
    BY <1>1, <1>4, <2>2
<1> SUFFICES ASSUME Position <= Begin(i)
             PROVE  FALSE
  BY <1>1, <1>4
<1>6. Position + 4 <= Len(Received)
  BY <1>1, <1>4, <1>5
<1>7. /\ IsHeaderAt(Received, Position)
      /\ Position + PackageLength(Received[Position + 1]) - 1 > Len(Received)
  <2>1. Position <= Len(Received) /\ ~(Position + HeaderLength - 1 > Len(Received))
    BY <1>1, <1>6 DEF HeaderLength
  <2> QED
    BY <2>1 DEF Incomplete
<1>8. SameHeader(sent, Position, Received, Position)
  <2>1. Position + 2 <= Len(Received) /\ Position + 0 = Position
    BY <1>1, <1>6
  <2>2. SameHeader(sent, Position + 0, Received, Position)
    BY <1>1, <1>2, <2>1, HeaderWithin, 0 \in Nat
  <2> QED
    BY <2>1, <2>2
<1>9. PackageLength(Received[Position + 1]) \in 1 .. MaxPackage /\ MaxPackage \in Nat
  <2>1. Position + 1 \in 1 .. Len(Received)
    BY <1>1, <1>6
  <2>2. Received[Position + 1] \in Byte
    BY <1>1, <2>1
  <2>3. MaxByte \in Nat
    BY FramingAssumption
  <2>4. MaxPackage \in Nat
    BY <2>3, LengthType DEF MaxPackage
  <2> QED
    BY <2>2, <2>4, LengthBound
<1>10. CASE Position <= Len(noise)
  <2>1. noise # <<>>
    BY <1>1, <1>10
  <2>2. Begin(i) >= Len(noise) + MaxPackage
    BY <1>4, <2>1 DEF OutOfReach
  <2>3. Position + PackageLength(Received[Position + 1]) - 1 < Begin(i)
    <3>1. ASSUME NEW p \in Nat, NEW m \in Nat, NEW l \in 1 .. m, NEW n \in Nat,
                 NEW b \in Nat, p <= n, b >= n + m
          PROVE  p + l - 1 < b
      BY <3>1
    <3>2. Position \in Nat /\ Len(noise) \in Nat /\ Begin(i) \in Nat
      BY <1>1, <1>2, <1>4
    <3> HIDE DEF Position, Begin
    <3> QED
      BY <1>9, <1>10, <2>2, <3>1, <3>2
  <2>4. Begin(i) <= Len(Received)
    BY <1>1, <1>4, <1>5
  <2>5. /\ Position + PackageLength(Received[Position + 1]) - 1 > Len(Received)
        /\ Position \in Nat /\ PackageLength(Received[Position + 1]) \in Nat
        /\ Begin(i) \in Nat /\ Len(Received) \in Nat
    BY <1>1, <1>4, <1>7, <1>9
  <2>6. \A x, b, n \in Int : ~(x < b /\ b <= n /\ x > n)
    OBVIOUS
  <2>7. Position + PackageLength(Received[Position + 1]) - 1 \in Int
    BY <2>5
  <2>8. Begin(i) \in Int /\ Len(Received) \in Int
    BY <2>5
  <2> QED
    BY <2>3, <2>4, <2>5, <2>6, <2>7, <2>8, Zenon
<1>11. CASE ~(Position <= Len(noise))
  <2>1. PICK j \in 1 .. Len(frames) : Begin(j) <= Position /\ Position < Begin(j + 1)
    <3>1. Position > Len(noise) /\ Position <= Len(sent)
      BY <1>1, <1>2, <1>6, <1>11
    <3> QED
      BY <1>1, <3>1, LayoutCovers
  <2>2. PICK g \in Frames : LaidOut(j, g)
    BY DEF Layout
  <2>3. /\ Begin(j) \in Nat \ {0} /\ Begin(j + 1) \in Nat
        /\ Begin(j + 1) = Begin(j) + Len(Package(g)) /\ Len(Package(g)) \in Nat
    BY <2>2, LayoutStep, LayoutPositive
  <2>4. Begin(j) = Position
    <3>1. CASE Begin(j) < Position
      <4>1. ~IsHeaderAt(sent, Position)
        BY <1>1, <2>1, <3>1, ParserMeetsNoHeader
      <4> QED
        BY <1>7, <1>8, <4>1 DEF SameHeader
    <3> QED
      BY <1>1, <2>1, <2>3, <3>1
  <2>5. Begin(j + 1) <= Len(Received) + 1
    <3>1. /\ i \in Nat /\ j \in Nat /\ i \in 1 .. Len(frames) + 1 /\ j \in 1 .. Len(frames) + 1
      BY BeginType
    <3>2. CASE j = i
      BY <1>5, <3>2
    <3>3. CASE j < i
      <4>1. Begin(j + 1) <= Begin(i)
        BY <3>1, <3>3, LayoutRises
      <4>2. Begin(i) <= Begin(i + 1)
        BY <1>4
      <4>3. Begin(j + 1) <= Begin(i + 1)
        BY <1>4, <2>3, <4>1, <4>2
      <4>4. Len(Received) + 1 \in Nat
        BY <1>1
      <4> QED
        BY <1>4, <1>5, <2>3, <4>3, <4>4
    <3>4. CASE i < j
      <4>1. Begin(i + 1) <= Begin(j)
        BY <3>1, <3>4, LayoutRises
      <4>2. Begin(j) <= Begin(i)
        BY <2>4
      <4>3. Begin(i) < Begin(i + 1)
        BY <1>4
      <4> QED
        BY <1>4, <2>3, <4>1, <4>2, <4>3
    <3> QED
      BY <3>1, <3>2, <3>3, <3>4
  <2> DEFINE P == Package(g)
  <2>6. WellFormed(P, g) /\ Len(g.data) \in Byte /\ Within(sent, P, Position - 1)
    BY <2>2, <2>4, FramePackage DEF LaidOut
  <2>7. Position + Len(P) <= Len(Received) + 1
    BY <2>3, <2>4, <2>5
  <2> HIDE DEF P
  <2>8. ~Incomplete(Received, Position)
    BY <1>1, <1>2, <2>6, <2>7, WholeFrame
  <2> QED
    BY <2>8
<1> QED
  BY <1>10, <1>11

(* The invariant holds in every behaviour.                                 *)
LEMMA ResyncInvariant ==
  ASSUME HeadersOnlyInFront
  PROVE  FramingSpec => []ResyncInv
<1>1. ASSUME ResyncInv, [FramingNext]_framingVars
      PROVE  ResyncInv'
  <2>1. FramingInv /\ Layout /\ StoredWasSent /\ SentIsStored /\ Ascending
    BY <1>1 DEF ResyncInv
  <2>2. CASE Send
    BY <1>1, <2>2, SendKeepsResync
  <2>3. CASE Receive
    BY <2>1, <2>3, ReceiveKeeps, ReceiveSame, SameKeeps DEF ResyncInv
  <2>4. CASE Turn
    BY <1>1, <2>4, TurnKeepsResync DEF Aligned
  <2>5. CASE Return
    BY <2>1, <2>5, ReturnKeeps, ReturnSame, SameKeeps DEF ResyncInv
  <2>6. CASE UNCHANGED framingVars
    <3>1. Same
      <4>1. Received' = Received
        BY <2>6 DEF framingVars, Received
      <4> QED
        BY <2>6, <4>1 DEF Same, Position, framingVars
    <3> QED
      BY <2>1, <2>6, <3>1, FramingStutters, SameKeeps DEF ResyncInv
  <2> QED
    BY <1>1, <2>2, <2>3, <2>4, <2>5, <2>6 DEF FramingNext
<1> QED
  BY ResyncInitially, <1>1, PTL DEF FramingSpec

(* Between two reads, what has been stored is what has arrived.            *)
LEMMA ResyncImplies ==
  ASSUME Aligned, ResyncInv
  PROVE  Resynchronises
<1>1. ASSUME ~parsing
      PROVE  /\ {d \in Range(delivered) : OutOfReach(d.at)}
                  = {f \in Range(frames) : OutOfReach(f.at) /\ HasArrived(f) /\ Decodes(f)}
             /\ \A i, j \in DOMAIN delivered : i < j => delivered[i].at < delivered[j].at
  <2>1. FramingInv /\ Layout /\ StoredWasSent /\ SentIsStored /\ Ascending
    BY DEF ResyncInv
  <2>2. FramingType /\ InStream /\ AtRest
    BY <2>1 DEF FramingInv
  <2>3. /\ DOMAIN delivered = 1 .. Len(delivered) /\ DOMAIN frames = 1 .. Len(frames)
        /\ Range(delivered) = {delivered[k] : k \in 1 .. Len(delivered)}
        /\ Range(frames) = {frames[i] : i \in 1 .. Len(frames)}
    BY <2>2 DEF FramingType, Range
  <2>4. /\ Incomplete(Received, Position) /\ Position \in 1 .. Len(Received) + 1
        /\ Received \in Seq(Byte) /\ Len(Received) \in Nat /\ Position \in Nat \ {0}
    <3>1. Incomplete(buffer, index)
      BY <1>1, <2>2 DEF AtRest
    <3>2. Position \in 1 .. Len(Received) + 1 /\ Received \in Seq(Byte)
      BY <2>2, ReceivedType
    <3> QED
      BY <2>2, <3>1, <3>2, ParserStops
  <2>5. ASSUME NEW i \in 1 .. Len(frames), OutOfReach(frames[i].at), HasArrived(frames[i])
        PROVE  frames[i].at < Position
    BY <2>1, <2>2, <2>4, <2>5, ArrivedIsPassed
  <2>6. ASSUME NEW k \in 1 .. Len(delivered), OutOfReach(delivered[k].at)
        PROVE  \E i \in 1 .. Len(frames) :
                 delivered[k] = frames[i] /\ HasArrived(frames[i]) /\ Decodes(frames[i])
    <3>1. PICK i \in 1 .. Len(frames) :
            frames[i] = delivered[k] /\ Decodes(frames[i]) /\ End(frames[i]) <= Position
      BY <2>1, <2>6 DEF StoredWasSent
    <3>2. frames[i].at \in Nat /\ PackageLength(Len(frames[i].data)) \in Nat
      <4>1. PICK f \in Frames : LaidOut(i, f)
        BY <2>1 DEF Layout
      <4> QED
        BY <2>2, <4>1, LayoutStep
    <3>3. ASSUME NEW a \in Nat, NEW l \in Nat, a + l <= Position
          PROVE  a + l - 1 <= Len(Received)
      <4>1. Position <= Len(Received) + 1
        BY <2>4
      <4> QED
        BY <2>4, <3>3, <4>1
    <3>4. HasArrived(frames[i])
      BY <3>1, <3>2, <3>3 DEF HasArrived, End
    <3> QED
      BY <3>1, <3>4
  <2>7. ASSUME NEW i \in 1 .. Len(frames), OutOfReach(frames[i].at), HasArrived(frames[i]),
               Decodes(frames[i])
        PROVE  \E k \in 1 .. Len(delivered) : delivered[k] = frames[i]
    BY <2>1, <2>5, <2>7 DEF SentIsStored
  <2>8. {d \in Range(delivered) : OutOfReach(d.at)}
          = {f \in Range(frames) : OutOfReach(f.at) /\ HasArrived(f) /\ Decodes(f)}
    BY <2>3, <2>6, <2>7
  <2> QED
    BY <2>1, <2>3, <2>8 DEF Ascending
<1> QED
  BY <1>1 DEF Resynchronises

(* Resynchronises: in a stream that begins with noise, be it the end or    *)
(* the beginning of a frame or a frame with a changed byte, the parser     *)
(* stores exactly the decodable ones of the frames behind the noise's      *)
(* reach, whatever the frames, as long as none of them holds a header      *)
(* within.                                                                 *)
THEOREM ResynchronisesCorrect ==
  ASSUME HeadersOnlyInFront
  PROVE  FramingSpec => []Resynchronises
<1>1. ResyncInv => Resynchronises
  BY ResyncImplies DEF Aligned
<1> QED
  BY <1>1, ResyncInvariant, PTL

-----------------------------------------------------------------------------
(* Streams without noise.                                                  *)

(* The parser begins where the first frame will.                           *)
LEMMA BeginningInitially ==
  ASSUME FramingInit, noise = <<>>
  PROVE  AtBeginning
<1>1. Position = 1 /\ frames = <<>> /\ Len(sent) = 0
  BY DEF FramingInit, Position, Received
<1> QED
  BY <1>1 DEF AtBeginning, Begin

(* Sending, reading and draining do not move it off a beginning.           *)
LEMMA SendKeepsBeginning ==
  ASSUME FramingInv, Layout, AtBeginning, Send
  PROVE  AtBeginning'
<1>1. FramingType /\ InStream
  BY DEF FramingInv
<1>2. Position' = Position /\ noise' = noise
  BY <1>1, SendReceived DEF Send
<1>3. /\ Len(frames') = Len(frames) + 1 /\ Len(frames) \in Nat
      /\ \A k \in 1 .. Len(frames) : frames'[k] = frames[k]
      /\ frames'[Len(frames) + 1].at = Len(sent) + 1
  BY <1>1, SendKeepsLayout, BeginType
<1>4. PICK k \in 1 .. Len(frames) + 1 : Position = Begin(k)
  BY DEF AtBeginning
<1>5. k \in 1 .. Len(frames') + 1 /\ k <= Len(frames')
  BY <1>3, <1>4
<1>6. frames'[k].at = Begin(k)
  <2>1. CASE k <= Len(frames)
    BY <1>3, <2>1 DEF Begin
  <2>2. CASE ~(k <= Len(frames))
    <3>1. k = Len(frames) + 1
      BY <1>3, <2>2
    <3> QED
      BY <1>3, <2>2, <3>1 DEF Begin
  <2> QED
    BY <2>1, <2>2
<1> QED
  BY <1>2, <1>4, <1>5, <1>6 DEF AtBeginning, Begin

LEMMA SameKeepsBeginning ==
  ASSUME AtBeginning, Same
  PROVE  AtBeginning'
  BY DEF Same, AtBeginning, Begin

(* A turn takes it from one beginning to the next.                         *)
LEMMA TurnKeepsBeginning ==
  ASSUME FramingInv, Layout, AtBeginning, Turn
  PROVE  AtBeginning'
<1>1. FramingType /\ InStream
  BY DEF FramingInv
<1>2. PICK k \in 1 .. Len(frames) + 1 : Position = Begin(k)
  BY DEF AtBeginning
<1>3. /\ Len(frames) \in Nat /\ Len(sent) \in Nat /\ Position \in Nat \ {0}
      /\ Position <= Len(sent) /\ noise = <<>>
  <2>1. Position \in 1 .. Len(Received) /\ Position \in Nat \ {0} /\ Len(Received) \in Nat
    BY <1>1, TurnMoves
  <2>2. Len(Received) <= Len(sent)
    BY <1>1, ReceivedWithin
  <2> QED
    BY <1>1, <2>1, <2>2, BeginType DEF AtBeginning
<1>4. ~InNoise
  <2>1. Len(noise) = 0
    BY <1>3
  <2> QED
    BY <1>3, <2>1 DEF InNoise
<1>5. ~InsideFrame
  <2>1. CASE k <= Len(frames)
    <3>1. k \in 1 .. Len(frames) /\ Position = frames[k].at
      BY <1>2, <1>3, <2>1 DEF Begin
    <3> QED
      BY <3>1 DEF InsideFrame
  <2>2. CASE ~(k <= Len(frames))
    <3>1. Position = Len(sent) + 1
      BY <1>2, <2>2 DEF Begin
    <3> QED
      BY <1>3, <3>1
  <2> QED
    BY <2>1, <2>2
<1>6. PICK i \in 1 .. Len(frames) : AtFrame(i)
  BY <1>4, <1>5, TurnPlace DEF Aligned
<1>7. PICK f \in Frames : LaidOut(i, f)
  BY DEF Layout
<1>8. Position' = Begin(i + 1) /\ i + 1 \in 1 .. Len(frames) + 1
  <2>1. Begin(i + 1) = End(frames[i])
    BY <1>1, <1>7, LayoutStep
  <2> QED
    BY <1>3, <1>6, <2>1 DEF AtFrame
<1>9. frames' = frames /\ sent' = sent /\ noise' = noise
  BY DEF Turn
<1> QED
  BY <1>3, <1>8, <1>9 DEF AtBeginning, Begin

(* In a stream without noise both invariants hold.                         *)
CleanInv == noise = <<>> => ResyncInv /\ AtBeginning

LEMMA CleanInvariant == FramingSpec => []CleanInv
<1>1. FramingInit => CleanInv
  BY ResyncInitially, BeginningInitially DEF CleanInv
<1>2. ASSUME CleanInv, [FramingNext]_framingVars
      PROVE  CleanInv'
  <2>1. noise' = noise
    BY <1>2 DEF FramingNext, Send, Receive, Turn, Return, framingVars
  <2> SUFFICES ASSUME noise = <<>>
               PROVE  ResyncInv' /\ AtBeginning'
    BY <2>1 DEF CleanInv
  <2>2. ResyncInv /\ AtBeginning /\ Aligned /\ FramingInv /\ Layout
    BY <1>2 DEF CleanInv, ResyncInv, Aligned
  <2>3. StoredWasSent /\ SentIsStored /\ Ascending
    BY <2>2 DEF ResyncInv
  <2>4. CASE Send
    BY <2>2, <2>4, SendKeepsResync, SendKeepsBeginning
  <2>5. CASE Turn
    BY <2>2, <2>5, TurnKeepsResync, TurnKeepsBeginning
  <2>6. ASSUME FramingInv', Same
        PROVE  ResyncInv' /\ AtBeginning'
    BY <2>2, <2>3, <2>6, SameKeeps, SameKeepsBeginning DEF ResyncInv
  <2>7. CASE Receive
    BY <2>2, <2>6, <2>7, ReceiveKeeps, ReceiveSame
  <2>8. CASE Return
    BY <2>2, <2>6, <2>8, ReturnKeeps, ReturnSame
  <2>9. CASE UNCHANGED framingVars
    <3>1. Same
      <4>1. Received' = Received
        BY <2>9 DEF framingVars, Received
      <4> QED
        BY <2>9, <4>1 DEF Same, Position, framingVars
    <3> QED
      BY <2>2, <2>6, <2>9, <3>1, FramingStutters
  <2> QED
    BY <1>2, <2>4, <2>5, <2>7, <2>8, <2>9 DEF FramingNext
<1> QED
  BY <1>1, <1>2, PTL DEF FramingSpec

(* A stream without noise is stored exactly, whatever the frames hold: each *)
(* frame that decodes once, in order, as soon as it has been read.          *)
THEOREM CleanStreamCorrect == FramingSpec => [](noise = <<>> => Resynchronises)
<1>1. CleanInv => (noise = <<>> => Resynchronises)
  BY ResyncImplies DEF CleanInv, Aligned
<1> QED
  BY <1>1, CleanInvariant, PTL
=============================================================================
