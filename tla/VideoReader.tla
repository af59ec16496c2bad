---------------------------- MODULE VideoReader ----------------------------
(***************************************************************************)
(* The laser video (src/laser/video.rs): a task of its own polls the       *)
(* header of the shared memory every 2 ms, without any lock shared with    *)
(* the producer, and copies the named buffer into a cell behind a mutex;   *)
(* the UI makes a texture of the cell while the laser tab is shown         *)
(* (src/app/video_texture.rs).                                             *)
(*                                                                         *)
(* Every access to the shared memory is a step.                            *)
(***************************************************************************)
EXTENDS ShmProducer

VARIABLES
  place,     \* where the task is; "off" before the first visit to the tab
  mapped,    \* the object it has mapped
  last_seq,
  elapsed,   \* more than 800 ms since last_frame_update
  local,     \* what it has read of the frame it is at, with some history
  cell,      \* the VideoFrame behind the mutex
  texture    \* the texture cache has a texture

reader == <<place, mapped, last_seq, elapsed, local>>
vars == <<producer, reader, cell, texture>>

None == [none |-> TRUE]

\* newest, sameLife and unflipped are history: the last frame complete when seq
\* was read; the producer has not been started in this object since then; nor has
\* write_idx moved since it was read.
Local == [seq : Frame, newest : Frame, read_idx : 0 .. 1, copied : Frame,
          unflipped : BOOLEAN, sameLife : BOOLEAN]
VideoFrame == [seq : Frame, newest : Frame, data : Picture,
               unflipped : BOOLEAN, sameLife : BOOLEAN]

AtFrame == {"magic", "index", "copy", "update"}
Attached == AtFrame \cup {"attach", "poll"}

TypeOK ==
  /\ ProducerTypeOK
  /\ place \in Attached \cup {"off", "open", "wait", "done"}
  /\ mapped \in 0 .. created
  /\ place \in Attached <=> mapped # NoObject
  /\ last_seq \in Frame
  /\ elapsed \in BOOLEAN
  /\ IF place \in AtFrame THEN local \in Local ELSE local = None
  /\ cell \in VideoFrame \cup {None}
  /\ texture \in BOOLEAN

Init ==
  /\ ProducerInit
  /\ place = "off" /\ mapped = NoObject
  /\ last_seq = 0 /\ elapsed = FALSE /\ local = None
  /\ cell = None /\ texture = FALSE

-----------------------------------------------------------------------------
(* The task (run_video_client).                                            *)

\* open_shm: the name has to exist and the magic number to be there.
Open ==
  /\ place = "open"
  /\ IF named # NoObject /\ magic[named]
     THEN mapped' = named /\ place' = "attach" /\ UNCHANGED cell
     ELSE cell' = None /\ place' = "wait" /\ UNCHANGED mapped
  /\ UNCHANGED <<producer, last_seq, elapsed, local, texture>>

\* Mutant: every frame that is there counts as new.
FirstSeq_Zero == 0

\* A frame that is there already does not count as new.
FirstSeq == frame_seq[mapped]

Attach ==
  /\ place = "attach"
  /\ last_seq' = FirstSeq
  /\ elapsed' = FALSE
  /\ place' = "poll"
  /\ UNCHANGED <<producer, mapped, local, cell, texture>>

Wait ==
  /\ place = "wait"
  /\ place' = "open"
  /\ UNCHANGED <<producer, mapped, last_seq, elapsed, local, cell, texture>>

\* The cell is emptied; what the inner loop knew ends with it.
Disconnect ==
  /\ cell' = None /\ mapped' = NoObject /\ local' = None /\ place' = "wait"
  /\ last_seq' = 0 /\ elapsed' = FALSE

\* Mutant: no timeout.
TimedOut_Never == FALSE

\* Mutant: the timeout is looked at before the sequence number.
TimedOut_First == elapsed

\* 800 ms without a new sequence number.
TimedOut == elapsed /\ frame_seq[mapped] = last_seq

Stalled ==
  /\ place = "poll"
  /\ TimedOut
  /\ Disconnect
  /\ UNCHANGED <<producer, texture>>

NewSeq ==
  /\ place = "poll"
  /\ frame_seq[mapped] # last_seq
  /\ local' = [seq |-> frame_seq[mapped], newest |-> complete[mapped],
               read_idx |-> 0, copied |-> 0, unflipped |-> FALSE, sameLife |-> TRUE]
  /\ last_seq' = frame_seq[mapped]
  /\ elapsed' = FALSE
  /\ place' = "magic"
  /\ UNCHANGED <<producer, mapped, cell, texture>>

CheckMagic ==
  /\ place = "magic"
  /\ IF magic[mapped]
     THEN place' = "index" /\ UNCHANGED <<mapped, last_seq, elapsed, local, cell>>
     ELSE Disconnect
  /\ UNCHANGED <<producer, texture>>

\* Mutant: one buffer.
ActiveBuffer_First == 0

ActiveBuffer == write_idx[mapped]

ReadIndex ==
  /\ place = "index"
  /\ local' = [local EXCEPT !.read_idx = ActiveBuffer, !.unflipped = local.sameLife]
  /\ place' = "copy"
  /\ UNCHANGED <<producer, mapped, last_seq, elapsed, cell, texture>>

\* VideoFrameWriter::update copies under the mutex of the cell.
CopyHalf ==
  /\ place = "copy"
  /\ local' = [local EXCEPT !.copied = buf[mapped][local.read_idx][1]]
  /\ place' = "update"
  /\ UNCHANGED <<producer, mapped, last_seq, elapsed, cell, texture>>

Update ==
  /\ place = "update"
  /\ cell' = [seq |-> local.seq, newest |-> local.newest,
              data |-> <<local.copied, buf[mapped][local.read_idx][2]>>,
              unflipped |-> local.unflipped, sameLife |-> local.sameLife]
  /\ local' = None
  /\ place' = "poll"
  /\ UNCHANGED <<producer, mapped, last_seq, elapsed, texture>>

\* The program ends: the task returns where it sleeps.
Shutdown ==
  /\ place \in {"wait", "poll"}
  /\ place' = "done"
  /\ mapped' = NoObject /\ last_seq' = 0 /\ elapsed' = FALSE
  /\ UNCHANGED <<producer, local, cell, texture>>

Task == Open \/ Attach \/ Wait \/ Stalled \/ NewSeq \/ CheckMagic \/ ReadIndex \/ CopyHalf \/ Update

Elapse ==
  /\ place = "poll" /\ ~elapsed
  /\ elapsed' = TRUE
  /\ UNCHANGED <<producer, place, mapped, last_seq, local, cell, texture>>

-----------------------------------------------------------------------------
(* The UI.                                                                 *)

\* ensure_video_started, when the laser tab is drawn for the first time.
EnsureStarted ==
  /\ place = "off"
  /\ place' = "open"
  /\ UNCHANGED <<producer, mapped, last_seq, elapsed, local, cell, texture>>

\* VideoTextureCache::refresh, while the tab is shown.
Refresh ==
  /\ place # "update"
  /\ texture' = (cell # None)
  /\ UNCHANGED <<producer, reader, cell>>

-----------------------------------------------------------------------------

\* A step of the producer, and what the histories make of it.
ProducerMoves ==
  /\ Producer
  /\ local' = IF local = None THEN None
              ELSE LET same == local.sameLife /\ ~Restarted(mapped)
                   IN [local EXCEPT
                         !.sameLife = same,
                         !.unflipped = @ /\ same /\ write_idx'[mapped] = write_idx[mapped]]
  /\ UNCHANGED <<place, mapped, last_seq, elapsed, cell, texture>>

Next == ProducerMoves \/ Task \/ Elapse \/ Shutdown \/ EnsureStarted \/ Refresh

Spec == Init /\ [][Next]_vars

(***************************************************************************)
(* The task polls and sleeps for bounded times, time passes, and the UI    *)
(* repaints every 100 ms, the tab being shown again and again, and gets    *)
(* the mutex.                                                              *)
(***************************************************************************)
Fairness == WF_vars(Task) /\ WF_vars(Elapse) /\ SF_vars(Refresh)

FairSpec == Spec /\ Fairness

-----------------------------------------------------------------------------
(* Properties.                                                             *)

\* Unless the producer has flipped the buffers while the reader copied, the
\* picture of a counted frame is one whole frame.
WholeUnlessFlipped ==
  cell # None /\ cell.unflipped /\ cell.seq # 0
    => cell.data[1] = cell.data[2]

\* No part of a picture is older than its sequence number, which is read first: a
\* late copy is newer or mixed, and is followed by a new number.  (Within one life
\* of the producer: a start in place renumbers.)
NotOlderThanSeq ==
  cell # None /\ cell.sameLife => \A h \in Halves : cell.data[h] >= cell.newest

(* Without any lock shared with the producer a picture is still whole      *)
(* unless the buffers were flipped under the copy, and never older than    *)
(* the number it is shown under.                                           *)
PictureSound == TypeOK /\ WholeUnlessFlipped /\ NotOlderThanSeq

(* A frame counted while the reader is in its loop gets into the cell,     *)
(* or one after it, unless a producer is started again, in this object or  *)
(* in a new one.  It is about the cell: whether the texture follows it is  *)
(* another matter, because a picture with the number of the one before is  *)
(* not uploaded (src/app/video_texture.rs:22-28).                          *)
Delivered ==
  \A f \in 1 .. MaxFrames :
    (/\ place = "poll" /\ magic[mapped]
     /\ complete[mapped] = f /\ frame_seq[mapped] # last_seq)
      ~> \/ cell # None /\ cell.newest >= f
         \/ at = "init"
         \/ place = "done"

(* When the producer has gone for good its last picture does not stay on   *)
(* the screen.                                                             *)
DeadPictureCleared ==
  <>[](at = "off" /\ place # "done") => <>[]~texture

(* A reader that holds the object of a producer that was stopped comes     *)
(* over to the object of the next one.                                     *)
Reattaches ==
  \A o \in Object :
    <>[](named = o /\ magic[o] /\ place \notin {"off", "done"}) => []<>(mapped = o)

=============================================================================
