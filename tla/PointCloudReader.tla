-------------------------- MODULE PointCloudReader --------------------------
(***************************************************************************)
(* The point cloud (src/pointcloud/reader.rs): the same polling loop as    *)
(* the laser video's, but a cloud that is there already counts as new, the *)
(* number of points is read from the header of each frame, and a cloud     *)
(* that never changes is a case of its own: the map is written once.       *)
(*                                                                         *)
(* Every access to the shared memory is a step.                            *)
(***************************************************************************)
EXTENDS ShmProducer

VARIABLES
  point_count,  \* header field: the frame whose number of points it is
  place,     \* where the task is; "off" before the first visit to the tab
  mapped,    \* the object it has mapped
  last_seq,
  first_frame_received,
  elapsed,   \* more than 800 ms since last_frame_update
  local,     \* what it has read of the frame it is at, with some history
  cell,      \* the PointCloudFrame behind the mutex
  recording, \* rerun_viz.rec: connected to Rerun, which the feature "rerun" has to allow
  pointcloud_last_seq  \* the number of the cloud that the UI gave to Rerun last

reader == <<place, mapped, last_seq, first_frame_received, elapsed, local>>
rerun == <<recording, pointcloud_last_seq>>
vars == <<producer, point_count, reader, cell, rerun>>

None == [none |-> TRUE]

\* newest, sameLife and untouched are history: the last frame complete when seq
\* was read; no producer has started over in this object since then; nor, since
\* write_idx was read, has it moved or has a single cloud been begun where it is.
Local == [seq : Frame, newest : Frame, read_idx : 0 .. 1, count : Frame,
          parsed : Frame, untouched : BOOLEAN, sameLife : BOOLEAN]
PointCloudFrame == [seq : Frame, newest : Frame, count : Frame, data : Picture,
                    untouched : BOOLEAN, sameLife : BOOLEAN]

AtFrame == {"magic", "index", "count", "parse", "update"}
Attached == AtFrame \cup {"poll"}

TypeOK ==
  /\ ProducerTypeOK
  /\ point_count \in [Object -> Frame]
  /\ place \in Attached \cup {"off", "open", "wait", "done"}
  /\ mapped \in 0 .. created
  /\ place \in Attached <=> mapped # NoObject
  /\ last_seq \in Frame
  /\ first_frame_received \in BOOLEAN /\ elapsed \in BOOLEAN
  /\ IF place \in AtFrame THEN local \in Local ELSE local = None
  /\ cell \in PointCloudFrame \cup {None}
  /\ recording \in BOOLEAN
  /\ pointcloud_last_seq \in Frame

Init ==
  /\ ProducerInit
  /\ point_count = [o \in Object |-> 0]
  /\ place = "off" /\ mapped = NoObject
  /\ last_seq = 0 /\ first_frame_received = FALSE /\ elapsed = FALSE
  /\ local = None /\ cell = None
  /\ recording = FALSE /\ pointcloud_last_seq = 0

-----------------------------------------------------------------------------
(* The task (run_pointcloud_client).                                       *)

\* Mutant: as the laser video does, a cloud that is there does not count.
FirstSeq_Current == frame_seq[named]

\* Whatever cloud is there already counts as new.
FirstSeq == 0

\* open_shm: the name has to exist and the magic number to be there.
Open ==
  /\ place = "open"
  /\ \/ /\ named # NoObject /\ magic[named]
        /\ mapped' = named
        /\ last_seq' = FirstSeq
        /\ first_frame_received' = FALSE /\ elapsed' = FALSE
        /\ place' = "poll"
        /\ UNCHANGED cell
     \/ /\ ~(named # NoObject /\ magic[named])
        /\ cell' = None
        /\ place' = "wait"
        /\ UNCHANGED <<mapped, last_seq, first_frame_received, elapsed>>
  /\ UNCHANGED <<producer, point_count, local>>

Wait ==
  /\ place = "wait"
  /\ place' = "open"
  /\ UNCHANGED <<producer, point_count, mapped, last_seq, first_frame_received, elapsed, local, cell>>

\* Mutant: the cloud stays.
Disconnect_KeepsCloud ==
  mapped' = NoObject /\ local' = None /\ place' = "wait" /\ UNCHANGED cell

Disconnect ==
  cell' = None /\ mapped' = NoObject /\ local' = None /\ place' = "wait"

\* 800 ms without a new sequence number, after a first one.
TimedOut == first_frame_received /\ elapsed /\ frame_seq[mapped] = last_seq

Stalled ==
  /\ place = "poll"
  /\ TimedOut
  /\ Disconnect
  /\ UNCHANGED <<producer, point_count, last_seq, first_frame_received, elapsed>>

NewSeq ==
  /\ place = "poll"
  /\ frame_seq[mapped] # last_seq
  /\ local' = [seq |-> frame_seq[mapped], newest |-> complete[mapped],
               read_idx |-> 0, count |-> 0, parsed |-> 0,
               untouched |-> FALSE, sameLife |-> TRUE]
  /\ last_seq' = frame_seq[mapped]
  /\ first_frame_received' = TRUE
  /\ elapsed' = FALSE
  /\ place' = "magic"
  /\ UNCHANGED <<producer, point_count, mapped, cell>>

CheckMagic ==
  /\ place = "magic"
  /\ IF magic[mapped] THEN place' = "index" /\ UNCHANGED <<mapped, local, cell>> ELSE Disconnect
  /\ UNCHANGED <<producer, point_count, last_seq, first_frame_received, elapsed>>

\* Mutant: one buffer.
ActiveBuffer_First == 0

ActiveBuffer == write_idx[mapped]

\* A frame with an index beyond 1 is skipped; ShmProducer writes none.
ReadIndex ==
  /\ place = "index"
  /\ write_idx[mapped] <= 1
  /\ local' = [local EXCEPT !.read_idx = ActiveBuffer, !.untouched = local.sameLife /\ ~inPlace[mapped]]
  /\ place' = "count"
  /\ UNCHANGED <<producer, point_count, mapped, last_seq, first_frame_received, elapsed, cell>>

ReadCount ==
  /\ place = "count"
  /\ local' = [local EXCEPT !.count = point_count[mapped]]
  /\ place' = "parse"
  /\ UNCHANGED <<producer, point_count, mapped, last_seq, first_frame_received, elapsed, cell>>

\* PointCloudFrame::from_raw reads the points where they lie.
ParseHalf ==
  /\ place = "parse"
  /\ local' = [local EXCEPT !.parsed = buf[mapped][local.read_idx][1]]
  /\ place' = "update"
  /\ UNCHANGED <<producer, point_count, mapped, last_seq, first_frame_received, elapsed, cell>>

Update ==
  /\ place = "update"
  /\ cell' = [seq |-> local.seq, newest |-> local.newest, count |-> local.count,
              data |-> <<local.parsed, buf[mapped][local.read_idx][2]>>,
              untouched |-> local.untouched, sameLife |-> local.sameLife]
  /\ local' = None
  /\ place' = "poll"
  /\ UNCHANGED <<producer, point_count, mapped, last_seq, first_frame_received, elapsed>>

\* The program ends: the task returns where it sleeps.
Shutdown ==
  /\ place \in {"wait", "poll"}
  /\ place' = "done"
  /\ mapped' = NoObject
  /\ UNCHANGED <<producer, point_count, last_seq, first_frame_received, elapsed, local, cell>>

Task == Open \/ Wait \/ Stalled \/ NewSeq \/ CheckMagic \/ ReadIndex \/ ReadCount \/ ParseHalf \/ Update

Elapse ==
  /\ place = "poll" /\ ~elapsed
  /\ elapsed' = TRUE
  /\ UNCHANGED <<producer, point_count, place, mapped, last_seq, first_frame_received, local, cell>>

\* The first visit to the radar tab.
EnsureStarted ==
  /\ place = "off"
  /\ place' = "open"
  /\ UNCHANGED <<producer, point_count, mapped, last_seq, first_frame_received, elapsed, local, cell>>

-----------------------------------------------------------------------------
(* The user interface.                                                     *)

\* ensure_connected: an attempt of the UI to reach Rerun succeeds, once.
Connect ==
  /\ ~recording
  /\ recording' = TRUE
  /\ UNCHANGED <<producer, point_count, reader, cell, pointcloud_last_seq>>

\* update_pointcloud, in each frame of the radar tab: nothing without a connection;
\* a number that was logged last is not logged again, and it outlives the cloud it
\* came with.
LogCloud ==
  /\ recording
  /\ cell # None
  /\ cell.seq # pointcloud_last_seq
  /\ pointcloud_last_seq' = cell.seq
  /\ UNCHANGED <<producer, point_count, reader, cell, recording>>

-----------------------------------------------------------------------------

\* A step of the producer, and what the histories make of it.  The number of
\* points goes into the header before the points (pointcloud-producer-spec.md).
ProducerMoves ==
  /\ Producer \/ OneShot
  /\ point_count' = IF written' = written THEN point_count
                    ELSE [point_count EXCEPT ![named'] = written']
  /\ local' = IF local = None THEN None
              ELSE LET same == local.sameLife /\ ~Restarted(mapped)
                   IN [local EXCEPT
                         !.sameLife = same,
                         !.untouched = @ /\ same /\ write_idx'[mapped] = write_idx[mapped]
                                         /\ ~inPlace'[mapped]]
  /\ UNCHANGED <<place, mapped, last_seq, first_frame_received, elapsed, cell>>

Next ==
  \/ (ProducerMoves \/ Task \/ Elapse \/ Shutdown \/ EnsureStarted) /\ UNCHANGED rerun
  \/ Connect \/ LogCloud

Spec == Init /\ [][Next]_vars

(***************************************************************************)
(* The task polls and sleeps for bounded times, time passes, and the UI    *)
(* repaints every 100 ms, the tab being shown again and again: with a      *)
(* connection, a cloud that is cleared after 800 ms each time has been     *)
(* seen by then.  Nothing makes the connection succeed.                    *)
(***************************************************************************)
Fairness ==
  /\ WF_vars(Task /\ UNCHANGED rerun)
  /\ WF_vars(Elapse /\ UNCHANGED rerun)
  /\ SF_vars(LogCloud)

FairSpec == Spec /\ Fairness

-----------------------------------------------------------------------------
(* Properties.                                                             *)

\* Unless the buffers were flipped while the reader parsed, or a single cloud was
\* written where it did or left unfinished there, the points of a counted frame are
\* those of one frame.
WholeUnlessTouched ==
  cell # None /\ cell.untouched /\ cell.seq # 0
    => cell.data[1] = cell.data[2]

\* No point of a cloud is older than its sequence number, nor is the number of
\* points: the sequence number is read first.
NotOlderThanSeq ==
  cell # None /\ cell.sameLife =>
    cell.count >= cell.newest /\ \A h \in Halves : cell.data[h] >= cell.newest

(* A cloud is that of one frame unless the buffers were flipped while it   *)
(* was read or a single cloud was written in place, and neither its points *)
(* nor their number are older than the sequence number.                    *)
CloudSound == TypeOK /\ WholeUnlessTouched /\ NotOlderThanSeq

\* There is a counted cloud in the object that the name refers to, and the task
\* has found it or will.
StaticCloud ==
  /\ named # NoObject /\ mapped \in {named, NoObject} /\ place \notin {"off", "done"}
  /\ magic[named] /\ frame_seq[named] # 0

(* A cloud that was written before the program started, or that is written *)
(* once and never again, gets into the cell again and again: it is cleared *)
(* and mapped anew every 800 ms, although the comment at reader.rs:193-194 *)
(* excepts static clouds.  Once Rerun is connected, what it has been given *)
(* last has the number of this cloud.  (That it is this cloud is not so:   *)
(* see README.)                                                            *)
StaticCloudShown ==
  <>[]StaticCloud =>
    /\ []<>(cell = None)
    /\ []<>(StaticCloud /\ cell # None /\ (recording => pointcloud_last_seq = frame_seq[named]))

(* When the name is gone the cloud does not stay in the cell.              *)
UnlinkedCleared ==
  <>[](named = NoObject /\ place \notin {"off", "done"}) => <>[](cell = None)

=============================================================================
