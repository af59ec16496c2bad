---------------------------- MODULE ShmProducer ----------------------------
(***************************************************************************)
(* The writing side of the shared-memory frames (external), as the readers *)
(* in src/laser/video.rs and src/pointcloud/reader.rs rely on it: a header *)
(* and two buffers, of which write_idx names the one that may be read.     *)
(*                                                                         *)
(* There are two kinds of producers.  One writes frame after frame, each   *)
(* into the buffer that may not be read (docs/laser-protocol.md).  One     *)
(* writes a single cloud into the first buffer, which may be read while it *)
(* does, and goes (docs/pointcloud-producer-spec.md, lines 41 to 51).      *)
(*                                                                         *)
(* A producer may stop at any point, leave its object or unlink it, and be *)
(* started again in a new object or in the old one.  A reader keeps the    *)
(* object it has mapped, whatever the name refers to.                      *)
(*                                                                         *)
(* A buffer is written and read in two halves, and what matters about a    *)
(* half is the frame it shows.  Frames are numbered through.               *)
(***************************************************************************)
EXTENDS Integers

CONSTANTS MaxObjects,  \* bound on the objects created
          MaxFrames    \* bound on the frames

Object == 1 .. MaxObjects
NoObject == 0
Frame == 0 .. MaxFrames
Halves == 1 .. 2
Picture == [Halves -> Frame]

ASSUME ProducerAssumption == MaxObjects \in Nat /\ MaxFrames \in Nat

VARIABLES
  at,           \* the producer: "off", in the steps of its start, frame or cloud
  named,        \* the object the name refers to
  created,      \* objects created
  written,      \* frames begun
  magic,        \* of each object: the magic number is there...
  frame_seq,    \* ... the header fields...
  write_idx,
  buf,          \* ... the two buffers...
  complete,     \* ... the last frame that this producer counted in frame_seq
  inPlace       \* ... a single cloud has been begun in it and not been counted

producer == <<at, named, created, written, magic, frame_seq, write_idx, buf, complete, inPlace>>

ProducerTypeOK ==
  /\ at \in {"off", "init", "idle", "half", "flip", "count",
             "once_index", "once_half", "once_rest", "once_count", "once_over"}
  /\ created \in 0 .. MaxObjects
  /\ named \in 0 .. created
  /\ written \in Frame
  /\ magic \in [Object -> BOOLEAN]
  /\ frame_seq \in [Object -> Frame]
  /\ write_idx \in [Object -> 0 .. 1]
  /\ buf \in [Object -> [0 .. 1 -> Picture]]
  /\ complete \in [Object -> Frame]
  /\ inPlace \in [Object -> BOOLEAN]

ProducerInit ==
  /\ at = "off"
  /\ named = NoObject
  /\ created = 0
  /\ written = 0
  /\ magic = [o \in Object |-> FALSE]
  /\ frame_seq = [o \in Object |-> 0]
  /\ write_idx = [o \in Object |-> 0]
  /\ buf = [o \in Object |-> [b \in 0 .. 1 |-> [h \in Halves |-> 0]]]
  /\ complete = [o \in Object |-> 0]
  /\ inPlace = [o \in Object |-> FALSE]

-----------------------------------------------------------------------------
(* Frame after frame.                                                      *)

StartNew ==
  /\ at = "off"
  /\ created < MaxObjects
  /\ created' = created + 1
  /\ named' = created + 1
  /\ at' = "init"
  /\ UNCHANGED <<written, magic, frame_seq, write_idx, buf, complete, inPlace>>

StartInPlace ==
  /\ at = "off"
  /\ named # NoObject
  /\ magic' = [magic EXCEPT ![named] = FALSE]
  /\ at' = "init"
  /\ UNCHANGED <<named, created, written, frame_seq, write_idx, buf, complete, inPlace>>

WriteHeader ==
  /\ at = "init"
  /\ magic' = [magic EXCEPT ![named] = TRUE]
  /\ frame_seq' = [frame_seq EXCEPT ![named] = 0]
  /\ write_idx' = [write_idx EXCEPT ![named] = 0]
  /\ complete' = [complete EXCEPT ![named] = 0]
  /\ inPlace' = [inPlace EXCEPT ![named] = FALSE]
  /\ at' = "idle"
  /\ UNCHANGED <<named, created, written, buf>>

\* The buffer write_idx does not name is written, half by half...
WriteHalf ==
  /\ at = "idle" /\ written < MaxFrames
  /\ written' = written + 1
  /\ buf' = [buf EXCEPT ![named][1 - write_idx[named]][1] = written + 1]
  /\ at' = "half"
  /\ UNCHANGED <<named, created, magic, frame_seq, write_idx, complete, inPlace>>

WriteRest ==
  /\ at = "half"
  /\ buf' = [buf EXCEPT ![named][1 - write_idx[named]][2] = written]
  /\ at' = "flip"
  /\ UNCHANGED <<named, created, written, magic, frame_seq, write_idx, complete, inPlace>>

\* ... then the buffers change places, then the frame is counted.
Flip ==
  /\ at = "flip"
  /\ write_idx' = [write_idx EXCEPT ![named] = 1 - @]
  /\ at' = "count"
  /\ UNCHANGED <<named, created, written, magic, frame_seq, buf, complete, inPlace>>

Count ==
  /\ at = "count"
  /\ frame_seq' = [frame_seq EXCEPT ![named] = @ + 1]
  /\ complete' = [complete EXCEPT ![named] = written]
  /\ at' = "idle"
  /\ UNCHANGED <<named, created, written, magic, write_idx, buf, inPlace>>

-----------------------------------------------------------------------------
(* A single cloud.  The steps of pointcloud-producer-spec.md, lines 44-50. *)

\* An object of this name is opened if there is one, with what it holds; then the
\* header is written, and that of the number of points (see PointCloudReader).
OnceOpen ==
  /\ at = "off"
  /\ written < MaxFrames
  /\ written' = written + 1
  /\ \/ named # NoObject /\ UNCHANGED <<named, created>>
     \/ /\ named = NoObject /\ created < MaxObjects
        /\ created' = created + 1
        /\ named' = created + 1
  /\ magic' = [magic EXCEPT ![named'] = TRUE]
  /\ at' = "once_index"
  /\ UNCHANGED <<frame_seq, write_idx, buf, complete, inPlace>>

OnceIndex ==
  /\ at = "once_index"
  /\ write_idx' = [write_idx EXCEPT ![named] = 0]
  /\ complete' = [complete EXCEPT ![named] = 0]
  /\ inPlace' = [inPlace EXCEPT ![named] = TRUE]
  /\ at' = "once_half"
  /\ UNCHANGED <<named, created, written, magic, frame_seq, buf>>

\* The first buffer is written, which write_idx names.
OnceHalf ==
  /\ at = "once_half"
  /\ buf' = [buf EXCEPT ![named][0][1] = written]
  /\ at' = "once_rest"
  /\ UNCHANGED <<named, created, written, magic, frame_seq, write_idx, complete, inPlace>>

OnceRest ==
  /\ at = "once_rest"
  /\ buf' = [buf EXCEPT ![named][0][2] = written]
  /\ at' = "once_count"
  /\ UNCHANGED <<named, created, written, magic, frame_seq, write_idx, complete, inPlace>>

\* frame_seq is 1, whatever it was.
OnceCount ==
  /\ at = "once_count"
  /\ frame_seq' = [frame_seq EXCEPT ![named] = 1]
  /\ complete' = [complete EXCEPT ![named] = written]
  /\ inPlace' = [inPlace EXCEPT ![named] = FALSE]
  /\ at' = "once_over"
  /\ UNCHANGED <<named, created, written, magic, write_idx, buf>>

-----------------------------------------------------------------------------

\* The producer ends or dies, and leaves the object or somebody unlinks it.
Stop ==
  /\ at # "off"
  /\ at' = "off"
  /\ named' \in {named, NoObject}
  /\ UNCHANGED <<created, written, magic, frame_seq, write_idx, buf, complete, inPlace>>

Producer ==
  \/ StartNew \/ StartInPlace \/ WriteHeader
  \/ WriteHalf \/ WriteRest \/ Flip \/ Count \/ Stop

OneShot == OnceOpen \/ OnceIndex \/ OnceHalf \/ OnceRest \/ OnceCount \/ Stop

\* The numbers and the buffers of object o start over.
Restarted(o) == named = o /\ at \in {"init", "once_index"} /\ at' \in {"idle", "once_half"}
=============================================================================
