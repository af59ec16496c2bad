----------------------- MODULE PointCloudReaderProofs -----------------------
(***************************************************************************)
(* Proofs about the point cloud, for every number of objects and frames    *)
(* and both kinds of producers: a cloud is that of one frame unless the    *)
(* buffers changed places while it was read or a single cloud was written  *)
(* there, and neither its points nor their number are older than the       *)
(* number of the frame.  The argument is that of VideoReaderProofs; new    *)
(* are the number of points, read from the header in between, and the      *)
(* producer that writes where the cloud is read.                           *)
(***************************************************************************)
EXTENDS PointCloudReader, ShmProducerProofs

(* What the reader has read of a frame, against what the producer has done *)
(* since.                                                                  *)
LocalSound ==
  place \in AtFrame =>
    /\ local.sameLife =>
         (local.seq # 0 => frame_seq[mapped] # 0) /\ local.newest <= complete[mapped]
    /\ local.untouched =>
         /\ local.sameLife /\ place \in {"count", "parse", "update"}
         /\ local.read_idx = write_idx[mapped] /\ ~inPlace[mapped]
    /\ local.sameLife /\ place \in {"count", "parse", "update"} =>
         \A h \in Halves : local.newest <= buf[mapped][local.read_idx][h]
    /\ local.sameLife /\ place \in {"parse", "update"} => local.newest <= local.count
    /\ place = "update" =>
         /\ local.sameLife => local.newest <= local.parsed
         /\ local.untouched => local.parsed = buf[mapped][local.read_idx][1]

(* The number of points goes into the header before the points, so it is   *)
(* never behind the frames that are counted.                               *)
UnderWay == {"half", "flip", "count", "once_index", "once_half", "once_rest", "once_count"}

CountAhead ==
  /\ \A o \in Object : complete[o] <= point_count[o]
  /\ at \in UnderWay => point_count[named] = written

CloudInv ==
  /\ TypeOK /\ ProducerInv /\ CountAhead
  /\ LocalSound
  /\ WholeUnlessTouched /\ NotOlderThanSeq

-----------------------------------------------------------------------------
(* Types.                                                                  *)

LEMMA MappedObject ==
  ASSUME TypeOK, place \in Attached
  PROVE  mapped \in Object
  BY ProducerAssumption DEF TypeOK, ProducerTypeOK, Object, NoObject

LEMMA LocalIsNotNone ==
  ASSUME NEW l \in Local
  PROVE  l # None
  BY DEF Local, None

(* The types of the state follow from those of what a step assigns.        *)
LEMMA TypesFollow ==
  ASSUME TypeOK, ProducerTypeOK', created <= created', created' \in Nat,
         point_count' \in [Object -> Frame],
         \/ place' \in Attached /\ mapped' \in 1 .. created
         \/ place' \in {"off", "open", "wait", "done"} /\ mapped' = NoObject,
         \/ place' \in AtFrame /\ local' \in Local
         \/ place' \notin AtFrame /\ local' = None,
         last_seq' \in Frame, first_frame_received' \in BOOLEAN, elapsed' \in BOOLEAN,
         cell' \in PointCloudFrame \cup {None}, recording' \in BOOLEAN, pointcloud_last_seq' \in Frame
  PROVE  TypeOK'
<1>1. created \in Nat
  BY ProducerAssumption DEF TypeOK, ProducerTypeOK
<1>2. CASE place' \in Attached /\ mapped' \in 1 .. created
  <2>1. mapped' \in 0 .. created' /\ mapped' # NoObject
    BY <1>1, <1>2 DEF NoObject
  <2> QED
    BY <1>2, <2>1 DEF TypeOK
<1>3. CASE place' \in {"off", "open", "wait", "done"} /\ mapped' = NoObject
  <2>1. mapped' \in 0 .. created' /\ place' \notin Attached
    BY <1>3 DEF NoObject, Attached, AtFrame
  <2> QED
    BY <1>3, <2>1 DEF TypeOK
<1> QED
  BY <1>2, <1>3

(* A step that leaves the producer and the number of points alone.         *)
LEMMA HeaderSame ==
  ASSUME CloudInv, UNCHANGED <<producer, point_count>>
  PROVE  /\ ProducerInv' /\ ProducerTypeOK' /\ CountAhead'
         /\ created <= created' /\ created' \in Nat
         /\ point_count' \in [Object -> Frame]
<1>1. ProducerInv'
  BY ProducerInvSame DEF CloudInv
<1>2. created \in Nat /\ created' = created
  BY ProducerAssumption DEF CloudInv, TypeOK, ProducerTypeOK, producer
<1> QED
  BY <1>1, <1>2 DEF CloudInv, TypeOK, CountAhead, ProducerInv, producer

(* What the reader knows of its own place.                                 *)
LEMMA PlaceTypes ==
  ASSUME TypeOK
  PROVE  /\ place \in Attached => mapped \in 1 .. created
         /\ place \notin Attached =>
              mapped = NoObject /\ place \in {"off", "open", "wait", "done"}
         /\ place \in AtFrame => local \in Local
         /\ place \notin AtFrame => local = None
         /\ last_seq \in Frame /\ first_frame_received \in BOOLEAN /\ elapsed \in BOOLEAN
         /\ cell \in PointCloudFrame \cup {None} /\ None \in PointCloudFrame \cup {None}
         /\ 0 \in Frame /\ recording \in BOOLEAN /\ pointcloud_last_seq \in Frame
  BY ProducerAssumption DEF TypeOK, ProducerTypeOK, NoObject, Frame

LEMMA CloudInit ==
  ASSUME Init
  PROVE  CloudInv
<1>1. ProducerInv
  BY ProducerInvInit DEF Init
<1>2. place \notin Attached /\ place \notin AtFrame /\ mapped = NoObject
  BY DEF Init, Attached, AtFrame
<1>3. TypeOK
  <2>1. ProducerTypeOK /\ created \in Nat
    BY <1>1, ProducerAssumption DEF ProducerInv, ProducerTypeOK
  <2>2. mapped \in 0 .. created /\ 0 \in Frame
    BY <2>1, ProducerAssumption DEF Init, NoObject, Frame
  <2> QED
    BY <1>2, <2>1, <2>2 DEF Init, TypeOK
<1>4. CountAhead
  BY DEF Init, ProducerInit, CountAhead, UnderWay
<1> QED
  BY <1>1, <1>2, <1>3, <1>4 DEF Init, CloudInv, LocalSound, WholeUnlessTouched, NotOlderThanSeq

-----------------------------------------------------------------------------
(* The producer.                                                           *)

(* Frames are begun one by one, each with its number of points.            *)
LEMMA PointCountMoves ==
  ASSUME CloudInv, ProducerMoves
  PROVE  CountAhead' /\ point_count' \in [Object -> Frame]
<1>1. /\ Producer \/ OneShot
      /\ ProducerInv /\ TypeOK /\ CountAhead
      /\ point_count' = IF written' = written THEN point_count
                        ELSE [point_count EXCEPT ![named'] = written']
  BY DEF ProducerMoves, CloudInv
<1>2. ProducerInv'
  BY <1>1, ProducerInvStep
<1>3. point_count \in [Object -> Frame] /\ written' \in Frame /\ written \in Nat /\ written' \in Nat
  BY <1>1, <1>2, ProducerAssumption DEF TypeOK, ProducerInv, ProducerTypeOK, Frame
<1>4. \A o \in Object : complete[o] \in Nat /\ point_count[o] \in Nat /\ complete[o] <= written
  BY <1>1, <1>3, ProducerValues DEF ProducerInv, FramesSound, Frame
<1>5. CASE WriteHalf \/ OnceOpen
  <2>1. at' # "off" /\ written' = written + 1 /\ complete' = complete
    BY <1>5 DEF WriteHalf, OnceOpen
  <2>2. named' \in Object
    BY <1>2, <2>1, ProducerAssumption DEF ProducerInv, ProducerTypeOK, Object, NoObject
  <2>3. point_count' = [point_count EXCEPT ![named'] = written']
    BY <1>1, <1>3, <2>1
  <2>4. /\ point_count'[named'] = written'
        /\ \A o \in Object : point_count'[o] \in {point_count[o], written'}
    BY <1>3, <2>2, <2>3
  <2>5. \A o \in Object : complete[o] <= point_count'[o]
    BY <1>1, <1>3, <1>4, <2>1, <2>4 DEF CountAhead
  <2>6. point_count' \in [Object -> Frame]
    BY <1>3, <2>2, <2>3
  <2> QED
    BY <2>1, <2>4, <2>5, <2>6 DEF CountAhead
<1>6. CASE ~(WriteHalf \/ OnceOpen)
  <2>1. written' = written
    BY <1>1, <1>6
    DEF Producer, OneShot, StartNew, StartInPlace, WriteHeader, WriteRest, Flip, Count, Stop,
        OnceIndex, OnceHalf, OnceRest, OnceCount
  <2>2. point_count' = point_count
    BY <1>1, <2>1
  <2>3. at' \in UnderWay => at \in UnderWay /\ named' = named
    BY <1>1, <1>6
    DEF UnderWay, Producer, OneShot, StartNew, StartInPlace, WriteHeader, WriteRest, Flip, Count,
        Stop, OnceIndex, OnceHalf, OnceRest, OnceCount
  <2>4. \A o \in Object : complete'[o] <= point_count[o]
    <3>1. CASE UNCHANGED complete
      BY <1>1, <3>1 DEF CountAhead
    <3>2. CASE WriteHeader \/ OnceIndex
      BY <1>1, <1>4, <3>2 DEF WriteHeader, OnceIndex, CountAhead, TypeOK, ProducerTypeOK
    <3>3. CASE Count \/ OnceCount
      <4>1. at \in UnderWay
        BY <3>3 DEF Count, OnceCount, UnderWay
      <4>2. point_count[named] = written
        BY <1>1, <4>1 DEF CountAhead
      <4>3. \A o \in Object : complete'[o] = complete[o] \/ (o = named /\ complete'[o] = written)
        BY <1>1, <3>3 DEF Count, OnceCount, TypeOK, ProducerTypeOK
      <4> QED
        BY <1>1, <1>3, <1>4, <4>2, <4>3 DEF CountAhead
    <3> QED
      BY <1>1, <3>1, <3>2, <3>3
      DEF Producer, OneShot, StartNew, StartInPlace, WriteHalf, WriteRest, Flip, Stop,
          OnceOpen, OnceHalf, OnceRest
  <2> QED
    BY <1>1, <1>3, <1>4, <2>1, <2>2, <2>3, <2>4 DEF CountAhead
<1> QED
  BY <1>5, <1>6

LEMMA ProducerMovesKeeps ==
  ASSUME CloudInv, ProducerMoves, UNCHANGED rerun
  PROVE  CloudInv'
<1>1. /\ Producer \/ OneShot
      /\ ProducerInv /\ TypeOK
      /\ UNCHANGED <<place, mapped, last_seq, first_frame_received, elapsed, cell>>
  BY DEF ProducerMoves, CloudInv
<1>2. ProducerInv' /\ ProducerTypeOK' /\ CountAhead' /\ point_count' \in [Object -> Frame]
  BY <1>1, ProducerInvStep, PointCountMoves DEF ProducerInv
<1>3. created \in Nat /\ created' \in Nat /\ created <= created'
  BY <1>1, ProducerAssumption DEF TypeOK, ProducerTypeOK,
     Producer, StartNew, StartInPlace, WriteHeader, WriteHalf, WriteRest, Flip, Count, Stop,
     OneShot, OnceOpen, OnceIndex, OnceHalf, OnceRest, OnceCount
<1>4. CASE place \notin AtFrame
  <2>1. local = None /\ local' = None
    BY <1>1, <1>4 DEF TypeOK, ProducerMoves
  <2>2. TypeOK'
    BY <1>1, <1>2, <1>3, <1>4, <2>1, PlaceTypes, TypesFollow DEF rerun
  <2> QED
    BY <1>1, <1>2, <1>4, <2>2 DEF CloudInv, LocalSound, WholeUnlessTouched, NotOlderThanSeq
<1>5. CASE place \in AtFrame
  <2> DEFINE same == local.sameLife /\ ~Restarted(mapped)
             untouched == /\ local.untouched /\ same
                          /\ write_idx'[mapped] = write_idx[mapped] /\ ~inPlace'[mapped]
  <2>1. local \in Local /\ local # None
    BY <1>1, <1>5, LocalIsNotNone DEF TypeOK
  <2>2. local' = [local EXCEPT !.sameLife = same, !.untouched = untouched]
    BY <2>1 DEF ProducerMoves, Restarted
  <2>3. same \in BOOLEAN /\ untouched \in BOOLEAN
    BY <2>1 DEF Local, Restarted
  <2>4. same => local.sameLife /\ ~Restarted(mapped)
    OBVIOUS
  <2>5. untouched => /\ local.untouched /\ same
                     /\ write_idx'[mapped] = write_idx[mapped] /\ ~inPlace'[mapped]
    OBVIOUS
  <2> HIDE DEF same, untouched
  <2>6. /\ local' \in Local
        /\ local'.seq = local.seq /\ local'.newest = local.newest
        /\ local'.read_idx = local.read_idx
        /\ local'.count = local.count /\ local'.parsed = local.parsed
        /\ local'.sameLife = same /\ local'.untouched = untouched
    BY <2>1, <2>2, <2>3 DEF Local
  <2>7. TypeOK'
    BY <1>1, <1>2, <1>3, <1>5, <2>6, PlaceTypes, TypesFollow DEF Attached, rerun
  <2>8. mapped \in Object
    BY <1>1, <1>5, MappedObject DEF Attached
  <2>9. /\ local.seq \in Nat /\ local.newest \in Nat /\ local.read_idx \in Buffer
    BY <2>1 DEF Local, Frame, Buffer
  <2>10. /\ frame_seq[mapped] \in Nat /\ frame_seq'[mapped] \in Nat
         /\ complete[mapped] \in Nat /\ complete'[mapped] \in Nat
         /\ \A h \in Halves : /\ buf[mapped][local.read_idx][h] \in Nat
                              /\ buf'[mapped][local.read_idx][h] \in Nat
    <3>1. frame_seq'[mapped] \in Frame /\ complete'[mapped] \in Frame
      BY <1>2, <2>8 DEF ProducerTypeOK
    <3>2. \A h \in Halves : buf'[mapped][local.read_idx][h] \in Frame
      <4>1. buf'[mapped] \in [Buffer -> [Halves -> Frame]]
        BY <1>2, <2>8 DEF ProducerTypeOK, Picture, Buffer
      <4> QED
        BY <2>9, <4>1
    <3> QED
      BY <1>1, <2>8, <2>9, <3>1, <3>2, ProducerValues DEF Frame, ProducerInv
  <2>11. same => /\ frame_seq[mapped] # 0 => frame_seq'[mapped] # 0
                 /\ complete[mapped] <= complete'[mapped]
    BY <1>1, <2>4, <2>8, CountsGrow
  <2>12. \A h \in Halves : buf[mapped][local.read_idx][h] <= buf'[mapped][local.read_idx][h]
    BY <1>1, <2>8, <2>9, BuffersGrow
  <2>13. untouched => Active(mapped)' = Active(mapped)
    BY <1>1, <2>5, <2>8, ActiveUntouched
  <2>14. LocalSound'
    <3>1. LocalSound
      BY DEF CloudInv
    <3>2. same => /\ local.seq # 0 => frame_seq'[mapped] # 0
                  /\ local.newest <= complete'[mapped]
      BY <1>5, <2>4, <2>9, <2>10, <2>11, <3>1 DEF LocalSound
    <3>3. untouched => /\ same /\ place \in {"count", "parse", "update"}
                       /\ local.read_idx = write_idx'[mapped] /\ ~inPlace'[mapped]
      BY <1>5, <2>5, <3>1 DEF LocalSound
    <3>4. same /\ place \in {"count", "parse", "update"} =>
            \A h \in Halves : local.newest <= buf'[mapped][local.read_idx][h]
      BY <1>5, <2>4, <2>9, <2>10, <2>12, <3>1 DEF LocalSound
    <3>5. same /\ place \in {"parse", "update"} => local.newest <= local.count
      BY <1>5, <2>4, <3>1 DEF LocalSound
    <3>6. place = "update" =>
            /\ same => local.newest <= local.parsed
            /\ untouched => local.parsed = buf'[mapped][local.read_idx][1]
      <4>1. untouched => buf'[mapped][write_idx'[mapped]] = buf[mapped][write_idx[mapped]]
        BY <1>1, <2>13 DEF Active
      <4> QED
        BY <1>5, <2>4, <2>5, <3>1, <3>3, <4>1 DEF LocalSound
    <3> QED
      BY <1>1, <2>6, <3>2, <3>3, <3>4, <3>5, <3>6 DEF LocalSound
  <2> QED
    BY <1>1, <1>2, <2>7, <2>14 DEF CloudInv, WholeUnlessTouched, NotOlderThanSeq
<1> QED
  BY <1>4, <1>5

-----------------------------------------------------------------------------
(* The reader, whose steps leave the producer alone.                       *)

(* A task that is not at a frame, or no more, and keeps or clears the      *)
(* cell: nothing has to be said of what it has read.                       *)
LEMMA AwayFromFrames ==
  ASSUME CloudInv, TypeOK', UNCHANGED <<producer, point_count>>,
         place' \notin AtFrame, cell' \in {cell, None}
  PROVE  CloudInv'
  BY HeaderSame DEF CloudInv, LocalSound, WholeUnlessTouched, NotOlderThanSeq

LEMMA DisconnectKeeps ==
  ASSUME CloudInv, Disconnect,
         UNCHANGED <<producer, point_count, last_seq, first_frame_received, elapsed,
                     rerun>>
  PROVE  CloudInv'
<1>1. place' = "wait" /\ place' \notin Attached /\ place' \notin AtFrame
  BY DEF Disconnect, Attached, AtFrame
<1>2. TypeOK'
  BY <1>1, HeaderSame, PlaceTypes, TypesFollow DEF CloudInv, Disconnect, rerun
<1> QED
  BY <1>1, <1>2, AwayFromFrames DEF Disconnect

(* The steps in which nothing of a frame is read.                          *)
LEMMA OuterLoopKeeps ==
  ASSUME CloudInv, UNCHANGED rerun,
         Open \/ Wait \/ Stalled \/ Shutdown \/ Elapse \/ EnsureStarted
  PROVE  CloudInv'
<1>1. CASE Stalled
  BY <1>1, DisconnectKeeps DEF Stalled
<1>2. CASE Open
  <2>1. named # NoObject => named \in 1 .. created
    BY DEF CloudInv, TypeOK, ProducerTypeOK, NoObject
  <2>2. place \notin AtFrame /\ place \notin Attached /\ place' \notin AtFrame
        /\ cell' \in {cell, None} /\ UNCHANGED <<producer, point_count, local>>
    BY <1>2 DEF Open, AtFrame, Attached
  <2>3. \/ place' \in Attached /\ mapped' \in 1 .. created
        \/ place' \in {"off", "open", "wait", "done"} /\ mapped' = NoObject
    BY <1>2, <2>1, <2>2, PlaceTypes DEF Open, CloudInv, Attached
  <2>4. last_seq' \in Frame /\ first_frame_received' \in BOOLEAN /\ elapsed' \in BOOLEAN
    BY <1>2, PlaceTypes DEF Open, CloudInv, FirstSeq
  <2>5. TypeOK'
    BY <2>2, <2>3, <2>4, HeaderSame, PlaceTypes, TypesFollow DEF CloudInv, rerun
  <2> QED
    BY <2>2, <2>5, AwayFromFrames
<1>3. CASE Wait \/ EnsureStarted
  <2>1. TypeOK'
    BY <1>3, HeaderSame, PlaceTypes, TypesFollow DEF Wait, EnsureStarted, CloudInv, Attached, AtFrame, rerun
  <2>2. place' \notin AtFrame /\ cell' \in {cell, None} /\ UNCHANGED <<producer, point_count>>
    BY <1>3 DEF Wait, EnsureStarted, AtFrame
  <2> QED
    BY <2>1, <2>2, AwayFromFrames
<1>4. CASE Shutdown
  <2>1. place \notin AtFrame /\ place' = "done" /\ place' \notin Attached /\ place' \notin AtFrame
    BY <1>4 DEF Shutdown, Attached, AtFrame
  <2>2. TypeOK'
    BY <1>4, <2>1, HeaderSame, PlaceTypes, TypesFollow DEF Shutdown, CloudInv, rerun
  <2> QED
    BY <1>4, <2>1, <2>2, AwayFromFrames DEF Shutdown
<1>5. CASE Elapse
  <2>1. place \notin AtFrame
    BY <1>5 DEF Elapse, AtFrame
  <2>2. TypeOK'
    BY <1>5, HeaderSame, PlaceTypes, TypesFollow DEF Elapse, CloudInv, Attached, AtFrame, rerun
  <2> QED
    BY <1>5, <2>1, <2>2, AwayFromFrames DEF Elapse
<1> QED
  BY <1>1, <1>2, <1>3, <1>4, <1>5

LEMMA NewSeqKeeps ==
  ASSUME CloudInv, NewSeq, UNCHANGED rerun
  PROVE  CloudInv'
<1>1. UNCHANGED <<producer, point_count>>
  BY DEF NewSeq
<1>2. mapped \in Object
  BY MappedObject DEF NewSeq, CloudInv, Attached
<1>3. /\ frame_seq[mapped] \in Frame /\ complete[mapped] \in Frame /\ 0 \in Frame
      /\ frame_seq[mapped] \in Nat /\ complete[mapped] \in Nat
  BY <1>2, ProducerAssumption DEF CloudInv, TypeOK, ProducerTypeOK, Frame
<1>4. /\ local' \in Local /\ local'.seq = frame_seq[mapped]
      /\ local'.newest = complete[mapped] /\ ~local'.untouched
  BY <1>3 DEF NewSeq, Local
<1>5. TypeOK'
  BY <1>1, <1>3, <1>4, HeaderSame, PlaceTypes, TypesFollow DEF NewSeq, CloudInv, Attached, AtFrame, rerun
<1>6. LocalSound'
  BY <1>1, <1>3, <1>4 DEF NewSeq, LocalSound, producer
<1> QED
  BY <1>1, <1>5, <1>6, HeaderSame DEF NewSeq, CloudInv, WholeUnlessTouched, NotOlderThanSeq

LEMMA CheckMagicKeeps ==
  ASSUME CloudInv, CheckMagic, UNCHANGED rerun
  PROVE  CloudInv'
<1>1. UNCHANGED <<producer, point_count>>
  BY DEF CheckMagic
<1>2. CASE magic[mapped]
  <2>1. TypeOK'
    BY <1>1, <1>2, HeaderSame, PlaceTypes, TypesFollow DEF CheckMagic, CloudInv, Attached, AtFrame, rerun
  <2>2. LocalSound'
    BY <1>1, <1>2 DEF CheckMagic, CloudInv, LocalSound, AtFrame, producer
  <2> QED
    BY <1>1, <1>2, <2>1, <2>2, HeaderSame DEF CheckMagic, CloudInv, WholeUnlessTouched, NotOlderThanSeq
<1>3. CASE ~magic[mapped]
  BY <1>3, DisconnectKeeps DEF CheckMagic
<1> QED
  BY <1>2, <1>3

LEMMA ReadIndexKeeps ==
  ASSUME CloudInv, ReadIndex, UNCHANGED rerun
  PROVE  CloudInv'
<1>1. UNCHANGED <<producer, point_count>>
  BY DEF ReadIndex
<1>2. place = "index" /\ place \in AtFrame /\ local \in Local /\ mapped \in Object
  BY MappedObject DEF ReadIndex, CloudInv, TypeOK, AtFrame, Attached
<1>3. write_idx[mapped] \in 0 .. 1
  BY <1>2 DEF CloudInv, TypeOK, ProducerTypeOK
<1>4. /\ local' \in Local /\ local'.read_idx = write_idx[mapped]
      /\ local'.seq = local.seq /\ local'.newest = local.newest
      /\ local'.sameLife = local.sameLife
      /\ local'.untouched = (local.sameLife /\ ~inPlace[mapped])
  BY <1>2, <1>3 DEF ReadIndex, ActiveBuffer, Local
<1>5. TypeOK'
  BY <1>1, <1>2, <1>4, HeaderSame, PlaceTypes, TypesFollow DEF ReadIndex, CloudInv, Attached, AtFrame, rerun
<1>6. local.sameLife => \A h \in Halves : local.newest <= buf[mapped][write_idx[mapped]][h]
  <2>1. \A h \in Halves : complete[mapped] <= Active(mapped)[h]
    BY <1>2 DEF CloudInv, ProducerInv, FramesSound
  <2>2. /\ local.newest \in Nat /\ complete[mapped] \in Nat
        /\ \A h \in Halves : Active(mapped)[h] \in Nat
    BY <1>2, ProducerValues DEF Local, Frame, CloudInv, ProducerInv
  <2>3. local.sameLife => local.newest <= complete[mapped]
    BY <1>2 DEF CloudInv, LocalSound
  <2>4. local.sameLife => \A h \in Halves : local.newest <= Active(mapped)[h]
    BY <2>1, <2>2, <2>3
  <2> QED
    BY <2>4 DEF Active
<1>7. LocalSound'
  BY <1>1, <1>2, <1>4, <1>6 DEF ReadIndex, CloudInv, LocalSound, producer
<1> QED
  BY <1>1, <1>5, <1>7, HeaderSame DEF ReadIndex, CloudInv, WholeUnlessTouched, NotOlderThanSeq

(* The number of points, which may be that of a frame under way.           *)
LEMMA ReadCountKeeps ==
  ASSUME CloudInv, ReadCount, UNCHANGED rerun
  PROVE  CloudInv'
<1>1. UNCHANGED <<producer, point_count>>
  BY DEF ReadCount
<1>2. place = "count" /\ place \in AtFrame /\ local \in Local /\ mapped \in Object
  BY MappedObject DEF ReadCount, CloudInv, TypeOK, AtFrame, Attached
<1>3. point_count[mapped] \in Frame
  BY <1>2 DEF CloudInv, TypeOK
<1>4. /\ local' \in Local /\ local'.count = point_count[mapped]
      /\ local'.seq = local.seq /\ local'.newest = local.newest
      /\ local'.read_idx = local.read_idx
      /\ local'.sameLife = local.sameLife /\ local'.untouched = local.untouched
  BY <1>2, <1>3 DEF ReadCount, Local
<1>5. TypeOK'
  BY <1>1, <1>2, <1>4, HeaderSame, PlaceTypes, TypesFollow DEF ReadCount, CloudInv, Attached, AtFrame, rerun
<1>6. local.sameLife => local.newest <= point_count[mapped]
  <2>1. local.sameLife => local.newest <= complete[mapped]
    BY <1>2 DEF CloudInv, LocalSound
  <2>2. complete[mapped] <= point_count[mapped]
    BY <1>2 DEF CloudInv, CountAhead
  <2>3. local.newest \in Nat /\ complete[mapped] \in Nat /\ point_count[mapped] \in Nat
    BY <1>2, <1>3, ProducerValues DEF Local, Frame, CloudInv, ProducerInv
  <2> QED
    BY <2>1, <2>2, <2>3
<1>7. LocalSound'
  BY <1>1, <1>2, <1>4, <1>6 DEF ReadCount, CloudInv, LocalSound, producer
<1> QED
  BY <1>1, <1>5, <1>7, HeaderSame DEF ReadCount, CloudInv, WholeUnlessTouched, NotOlderThanSeq

LEMMA ParseHalfKeeps ==
  ASSUME CloudInv, ParseHalf, UNCHANGED rerun
  PROVE  CloudInv'
<1>1. UNCHANGED <<producer, point_count>>
  BY DEF ParseHalf
<1>2. place = "parse" /\ place \in AtFrame /\ local \in Local /\ mapped \in Object
  BY MappedObject DEF ParseHalf, CloudInv, TypeOK, AtFrame, Attached
<1>3. buf[mapped][local.read_idx][1] \in Frame
  <2>1. buf[mapped] \in [0 .. 1 -> [Halves -> Frame]] /\ local.read_idx \in 0 .. 1 /\ 1 \in Halves
    BY <1>2 DEF CloudInv, TypeOK, ProducerTypeOK, Picture, Local, Halves
  <2> QED
    BY <2>1
<1>4. /\ local' \in Local /\ local'.parsed = buf[mapped][local.read_idx][1]
      /\ local'.seq = local.seq /\ local'.newest = local.newest
      /\ local'.read_idx = local.read_idx /\ local'.count = local.count
      /\ local'.sameLife = local.sameLife /\ local'.untouched = local.untouched
  BY <1>2, <1>3 DEF ParseHalf, Local
<1>5. TypeOK'
  BY <1>1, <1>2, <1>4, HeaderSame, PlaceTypes, TypesFollow DEF ParseHalf, CloudInv, Attached, AtFrame, rerun
<1>6. LocalSound'
  BY <1>1, <1>2, <1>4 DEF ParseHalf, CloudInv, LocalSound, producer, Halves
<1> QED
  BY <1>1, <1>5, <1>6, HeaderSame DEF ParseHalf, CloudInv, WholeUnlessTouched, NotOlderThanSeq

(* The cloud of the cell: its first half was parsed before, its second is  *)
(* parsed now.                                                             *)
LEMMA UpdateKeeps ==
  ASSUME CloudInv, Update, UNCHANGED rerun
  PROVE  CloudInv'
<1> DEFINE second == buf[mapped][local.read_idx][2]
<1>1. UNCHANGED <<producer, point_count>>
  BY DEF Update
<1>2. place = "update" /\ place \in AtFrame /\ local \in Local /\ mapped \in Object
  BY MappedObject DEF Update, CloudInv, TypeOK, AtFrame, Attached
<1>3. second \in Frame /\ local.parsed \in Frame
  <2>1. buf[mapped] \in [0 .. 1 -> [Halves -> Frame]] /\ local.read_idx \in 0 .. 1 /\ 2 \in Halves
    BY <1>2 DEF CloudInv, TypeOK, ProducerTypeOK, Picture, Local, Halves
  <2> QED
    BY <1>2, <2>1 DEF Local
<1>4. /\ <<local.parsed, second>> \in Picture
      /\ <<local.parsed, second>>[1] = local.parsed /\ <<local.parsed, second>>[2] = second
  BY <1>3 DEF Picture, Halves
<1>5. /\ cell' \in PointCloudFrame
      /\ cell'.seq = local.seq /\ cell'.newest = local.newest /\ cell'.count = local.count
      /\ cell'.untouched = local.untouched /\ cell'.sameLife = local.sameLife
      /\ cell'.data[1] = local.parsed /\ cell'.data[2] = second
  BY <1>2, <1>4 DEF Update, PointCloudFrame, Local
<1>6. TypeOK'
  BY <1>1, <1>2, <1>5, HeaderSame, PlaceTypes, TypesFollow DEF Update, CloudInv, Attached, AtFrame, rerun
<1>7. LocalSound'
  BY DEF Update, LocalSound, AtFrame
<1>8. local.untouched /\ local.seq # 0 => local.parsed = second
  <2>1. ASSUME local.untouched, local.seq # 0 PROVE local.parsed = second
    <3>1. /\ local.sameLife /\ local.read_idx = write_idx[mapped]
          /\ local.parsed = buf[mapped][local.read_idx][1]
          /\ frame_seq[mapped] # 0 /\ ~inPlace[mapped]
      BY <1>2, <2>1 DEF CloudInv, LocalSound
    <3>2. Whole(Active(mapped))
      BY <1>2, <3>1 DEF CloudInv, ProducerInv, FramesSound
    <3> QED
      BY <3>1, <3>2 DEF Whole, Active
  <2> QED
    BY <2>1
<1>9. local.sameLife =>
        local.newest <= local.parsed /\ local.newest <= second /\ local.newest <= local.count
  BY <1>2 DEF CloudInv, LocalSound, Halves
<1> HIDE DEF second
<1>10. WholeUnlessTouched'
  BY <1>5, <1>8 DEF WholeUnlessTouched
<1>11. NotOlderThanSeq'
  <2>1. /\ local.newest \in Nat /\ local.parsed \in Nat /\ second \in Nat /\ local.count \in Nat
    BY <1>2, <1>3 DEF Local, Frame
  <2> QED
    BY <1>5, <1>9, <2>1 DEF NotOlderThanSeq, Halves
<1> QED
  BY <1>1, <1>6, <1>7, <1>10, <1>11, HeaderSame DEF CloudInv

LEMMA SameKeeps ==
  ASSUME CloudInv, UNCHANGED <<producer, point_count, reader, cell>>,
         recording' \in BOOLEAN, pointcloud_last_seq' \in Frame
  PROVE  CloudInv'
<1>1. TypeOK'
  BY HeaderSame DEF CloudInv, TypeOK, producer, reader
<1>2. LocalSound'
  BY DEF CloudInv, LocalSound, producer, reader
<1> QED
  BY <1>1, <1>2, HeaderSame DEF CloudInv, WholeUnlessTouched, NotOlderThanSeq

LEMMA CloudStep ==
  ASSUME CloudInv, [Next]_vars
  PROVE  CloudInv'
<1>1. recording \in BOOLEAN /\ pointcloud_last_seq \in Frame
  BY DEF CloudInv, TypeOK
<1>2. CASE LogCloud
  <2>1. cell \in PointCloudFrame
    BY <1>2 DEF LogCloud, CloudInv, TypeOK
  <2>2. pointcloud_last_seq' \in Frame
    BY <1>2, <2>1 DEF LogCloud, PointCloudFrame
  <2> QED
    BY <1>1, <1>2, <2>2, SameKeeps DEF LogCloud
<1>3. CASE Connect
  BY <1>1, <1>3, SameKeeps DEF Connect
<1>4. CASE UNCHANGED vars
  BY <1>1, <1>4, SameKeeps DEF vars, rerun
<1> QED
  BY <1>2, <1>3, <1>4, ProducerMovesKeeps, OuterLoopKeeps, NewSeqKeeps, CheckMagicKeeps,
     ReadIndexKeeps, ReadCountKeeps, ParseHalfKeeps, UpdateKeeps DEF Next, Task

(* A cloud in the cell is that of one frame unless the producer changed    *)
(* the buffers while it was parsed where it lay (PointCloudFrame::from_raw *)
(* copies nothing first), or wrote a single cloud there; and neither its   *)
(* points nor their number, which is read apart from them, are older than  *)
(* the number of the frame.                                                *)
THEOREM CloudCorrect == Spec => []CloudSound
<1>1. Init => CloudInv
  BY CloudInit
<1>2. CloudInv /\ [Next]_vars => CloudInv'
  BY CloudStep
<1>3. CloudInv => CloudSound
  BY DEF CloudInv, CloudSound
<1> QED
  BY <1>1, <1>2, <1>3, PTL DEF Spec
=============================================================================
