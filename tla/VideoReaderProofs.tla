------------------------- MODULE VideoReaderProofs -------------------------
(***************************************************************************)
(* Proofs about the laser video, for every number of objects and frames:   *)
(* a picture is whole unless the buffers changed places under the copy,    *)
(* and not older than the number it is shown under.                        *)
(***************************************************************************)
EXTENDS VideoReader, ShmProducerProofs

(* What the reader has read of a frame, against what the producer has done *)
(* since: within one life the count has not gone back, the buffer that     *)
(* is read holds nothing older than the count, and as long as it is the    *)
(* active one the first half that was copied is still there.               *)
LocalSound ==
  place \in AtFrame =>
    /\ local.sameLife =>
         (local.seq # 0 => frame_seq[mapped] # 0) /\ local.newest <= complete[mapped]
    /\ local.unflipped =>
         /\ local.sameLife /\ place \in {"copy", "update"}
         /\ local.read_idx = write_idx[mapped]
    /\ local.sameLife /\ place \in {"copy", "update"} =>
         \A h \in Halves : local.newest <= buf[mapped][local.read_idx][h]
    /\ place = "update" =>
         /\ local.sameLife => local.newest <= local.copied
         /\ local.unflipped => local.copied = buf[mapped][local.read_idx][1]

\* The laser's producer writes frame after frame, and never a single cloud.
NoneInPlace == \A o \in Object : ~inPlace[o]

VideoInv ==
  /\ TypeOK /\ ProducerInv /\ NoneInPlace
  /\ LocalSound
  /\ WholeUnlessFlipped /\ NotOlderThanSeq

-----------------------------------------------------------------------------
(* The state of a task that is at a frame.                                 *)

LEMMA MappedObject ==
  ASSUME TypeOK, place \in Attached
  PROVE  mapped \in Object
  BY ProducerAssumption DEF TypeOK, ProducerTypeOK, Object, NoObject

LEMMA LocalIsNotNone ==
  ASSUME NEW l \in Local
  PROVE  l # None
  BY DEF Local, None

LEMMA VideoInit ==
  ASSUME Init
  PROVE  VideoInv
<1>1. ProducerInv
  BY ProducerInvInit DEF Init
<1>2. TypeOK
  <2>1. ProducerTypeOK /\ created \in Nat
    BY <1>1, ProducerAssumption DEF ProducerInv, ProducerTypeOK
  <2>2. place \notin Attached /\ place \notin AtFrame /\ mapped = NoObject
    BY DEF Init, Attached, AtFrame
  <2>3. mapped \in 0 .. created /\ last_seq \in Frame
    BY <2>1, ProducerAssumption DEF Init, NoObject, Frame
  <2> QED
    BY <2>1, <2>2, <2>3 DEF Init, TypeOK
<1>3. NoneInPlace
  BY DEF Init, ProducerInit, NoneInPlace
<1> QED
  BY <1>1, <1>2, <1>3
  DEF Init, VideoInv, LocalSound, WholeUnlessFlipped, NotOlderThanSeq, AtFrame

(* The producer.                                                           *)
LEMMA ProducerMovesKeeps ==
  ASSUME VideoInv, ProducerMoves
  PROVE  VideoInv'
<1>1. /\ Producer /\ ProducerInv /\ TypeOK
      /\ UNCHANGED <<place, mapped, last_seq, elapsed, cell, texture>>
  BY DEF ProducerMoves, VideoInv
<1>2. ProducerInv' /\ NoneInPlace'
  <2>1. inPlace' = inPlace \/ inPlace' = [inPlace EXCEPT ![named] = FALSE]
    BY <1>1 DEF Producer, StartNew, StartInPlace, WriteHeader, WriteHalf, WriteRest, Flip, Count, Stop
  <2> QED
    BY <1>1, <2>1, ProducerInvStep DEF VideoInv, NoneInPlace, TypeOK, ProducerTypeOK
<1>3. created \in Nat /\ created' \in Nat /\ created <= created'
  BY <1>1, ProducerAssumption DEF TypeOK, ProducerTypeOK,
     Producer, StartNew, StartInPlace, WriteHeader, WriteHalf, WriteRest, Flip, Count, Stop
<1>4. CASE place \notin AtFrame
  <2>1. local = None /\ local' = None
    BY <1>1, <1>4 DEF TypeOK, ProducerMoves
  <2>2. TypeOK'
    BY <1>1, <1>2, <1>3, <1>4, <2>1 DEF TypeOK, ProducerInv
  <2> QED
    BY <1>1, <1>2, <1>4, <2>2 DEF VideoInv, LocalSound, WholeUnlessFlipped, NotOlderThanSeq
<1>5. CASE place \in AtFrame
  <2> DEFINE same == local.sameLife /\ ~Restarted(mapped)
             unflipped == local.unflipped /\ same /\ write_idx'[mapped] = write_idx[mapped]
  <2>1. local \in Local /\ local # None
    BY <1>1, <1>5, LocalIsNotNone DEF TypeOK
  <2>2. local' = [local EXCEPT !.sameLife = same, !.unflipped = unflipped]
    BY <2>1 DEF ProducerMoves, Restarted
  <2>3. same \in BOOLEAN /\ unflipped \in BOOLEAN
    BY <2>1 DEF Local, Restarted
  <2>4. same => local.sameLife /\ ~Restarted(mapped)
    OBVIOUS
  <2>5. unflipped => local.unflipped /\ same /\ write_idx'[mapped] = write_idx[mapped]
    OBVIOUS
  <2> HIDE DEF same, unflipped
  <2>6. /\ local' \in Local
        /\ local'.seq = local.seq /\ local'.newest = local.newest
        /\ local'.read_idx = local.read_idx /\ local'.copied = local.copied
        /\ local'.sameLife = same /\ local'.unflipped = unflipped
    BY <2>1, <2>2, <2>3 DEF Local
  <2>7. TypeOK'
    BY <1>1, <1>2, <1>3, <1>5, <2>6 DEF TypeOK, ProducerInv
  <2>8. mapped \in Object
    BY <1>1, <1>5, MappedObject DEF Attached
  <2>9. /\ local.seq \in Nat /\ local.newest \in Nat /\ local.copied \in Nat
        /\ local.read_idx \in Buffer
    BY <2>1 DEF Local, Frame, Buffer
  <2>10. /\ frame_seq[mapped] \in Nat /\ frame_seq'[mapped] \in Nat
         /\ complete[mapped] \in Nat /\ complete'[mapped] \in Nat
         /\ \A h \in Halves : /\ buf[mapped][local.read_idx][h] \in Nat
                              /\ buf'[mapped][local.read_idx][h] \in Nat
    <3>1. ProducerTypeOK /\ ProducerTypeOK'
      BY <1>1, <1>2 DEF ProducerInv
    <3>2. frame_seq'[mapped] \in Frame /\ complete'[mapped] \in Frame
      BY <2>8, <3>1 DEF ProducerTypeOK
    <3>3. \A h \in Halves : buf'[mapped][local.read_idx][h] \in Frame
      <4>1. buf'[mapped] \in [Buffer -> [Halves -> Frame]]
        BY <2>8, <3>1 DEF ProducerTypeOK, Picture, Buffer
      <4> QED
        BY <2>9, <4>1
    <3> QED
      BY <2>8, <2>9, <3>1, <3>2, <3>3, ProducerValues DEF Frame
  <2>11. same => /\ frame_seq[mapped] # 0 => frame_seq'[mapped] # 0
                 /\ complete[mapped] <= complete'[mapped]
    BY <1>1, <2>4, <2>8, CountsGrow
  <2>12. \A h \in Halves : buf[mapped][local.read_idx][h] <= buf'[mapped][local.read_idx][h]
    BY <1>1, <2>8, <2>9, BuffersGrow
  <2>13. unflipped => Active(mapped)' = Active(mapped)
    BY <1>1, <1>2, <2>5, <2>8, ActiveUntouched DEF NoneInPlace
  <2>14. LocalSound'
    <3>1. LocalSound
      BY DEF VideoInv
    <3>2. same => /\ local.seq # 0 => frame_seq'[mapped] # 0
                  /\ local.newest <= complete'[mapped]
      BY <1>5, <2>4, <2>9, <2>10, <2>11, <3>1 DEF LocalSound
    <3>3. unflipped => /\ same /\ place \in {"copy", "update"}
                       /\ local.read_idx = write_idx'[mapped]
      BY <1>5, <2>5, <3>1 DEF LocalSound
    <3>4. same /\ place \in {"copy", "update"} =>
            \A h \in Halves : local.newest <= buf'[mapped][local.read_idx][h]
      BY <1>5, <2>4, <2>9, <2>10, <2>12, <3>1 DEF LocalSound
    <3>5. place = "update" =>
            /\ same => local.newest <= local.copied
            /\ unflipped => local.copied = buf'[mapped][local.read_idx][1]
      <4>1. unflipped => buf'[mapped][write_idx'[mapped]] = buf[mapped][write_idx[mapped]]
        BY <1>1, <2>13 DEF Active
      <4> QED
        BY <1>5, <2>4, <2>5, <3>1, <3>3, <4>1 DEF LocalSound
    <3> QED
      BY <1>1, <2>6, <3>2, <3>3, <3>4, <3>5 DEF LocalSound
  <2> QED
    BY <1>1, <1>2, <2>7, <2>14 DEF VideoInv, WholeUnlessFlipped, NotOlderThanSeq
<1> QED
  BY <1>4, <1>5

-----------------------------------------------------------------------------
(* The reader, whose steps leave the producer alone.                       *)

(* What they leave alone.                                                  *)
LEMMA ProducerSame ==
  ASSUME ProducerInv, NoneInPlace, UNCHANGED producer
  PROVE  ProducerInv' /\ NoneInPlace'
  BY ProducerInvSame DEF NoneInPlace, producer

(* The types of the state follow from those of what the reader assigns.    *)
LEMMA TypesFollow ==
  ASSUME TypeOK, UNCHANGED producer,
         \/ place' \in Attached /\ mapped' \in 1 .. created
         \/ place' \in {"off", "open", "wait", "done"} /\ mapped' = NoObject,
         \/ place' \in AtFrame /\ local' \in Local
         \/ place' \notin AtFrame /\ local' = None,
         last_seq' \in Frame, elapsed' \in BOOLEAN, texture' \in BOOLEAN,
         cell' \in VideoFrame \cup {None}
  PROVE  TypeOK'
<1>1. ProducerTypeOK' /\ created' = created /\ created \in Nat
  BY ProducerAssumption DEF TypeOK, ProducerTypeOK, producer
<1>2. CASE place' \in Attached /\ mapped' \in 1 .. created
  <2>1. mapped' \in 0 .. created /\ mapped' # NoObject
    BY <1>1, <1>2 DEF NoObject
  <2> QED
    BY <1>1, <1>2, <2>1 DEF TypeOK
<1>3. CASE place' \in {"off", "open", "wait", "done"} /\ mapped' = NoObject
  <2>1. mapped' \in 0 .. created /\ place' \notin Attached
    BY <1>1, <1>3 DEF NoObject, Attached, AtFrame
  <2> QED
    BY <1>1, <1>3, <2>1 DEF TypeOK
<1> QED
  BY <1>2, <1>3

(* What the reader knows of its own place.                                 *)
LEMMA PlaceTypes ==
  ASSUME TypeOK
  PROVE  /\ place \in Attached => mapped \in 1 .. created
         /\ place \notin Attached => mapped = NoObject
         /\ place \in AtFrame => local \in Local
         /\ place \notin AtFrame => local = None
         /\ last_seq \in Frame /\ elapsed \in BOOLEAN /\ texture \in BOOLEAN
         /\ cell \in VideoFrame \cup {None} /\ None \in VideoFrame \cup {None}
         /\ 0 \in Frame
  BY ProducerAssumption DEF TypeOK, ProducerTypeOK, NoObject, Frame

(* A task that is not at a frame, or no more, and keeps or clears the      *)
(* cell: nothing has to be said of what it has read.                       *)
LEMMA AwayFromFrames ==
  ASSUME VideoInv, TypeOK', UNCHANGED producer, place' \notin AtFrame, cell' \in {cell, None}
  PROVE  VideoInv'
<1>1. ProducerInv' /\ NoneInPlace'
  BY ProducerSame DEF VideoInv
<1> QED
  BY <1>1 DEF VideoInv, LocalSound, WholeUnlessFlipped, NotOlderThanSeq

LEMMA DisconnectKeeps ==
  ASSUME VideoInv, Disconnect, UNCHANGED <<producer, texture>>
  PROVE  VideoInv'
<1>1. place' = "wait" /\ place' \notin Attached /\ place' \notin AtFrame /\ mapped' = NoObject
  BY DEF Disconnect, Attached, AtFrame
<1>2. TypeOK'
  BY <1>1, PlaceTypes, TypesFollow DEF VideoInv, Disconnect
<1> QED
  BY <1>1, <1>2, AwayFromFrames DEF Disconnect

(* The steps in which nothing of a frame is read.                          *)
LEMMA OuterLoopKeeps ==
  ASSUME VideoInv,
         Open \/ Attach \/ Wait \/ Stalled \/ Shutdown \/ Elapse \/ EnsureStarted
  PROVE  VideoInv'
<1>1. CASE Stalled
  BY <1>1, DisconnectKeeps DEF Stalled
<1>2. CASE Open
  <2>1. named # NoObject => named \in 1 .. created
    BY DEF VideoInv, TypeOK, ProducerTypeOK, NoObject
  <2>2. TypeOK'
    BY <1>2, <2>1, PlaceTypes, TypesFollow DEF Open, VideoInv, Attached, AtFrame
  <2>3. place' \notin AtFrame /\ cell' \in {cell, None} /\ UNCHANGED producer
    BY <1>2 DEF Open, AtFrame
  <2> QED
    BY <2>2, <2>3, AwayFromFrames
<1>3. CASE Attach
  <2>1. FirstSeq \in Frame
    <3>1. mapped \in Object
      BY <1>3, MappedObject DEF Attach, VideoInv, Attached
    <3> QED
      BY <3>1 DEF FirstSeq, VideoInv, TypeOK, ProducerTypeOK
  <2>2. TypeOK'
    BY <1>3, <2>1, PlaceTypes, TypesFollow DEF Attach, VideoInv, Attached, AtFrame
  <2>3. place' \notin AtFrame /\ cell' \in {cell, None} /\ UNCHANGED producer
    BY <1>3 DEF Attach, AtFrame
  <2> QED
    BY <2>2, <2>3, AwayFromFrames
<1>4. CASE Wait \/ EnsureStarted
  <2>1. TypeOK'
    BY <1>4, PlaceTypes, TypesFollow DEF Wait, EnsureStarted, VideoInv, Attached, AtFrame
  <2>2. place' \notin AtFrame /\ cell' \in {cell, None} /\ UNCHANGED producer
    BY <1>4 DEF Wait, EnsureStarted, AtFrame
  <2> QED
    BY <2>1, <2>2, AwayFromFrames
<1>5. CASE Shutdown
  <2>1. place \notin AtFrame /\ place' = "done" /\ place' \notin Attached /\ place' \notin AtFrame
    BY <1>5 DEF Shutdown, Attached, AtFrame
  <2>2. TypeOK'
    BY <1>5, <2>1, PlaceTypes, TypesFollow DEF Shutdown, VideoInv
  <2> QED
    BY <1>5, <2>1, <2>2, AwayFromFrames DEF Shutdown
<1>6. CASE Elapse
  <2>1. place \notin AtFrame
    BY <1>6 DEF Elapse, AtFrame
  <2>2. TypeOK'
    BY <1>6, PlaceTypes, TypesFollow DEF Elapse, VideoInv, Attached, AtFrame
  <2> QED
    BY <1>6, <2>1, <2>2, AwayFromFrames DEF Elapse
<1> QED
  BY <1>1, <1>2, <1>3, <1>4, <1>5, <1>6

LEMMA NewSeqKeeps ==
  ASSUME VideoInv, NewSeq
  PROVE  VideoInv'
<1>1. ProducerInv' /\ NoneInPlace' /\ UNCHANGED producer
  BY ProducerSame DEF VideoInv, NewSeq
<1>2. mapped \in Object
  BY MappedObject DEF NewSeq, VideoInv, Attached
<1>3. /\ frame_seq[mapped] \in Frame /\ complete[mapped] \in Frame /\ 0 \in Frame
      /\ frame_seq[mapped] \in Nat /\ complete[mapped] \in Nat
  BY <1>2, ProducerAssumption DEF VideoInv, TypeOK, ProducerTypeOK, Frame
<1>4. /\ local' \in Local /\ local'.seq = frame_seq[mapped]
      /\ local'.newest = complete[mapped] /\ ~local'.unflipped
  BY <1>3 DEF NewSeq, Local
<1>5. TypeOK'
  BY <1>1, <1>3, <1>4, PlaceTypes, TypesFollow DEF NewSeq, VideoInv, Attached, AtFrame
<1>6. LocalSound'
  BY <1>1, <1>3, <1>4 DEF NewSeq, LocalSound, producer
<1> QED
  BY <1>1, <1>5, <1>6 DEF NewSeq, VideoInv, WholeUnlessFlipped, NotOlderThanSeq

LEMMA CheckMagicKeeps ==
  ASSUME VideoInv, CheckMagic
  PROVE  VideoInv'
<1>1. ProducerInv' /\ NoneInPlace' /\ UNCHANGED producer
  BY ProducerSame DEF VideoInv, CheckMagic
<1>2. CASE magic[mapped]
  <2>1. TypeOK'
    BY <1>1, <1>2, PlaceTypes, TypesFollow DEF CheckMagic, VideoInv, Attached, AtFrame
  <2>2. LocalSound'
    BY <1>1, <1>2 DEF CheckMagic, VideoInv, LocalSound, AtFrame, producer
  <2> QED
    BY <1>1, <1>2, <2>1, <2>2 DEF CheckMagic, VideoInv, WholeUnlessFlipped, NotOlderThanSeq
<1>3. CASE ~magic[mapped]
  BY <1>3, DisconnectKeeps DEF CheckMagic
<1> QED
  BY <1>2, <1>3

LEMMA ReadIndexKeeps ==
  ASSUME VideoInv, ReadIndex
  PROVE  VideoInv'
<1>1. ProducerInv' /\ NoneInPlace' /\ UNCHANGED producer
  BY ProducerSame DEF VideoInv, ReadIndex
<1>2. place = "index" /\ place \in AtFrame /\ local \in Local /\ mapped \in Object
  BY MappedObject DEF ReadIndex, VideoInv, TypeOK, AtFrame, Attached
<1>3. write_idx[mapped] \in 0 .. 1
  BY <1>2 DEF VideoInv, TypeOK, ProducerTypeOK
<1>4. /\ local' \in Local /\ local'.read_idx = write_idx[mapped]
      /\ local'.seq = local.seq /\ local'.newest = local.newest
      /\ local'.sameLife = local.sameLife /\ local'.unflipped = local.sameLife
  BY <1>2, <1>3 DEF ReadIndex, ActiveBuffer, Local
<1>5. TypeOK'
  BY <1>1, <1>2, <1>4, PlaceTypes, TypesFollow DEF ReadIndex, VideoInv, Attached, AtFrame
<1>6. local.sameLife => \A h \in Halves : local.newest <= buf[mapped][write_idx[mapped]][h]
  <2>1. \A h \in Halves : complete[mapped] <= Active(mapped)[h]
    BY <1>2 DEF VideoInv, ProducerInv, FramesSound
  <2>2. /\ local.newest \in Nat /\ complete[mapped] \in Nat
        /\ \A h \in Halves : Active(mapped)[h] \in Nat
    BY <1>2, ProducerValues DEF Local, Frame, VideoInv, ProducerInv
  <2>3. local.sameLife => local.newest <= complete[mapped]
    BY <1>2 DEF VideoInv, LocalSound
  <2>4. local.sameLife => \A h \in Halves : local.newest <= Active(mapped)[h]
    BY <2>1, <2>2, <2>3
  <2> QED
    BY <2>4 DEF Active
<1>7. LocalSound'
  BY <1>1, <1>2, <1>4, <1>6 DEF ReadIndex, VideoInv, LocalSound, producer
<1> QED
  BY <1>1, <1>5, <1>7 DEF ReadIndex, VideoInv, WholeUnlessFlipped, NotOlderThanSeq

LEMMA CopyHalfKeeps ==
  ASSUME VideoInv, CopyHalf
  PROVE  VideoInv'
<1>1. ProducerInv' /\ NoneInPlace' /\ UNCHANGED producer
  BY ProducerSame DEF VideoInv, CopyHalf
<1>2. place = "copy" /\ place \in AtFrame /\ local \in Local /\ mapped \in Object
  BY MappedObject DEF CopyHalf, VideoInv, TypeOK, AtFrame, Attached
<1>3. buf[mapped][local.read_idx][1] \in Frame
  <2>1. buf[mapped] \in [0 .. 1 -> [Halves -> Frame]] /\ local.read_idx \in 0 .. 1 /\ 1 \in Halves
    BY <1>2 DEF VideoInv, TypeOK, ProducerTypeOK, Picture, Local, Halves
  <2> QED
    BY <2>1
<1>4. /\ local' \in Local /\ local'.copied = buf[mapped][local.read_idx][1]
      /\ local'.seq = local.seq /\ local'.newest = local.newest
      /\ local'.read_idx = local.read_idx
      /\ local'.sameLife = local.sameLife /\ local'.unflipped = local.unflipped
  BY <1>2, <1>3 DEF CopyHalf, Local
<1>5. TypeOK'
  BY <1>1, <1>2, <1>4, PlaceTypes, TypesFollow DEF CopyHalf, VideoInv, Attached, AtFrame
<1>6. LocalSound'
  BY <1>1, <1>2, <1>4 DEF CopyHalf, VideoInv, LocalSound, producer, Halves
<1> QED
  BY <1>1, <1>5, <1>6 DEF CopyHalf, VideoInv, WholeUnlessFlipped, NotOlderThanSeq

(* The picture of the cell: its first half was copied before, its second   *)
(* is copied now.                                                          *)
LEMMA UpdateKeeps ==
  ASSUME VideoInv, Update
  PROVE  VideoInv'
<1> DEFINE second == buf[mapped][local.read_idx][2]
<1>1. ProducerInv' /\ NoneInPlace' /\ UNCHANGED producer
  BY ProducerSame DEF VideoInv, Update
<1>2. place = "update" /\ place \in AtFrame /\ local \in Local /\ mapped \in Object
  BY MappedObject DEF Update, VideoInv, TypeOK, AtFrame, Attached
<1>3. second \in Frame /\ local.copied \in Frame
  <2>1. buf[mapped] \in [0 .. 1 -> [Halves -> Frame]] /\ local.read_idx \in 0 .. 1 /\ 2 \in Halves
    BY <1>2 DEF VideoInv, TypeOK, ProducerTypeOK, Picture, Local, Halves
  <2> QED
    BY <1>2, <2>1 DEF Local
<1>4. /\ <<local.copied, second>> \in Picture
      /\ <<local.copied, second>>[1] = local.copied /\ <<local.copied, second>>[2] = second
  BY <1>3 DEF Picture, Halves
<1>5. /\ cell' \in VideoFrame
      /\ cell'.seq = local.seq /\ cell'.newest = local.newest
      /\ cell'.unflipped = local.unflipped /\ cell'.sameLife = local.sameLife
      /\ cell'.data[1] = local.copied /\ cell'.data[2] = second
  BY <1>2, <1>4 DEF Update, VideoFrame, Local
<1>6. TypeOK'
  BY <1>1, <1>2, <1>5, PlaceTypes, TypesFollow DEF Update, VideoInv, Attached, AtFrame
<1>7. LocalSound'
  BY DEF Update, LocalSound, AtFrame
<1>8. local.unflipped /\ local.seq # 0 => local.copied = second
  <2>1. ASSUME local.unflipped, local.seq # 0 PROVE local.copied = second
    <3>1. /\ local.sameLife /\ local.read_idx = write_idx[mapped]
          /\ local.copied = buf[mapped][local.read_idx][1]
          /\ frame_seq[mapped] # 0
      BY <1>2, <2>1 DEF VideoInv, LocalSound
    <3>2. Whole(Active(mapped))
      BY <1>2, <3>1 DEF VideoInv, ProducerInv, FramesSound, NoneInPlace
    <3> QED
      BY <3>1, <3>2 DEF Whole, Active
  <2> QED
    BY <2>1
<1>9. local.sameLife => local.newest <= local.copied /\ local.newest <= second
  BY <1>2 DEF VideoInv, LocalSound, Halves
<1> HIDE DEF second
<1>10. WholeUnlessFlipped'
  BY <1>5, <1>8 DEF WholeUnlessFlipped
<1>11. NotOlderThanSeq'
  <2>1. /\ local.newest \in Nat /\ local.copied \in Nat /\ second \in Nat
    BY <1>2, <1>3 DEF Local, Frame
  <2> QED
    BY <1>5, <1>9, <2>1 DEF NotOlderThanSeq, Halves
<1> QED
  BY <1>1, <1>6, <1>7, <1>10, <1>11 DEF VideoInv

LEMMA SameKeeps ==
  ASSUME VideoInv, UNCHANGED <<producer, reader, cell>>, texture' \in BOOLEAN
  PROVE  VideoInv'
<1>1. ProducerInv' /\ NoneInPlace'
  BY ProducerSame DEF VideoInv
<1>2. TypeOK'
  BY <1>1 DEF VideoInv, TypeOK, ProducerInv, producer, reader
<1>3. LocalSound'
  BY DEF VideoInv, LocalSound, producer, reader
<1> QED
  BY <1>1, <1>2, <1>3 DEF VideoInv, WholeUnlessFlipped, NotOlderThanSeq

LEMMA VideoStep ==
  ASSUME VideoInv, [Next]_vars
  PROVE  VideoInv'
<1>1. CASE Refresh \/ UNCHANGED vars
  BY <1>1, SameKeeps DEF Refresh, vars, VideoInv, TypeOK
<1> QED
  BY <1>1, ProducerMovesKeeps, OuterLoopKeeps, NewSeqKeeps, CheckMagicKeeps, ReadIndexKeeps,
     CopyHalfKeeps, UpdateKeeps DEF Next, Task

(* A picture in the cell is one whole frame unless the producer changed    *)
(* the buffers while it was copied (video.rs takes no lock that the        *)
(* producer knows of), and shows nothing older than the number that was    *)
(* read before it; a producer may die and be started again at any point.   *)
THEOREM PictureCorrect == Spec => []PictureSound
<1>1. Init => VideoInv
  BY VideoInit
<1>2. VideoInv /\ [Next]_vars => VideoInv'
  BY VideoStep
<1>3. VideoInv => PictureSound
  BY DEF VideoInv, PictureSound
<1> QED
  BY <1>1, <1>2, <1>3, PTL DEF Spec
=============================================================================
