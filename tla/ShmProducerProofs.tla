------------------------- MODULE ShmProducerProofs -------------------------
(***************************************************************************)
(* What a reader may rely on that shares no lock with the producer of      *)
(* ShmProducer, for every number of objects and frames, whichever of the   *)
(* two kinds of producers runs: the lemmas behind VideoReaderProofs and    *)
(* PointCloudReaderProofs.                                                 *)
(***************************************************************************)
EXTENDS ShmProducer, TLAPS

Buffer == 0 .. 1

Whole(picture) == picture[1] = picture[2]

\* The buffer that may be read, and the one that may be written.
Active(o) == buf[o][write_idx[o]]
Spare(o) == buf[o][1 - write_idx[o]]

\* Where the frame is that the producer is at.
FrameUnderWay ==
  /\ at \in {"half", "flip", "count"} => frame_seq[named] < written
  /\ at = "half" => Spare(named)[1] = written
  /\ at = "flip" => Spare(named)[1] = written /\ Spare(named)[2] = written
  /\ at = "count" => Active(named)[1] = written /\ Active(named)[2] = written

\* Where the single cloud is, which is written into a buffer that may be read.
CloudUnderWay ==
  /\ at \in {"once_index", "once_half", "once_rest", "once_count"} => written # 0
  /\ at \in {"once_half", "once_rest", "once_count"} => inPlace[named] /\ write_idx[named] = 0
  /\ at = "once_rest" => buf[named][0][1] = written
  /\ at = "once_count" => buf[named][0][1] = written /\ buf[named][0][2] = written

\* Whatever was left half written, once a frame has been counted the active buffer
\* of object o is whole, unless a single cloud has been begun there since; and it
\* is never older than the count.
FramesSound(o) ==
  /\ frame_seq[o] <= written /\ complete[o] <= written
  /\ \A b \in Buffer, h \in Halves : buf[o][b][h] <= written
  /\ \A h \in Halves : complete[o] <= Active(o)[h]
  /\ frame_seq[o] # 0 /\ ~inPlace[o] => Whole(Active(o))

ProducerInv ==
  /\ ProducerTypeOK
  /\ at # "off" => named # NoObject
  /\ \A o \in Object : FramesSound(o)
  /\ FrameUnderWay /\ CloudUnderWay

LEMMA ProducerInvInit ==
  ASSUME ProducerInit
  PROVE  ProducerInv
<1>1. ProducerTypeOK
  BY ProducerAssumption DEF ProducerInit, ProducerTypeOK, Object, NoObject, Frame, Picture, Halves
<1>2. \A o \in Object :
        /\ frame_seq[o] = 0 /\ complete[o] = 0 /\ write_idx[o] = 0
        /\ \A b \in Buffer, h \in Halves : buf[o][b][h] = 0
  BY DEF ProducerInit, Buffer
<1>3. \A o \in Object : Active(o)[1] = 0 /\ Active(o)[2] = 0
  BY <1>2 DEF Active, Buffer, Halves
<1>4. \A o \in Object : FramesSound(o)
  BY <1>2, <1>3 DEF ProducerInit, FramesSound, Halves
<1> QED
  BY <1>1, <1>4 DEF ProducerInit, ProducerInv, FrameUnderWay, CloudUnderWay

(* The object of a running producer and its buffers.                       *)
LEMMA NamedObject ==
  ASSUME ProducerInv, at # "off"
  PROVE  /\ named \in Object
         /\ write_idx[named] \in Buffer /\ 1 - write_idx[named] \in Buffer
         /\ 1 - write_idx[named] # write_idx[named]
<1>1. named \in Object
  BY ProducerAssumption DEF ProducerInv, ProducerTypeOK, Object, NoObject
<1>2. write_idx[named] \in 0 .. 1
  BY <1>1 DEF ProducerInv, ProducerTypeOK
<1> QED
  BY <1>1, <1>2 DEF Buffer

(* Values of a well-typed producer.                                        *)
LEMMA ProducerValues ==
  ASSUME ProducerTypeOK
  PROVE  /\ written \in Nat
         /\ \A o \in Object :
              /\ frame_seq[o] \in Nat /\ complete[o] \in Nat /\ write_idx[o] \in Buffer
              /\ \A b \in Buffer, h \in Halves : buf[o][b][h] \in Nat
              /\ \A h \in Halves : Active(o)[h] \in Nat /\ Spare(o)[h] \in Nat
<1>1. written \in Nat
  BY DEF ProducerTypeOK, Frame
<1>2. ASSUME NEW o \in Object
      PROVE  /\ frame_seq[o] \in Nat /\ complete[o] \in Nat /\ write_idx[o] \in Buffer
             /\ \A b \in Buffer, h \in Halves : buf[o][b][h] \in Nat
  <2>1. /\ frame_seq[o] \in Frame /\ complete[o] \in Frame /\ write_idx[o] \in 0 .. 1
        /\ buf[o] \in [0 .. 1 -> Picture]
    BY DEF ProducerTypeOK
  <2>2. \A b \in Buffer : buf[o][b] \in [Halves -> Frame]
    BY <2>1 DEF Buffer, Picture
  <2> QED
    BY <2>1, <2>2 DEF Buffer, Frame
<1>3. ASSUME NEW o \in Object, NEW h \in Halves
      PROVE  Active(o)[h] \in Nat /\ Spare(o)[h] \in Nat
  <2>1. write_idx[o] \in Buffer /\ 1 - write_idx[o] \in Buffer
    BY <1>2 DEF Buffer
  <2> QED
    BY <1>2, <2>1 DEF Active, Spare
<1> QED
  BY <1>1, <1>2, <1>3

-----------------------------------------------------------------------------
(* Steps of the producer.                                                  *)

\* Half h of buffer b of the producer's object has become f, and what that means
\* for the buffers that may be read.
HalfIs(b, h, f) ==
  /\ buf' \in [Object -> [0 .. 1 -> Picture]]
  /\ buf'[named][b][h] = f
  /\ \A k \in Halves \ {h} : buf'[named][b][k] = buf[named][b][k]
  /\ \A o \in Object, c \in Buffer, k \in Halves : buf'[o][c][k] \in {buf[o][c][k], f}
  /\ \A o \in Object : o # named \/ b # write_idx[named] => Active(o)' = Active(o)

(* Half a picture written into a buffer of the producer's object.          *)
LEMMA HalfWritten ==
  ASSUME ProducerInv, at # "off", NEW b \in Buffer, NEW h \in Halves, NEW f \in Frame,
         buf' = [buf EXCEPT ![named][b][h] = f],
         UNCHANGED write_idx
  PROVE  HalfIs(b, h, f)
<1>1. named \in Object
  BY NamedObject
<1>2. buf \in [Object -> [Buffer -> [Halves -> Frame]]]
  BY DEF ProducerInv, ProducerTypeOK, Buffer, Picture
<1>3. write_idx \in [Object -> Buffer]
  BY DEF ProducerInv, ProducerTypeOK, Buffer
<1>4. /\ buf' \in [Object -> [Buffer -> [Halves -> Frame]]]
      /\ buf'[named][b][h] = f
      /\ \A o \in Object : o # named => buf'[o] = buf[o]
      /\ \A c \in Buffer : c # b => buf'[named][c] = buf[named][c]
      /\ \A k \in Halves : k # h => buf'[named][b][k] = buf[named][b][k]
  BY <1>1, <1>2
<1>5. \A o \in Object : o # named \/ b # write_idx[named] => Active(o)' = Active(o)
  BY <1>1, <1>3, <1>4 DEF Active
<1> QED
  BY <1>1, <1>4, <1>5 DEF HalfIs, Buffer, Picture

(* An object that the step does not count in: it may get what is being     *)
(* written, but in the buffer that may be read only as a single cloud.     *)
LEMMA FramesKept ==
  ASSUME ProducerInv, written' \in Nat, written <= written', NEW o \in Object,
         frame_seq'[o] = frame_seq[o], complete'[o] = complete[o],
         inPlace[o] => inPlace'[o],
         \A b \in Buffer, h \in Halves : buf'[o][b][h] \in {buf[o][b][h], written'},
         \/ Active(o)' = Active(o)
         \/ inPlace'[o] /\ \A h \in Halves : Active(o)'[h] \in {Active(o)[h], written'}
  PROVE  FramesSound(o)'
<1>1. /\ written \in Nat /\ frame_seq[o] \in Nat /\ complete[o] \in Nat
      /\ \A b \in Buffer, h \in Halves : buf[o][b][h] \in Nat
      /\ \A h \in Halves : Active(o)[h] \in Nat
      /\ FramesSound(o)
  BY ProducerValues DEF ProducerInv
<1>2. \A b \in Buffer, h \in Halves : buf'[o][b][h] <= written'
  BY <1>1 DEF FramesSound
<1>3. frame_seq'[o] <= written' /\ complete'[o] <= written'
  BY <1>1 DEF FramesSound
<1>4. \A h \in Halves : complete'[o] <= Active(o)'[h]
  BY <1>1, <1>3 DEF FramesSound
<1>5. frame_seq'[o] # 0 /\ ~inPlace'[o] => Whole(Active(o))'
  BY <1>1 DEF FramesSound, Whole
<1> QED
  BY <1>2, <1>3, <1>4, <1>5 DEF FramesSound

(* The same, of a step that writes into no buffer and moves none.          *)
LEMMA FramesSame ==
  ASSUME ProducerInv, written' \in Nat, written <= written', NEW o \in Object,
         UNCHANGED <<frame_seq, complete, write_idx, buf, inPlace>>
  PROVE  FramesSound(o)'
<1>1. Active(o)' = Active(o)
  BY DEF Active
<1>2. /\ frame_seq'[o] = frame_seq[o] /\ complete'[o] = complete[o]
      /\ (inPlace[o] => inPlace'[o])
      /\ \A b \in Buffer, h \in Halves : buf'[o][b][h] \in {buf[o][b][h], written'}
  OBVIOUS
<1> QED
  BY <1>1, <1>2, FramesKept

LEMMA StartKeepsFrames ==
  ASSUME ProducerInv, StartNew \/ StartInPlace
  PROVE  ProducerInv'
<1>1. /\ at' = "init" /\ written' = written /\ written \in Nat
      /\ UNCHANGED <<frame_seq, complete, write_idx, buf, inPlace>>
  BY ProducerValues DEF ProducerInv, StartNew, StartInPlace
<1>2. \A o \in Object : FramesSound(o)'
  BY <1>1, FramesSame
<1>3. ProducerTypeOK' /\ named' # NoObject
  <2>1. CASE StartNew
    BY <2>1, ProducerAssumption DEF ProducerInv, ProducerTypeOK, StartNew, NoObject
  <2>2. CASE StartInPlace
    BY <2>2 DEF ProducerInv, ProducerTypeOK, StartInPlace
  <2> QED
    BY <2>1, <2>2
<1> QED
  BY <1>1, <1>2, <1>3 DEF ProducerInv, FrameUnderWay, CloudUnderWay

LEMMA StopKeepsFrames ==
  ASSUME ProducerInv, Stop
  PROVE  ProducerInv'
<1>1. /\ at' = "off" /\ written' = written /\ written \in Nat
      /\ UNCHANGED <<frame_seq, complete, write_idx, buf, inPlace>>
  BY ProducerValues DEF ProducerInv, Stop
<1>2. \A o \in Object : FramesSound(o)'
  BY <1>1, FramesSame
<1>3. ProducerTypeOK'
  BY ProducerAssumption DEF ProducerInv, ProducerTypeOK, Stop, NoObject
<1> QED
  BY <1>1, <1>2, <1>3 DEF ProducerInv, FrameUnderWay, CloudUnderWay

LEMMA WriteHeaderKeepsFrames ==
  ASSUME ProducerInv, WriteHeader
  PROVE  ProducerInv'
<1>1. /\ named \in Object /\ at # "off" /\ at' = "idle" /\ named' = named
      /\ written' = written /\ written \in Nat /\ buf' = buf
  BY NamedObject, ProducerValues DEF WriteHeader, ProducerInv
<1>2. 0 \in Frame /\ 0 \in 0 .. 1
  BY ProducerAssumption DEF Frame
<1>3. ProducerTypeOK'
  BY <1>1, <1>2 DEF ProducerInv, ProducerTypeOK, WriteHeader
<1>4. ASSUME NEW o \in Object PROVE FramesSound(o)'
  <2>1. CASE o = named
    <3>1. frame_seq'[o] = 0 /\ complete'[o] = 0
      BY <1>1, <2>1 DEF WriteHeader, ProducerInv, ProducerTypeOK
    <3>2. \A h \in Halves : Active(o)'[h] \in Nat
      <4>1. write_idx' \in [Object -> 0 .. 1] /\ buf' \in [Object -> [0 .. 1 -> Picture]]
        BY <1>3 DEF ProducerTypeOK
      <4>2. Active(o)' \in [Halves -> Frame]
        BY <4>1 DEF Active, Picture
      <4> QED
        BY <4>2 DEF Frame
    <3>3. \A b \in Buffer, h \in Halves : buf'[o][b][h] <= written'
      BY <1>1 DEF ProducerInv, FramesSound
    <3> QED
      BY <1>1, <3>1, <3>2, <3>3 DEF FramesSound
  <2>2. CASE o # named
    <3>1. /\ frame_seq'[o] = frame_seq[o] /\ complete'[o] = complete[o]
          /\ inPlace'[o] = inPlace[o] /\ Active(o)' = Active(o)
      BY <1>1, <2>2 DEF WriteHeader, ProducerInv, ProducerTypeOK, Active
    <3> QED
      BY <1>1, <3>1, FramesKept
  <2> QED
    BY <2>1, <2>2
<1> QED
  BY <1>1, <1>3, <1>4 DEF ProducerInv, FrameUnderWay, CloudUnderWay

LEMMA WriteHalfKeepsFrames ==
  ASSUME ProducerInv, WriteHalf
  PROVE  ProducerInv'
<1>1. /\ at = "idle" /\ at # "off" /\ at' = "half" /\ named' = named
      /\ written' = written + 1
      /\ buf' = [buf EXCEPT ![named][1 - write_idx[named]][1] = written + 1]
      /\ UNCHANGED <<created, magic, frame_seq, write_idx, complete, inPlace>>
  BY DEF WriteHalf
<1>2. written \in Nat /\ written + 1 \in Frame /\ 1 \in Halves
  BY ProducerAssumption DEF WriteHalf, ProducerInv, ProducerTypeOK, Frame, Halves
<1>3. named \in Object /\ 1 - write_idx[named] \in Buffer /\ 1 - write_idx[named] # write_idx[named]
  BY <1>1, NamedObject
<1>4. /\ buf' \in [Object -> [0 .. 1 -> Picture]]
      /\ Spare(named)'[1] = written + 1
      /\ \A o \in Object : Active(o)' = Active(o)
      /\ \A o \in Object, b \in Buffer, k \in Halves :
           buf'[o][b][k] \in {buf[o][b][k], written'}
  <2>1. HalfIs(1 - write_idx[named], 1, written + 1)
    BY <1>1, <1>2, <1>3, HalfWritten
  <2> QED
    BY <1>1, <1>3, <2>1 DEF HalfIs, Spare
<1>5. ProducerTypeOK'
  BY <1>1, <1>2, <1>4 DEF ProducerInv, ProducerTypeOK
<1>6. ASSUME NEW o \in Object PROVE FramesSound(o)'
  <2>1. /\ frame_seq'[o] = frame_seq[o] /\ complete'[o] = complete[o]
        /\ (inPlace[o] => inPlace'[o])
        /\ written' \in Nat /\ written <= written'
    BY <1>1, <1>2
  <2> QED
    BY <1>4, <2>1, FramesKept
<1>7. frame_seq'[named] < written'
  <2>1. frame_seq[named] \in Nat /\ frame_seq[named] <= written
    BY <1>3, ProducerValues DEF ProducerInv, FramesSound
  <2> QED
    BY <1>1, <1>2, <2>1
<1>8. FrameUnderWay' /\ CloudUnderWay'
  BY <1>1, <1>4, <1>7 DEF FrameUnderWay, CloudUnderWay
<1> QED
  BY <1>1, <1>5, <1>6, <1>8 DEF ProducerInv

LEMMA WriteRestKeepsFrames ==
  ASSUME ProducerInv, WriteRest
  PROVE  ProducerInv'
<1>1. /\ at = "half" /\ at # "off" /\ at' = "flip" /\ named' = named /\ written' = written
      /\ buf' = [buf EXCEPT ![named][1 - write_idx[named]][2] = written]
      /\ UNCHANGED <<created, magic, frame_seq, write_idx, complete, inPlace>>
  BY DEF WriteRest
<1>2. written \in Nat /\ written \in Frame /\ 2 \in Halves /\ 1 \in Halves \ {2}
  BY ProducerAssumption DEF ProducerInv, ProducerTypeOK, Frame, Halves
<1>3. 1 - write_idx[named] \in Buffer /\ 1 - write_idx[named] # write_idx[named]
  BY <1>1, NamedObject
<1>4. /\ buf' \in [Object -> [0 .. 1 -> Picture]]
      /\ Spare(named)'[2] = written
      /\ \A o \in Object : Active(o)' = Active(o)
      /\ \A o \in Object, b \in Buffer, k \in Halves :
           buf'[o][b][k] \in {buf[o][b][k], written'}
      /\ \A k \in Halves \ {2} : buf'[named][1 - write_idx[named]][k] = Spare(named)[k]
  <2>1. HalfIs(1 - write_idx[named], 2, written)
    BY <1>1, <1>2, <1>3, HalfWritten
  <2> QED
    BY <1>1, <1>3, <2>1 DEF HalfIs, Spare
<1>5. ProducerTypeOK'
  BY <1>1, <1>2, <1>4 DEF ProducerInv, ProducerTypeOK
<1>6. Spare(named)'[1] = written
  BY <1>1, <1>2, <1>4 DEF ProducerInv, FrameUnderWay, Spare
<1>7. ASSUME NEW o \in Object PROVE FramesSound(o)'
  <2>1. /\ frame_seq'[o] = frame_seq[o] /\ complete'[o] = complete[o]
        /\ (inPlace[o] => inPlace'[o])
        /\ written' \in Nat /\ written <= written'
    BY <1>1, <1>2
  <2> QED
    BY <1>4, <2>1, FramesKept
<1>8. FrameUnderWay' /\ CloudUnderWay'
  BY <1>1, <1>4, <1>6 DEF ProducerInv, FrameUnderWay, CloudUnderWay
<1> QED
  BY <1>1, <1>5, <1>7, <1>8 DEF ProducerInv

LEMMA FlipKeepsFrames ==
  ASSUME ProducerInv, Flip
  PROVE  ProducerInv'
<1>1. /\ at = "flip" /\ at # "off" /\ at' = "count"
      /\ write_idx' = [write_idx EXCEPT ![named] = 1 - @]
      /\ UNCHANGED <<named, created, written, magic, frame_seq, buf, complete, inPlace>>
  BY DEF Flip
<1>2. named \in Object /\ 1 - write_idx[named] \in Buffer /\ written \in Nat
  BY <1>1, NamedObject, ProducerValues DEF ProducerInv
<1>3. ProducerTypeOK'
  BY <1>1, <1>2 DEF ProducerInv, ProducerTypeOK, Buffer
<1>4. Active(named)' = Spare(named) /\ \A o \in Object : o # named => Active(o)' = Active(o)
  BY <1>1, <1>2 DEF Active, Spare, ProducerInv, ProducerTypeOK
<1>5. /\ Spare(named)[1] = written /\ Spare(named)[2] = written
      /\ frame_seq[named] < written
  BY <1>1 DEF ProducerInv, FrameUnderWay
<1>6. Active(named)'[1] = written /\ Active(named)'[2] = written
  BY <1>1, <1>4, <1>5
<1>7. ASSUME NEW o \in Object PROVE FramesSound(o)'
  <2>1. CASE o = named
    <3>1. \A h \in Halves : Active(o)'[h] = written
      BY <1>1, <1>6, <2>1 DEF Active, Halves
    <3>2. FramesSound(o)
      BY DEF ProducerInv
    <3>3. Whole(Active(o))'
      BY <3>1 DEF Whole, Halves
    <3> QED
      BY <1>1, <3>1, <3>2, <3>3 DEF FramesSound
  <2>2. CASE o # named
    BY <1>1, <1>2, <1>4, <2>2, FramesKept
  <2> QED
    BY <2>1, <2>2
<1>8. FrameUnderWay' /\ CloudUnderWay'
  BY <1>1, <1>5, <1>6 DEF FrameUnderWay, CloudUnderWay
<1> QED
  BY <1>1, <1>3, <1>7, <1>8 DEF ProducerInv

LEMMA CountKeepsFrames ==
  ASSUME ProducerInv, Count
  PROVE  ProducerInv'
<1>1. /\ at = "count" /\ at # "off" /\ at' = "idle"
      /\ frame_seq' = [frame_seq EXCEPT ![named] = @ + 1]
      /\ complete' = [complete EXCEPT ![named] = written]
      /\ UNCHANGED <<named, created, written, magic, write_idx, buf, inPlace>>
  BY DEF Count
<1>2. named \in Object
  BY <1>1, NamedObject
<1>3. /\ frame_seq[named] \in Nat /\ written \in Nat
      /\ frame_seq[named] < written
      /\ Active(named)[1] = written /\ Active(named)[2] = written
      /\ written <= MaxFrames
  <2>1. frame_seq[named] < written /\ Active(named)[1] = written /\ Active(named)[2] = written
    BY <1>1 DEF ProducerInv, FrameUnderWay
  <2>2. written <= MaxFrames
    BY ProducerAssumption DEF ProducerInv, ProducerTypeOK, Frame
  <2> QED
    BY <1>2, <2>1, <2>2, ProducerValues DEF ProducerInv
<1>4. frame_seq[named] + 1 <= written /\ frame_seq[named] + 1 \in Frame /\ written \in Frame
  BY <1>3, ProducerAssumption DEF Frame
<1>5. /\ frame_seq'[named] = frame_seq[named] + 1 /\ complete'[named] = written
      /\ \A o \in Object : o # named =>
           frame_seq'[o] = frame_seq[o] /\ complete'[o] = complete[o]
  BY <1>1, <1>2 DEF ProducerInv, ProducerTypeOK
<1>6. ProducerTypeOK'
  BY <1>1, <1>2, <1>4 DEF ProducerInv, ProducerTypeOK
<1>7. \A o \in Object : Active(o)' = Active(o)
  BY <1>1 DEF Active
<1>8. ASSUME NEW o \in Object PROVE FramesSound(o)'
  <2>1. CASE o = named
    <3>1. \A h \in Halves : Active(o)'[h] = written
      BY <1>3, <1>7, <2>1 DEF Halves
    <3>2. Whole(Active(o))'
      BY <1>3, <1>7, <2>1 DEF Whole
    <3>3. \A b \in Buffer, h \in Halves : buf'[o][b][h] <= written'
      BY <1>1 DEF ProducerInv, FramesSound
    <3> QED
      BY <1>1, <1>3, <1>4, <1>5, <2>1, <3>1, <3>2, <3>3 DEF FramesSound
  <2>2. CASE o # named
    BY <1>1, <1>3, <1>5, <1>7, <2>2, FramesKept
  <2> QED
    BY <2>1, <2>2
<1> QED
  BY <1>1, <1>6, <1>8 DEF ProducerInv, FrameUnderWay, CloudUnderWay

LEMMA OnceOpenKeepsFrames ==
  ASSUME ProducerInv, OnceOpen
  PROVE  ProducerInv'
<1>1. /\ at' = "once_index" /\ written' = written + 1 /\ written \in Nat /\ written' \in Frame
      /\ UNCHANGED <<frame_seq, complete, write_idx, buf, inPlace>>
  BY ProducerAssumption, ProducerValues DEF OnceOpen, ProducerInv, ProducerTypeOK, Frame
<1>2. \A o \in Object : FramesSound(o)'
  BY <1>1, FramesSame
<1>3. named' # NoObject /\ created' \in 0 .. MaxObjects /\ named' \in 0 .. created'
  BY ProducerAssumption DEF ProducerInv, ProducerTypeOK, OnceOpen, NoObject
<1>4. magic' \in [Object -> BOOLEAN]
  BY DEF OnceOpen, ProducerInv, ProducerTypeOK
<1>5. ProducerTypeOK'
  BY <1>1, <1>3, <1>4 DEF ProducerInv, ProducerTypeOK
<1> QED
  BY <1>1, <1>2, <1>3, <1>5 DEF ProducerInv, FrameUnderWay, CloudUnderWay

(* From here on the buffer that may be read is the one that is written.    *)
LEMMA OnceIndexKeepsFrames ==
  ASSUME ProducerInv, OnceIndex
  PROVE  ProducerInv'
<1>1. /\ at = "once_index" /\ at # "off" /\ at' = "once_half"
      /\ write_idx' = [write_idx EXCEPT ![named] = 0]
      /\ complete' = [complete EXCEPT ![named] = 0]
      /\ inPlace' = [inPlace EXCEPT ![named] = TRUE]
      /\ UNCHANGED <<named, created, written, magic, frame_seq, buf>>
  BY DEF OnceIndex
<1>2. named \in Object /\ written \in Nat /\ 0 \in Frame /\ 0 \in 0 .. 1
  BY <1>1, NamedObject, ProducerValues, ProducerAssumption DEF ProducerInv, Frame
<1>3. ProducerTypeOK'
  BY <1>1, <1>2 DEF ProducerInv, ProducerTypeOK
<1>4. write_idx'[named] = 0 /\ complete'[named] = 0 /\ inPlace'[named]
  BY <1>1, <1>2 DEF ProducerInv, ProducerTypeOK
<1>5. ASSUME NEW o \in Object PROVE FramesSound(o)'
  <2>1. CASE o = named
    <3>1. \A h \in Halves : Active(o)'[h] \in Nat
      <4>1. write_idx' \in [Object -> 0 .. 1] /\ buf' \in [Object -> [0 .. 1 -> Picture]]
        BY <1>3 DEF ProducerTypeOK
      <4>2. Active(o)' \in [Halves -> Frame]
        BY <4>1 DEF Active, Picture
      <4> QED
        BY <4>2 DEF Frame
    <3>2. FramesSound(o)
      BY DEF ProducerInv
    <3> QED
      BY <1>1, <1>2, <1>4, <2>1, <3>1, <3>2 DEF FramesSound
  <2>2. CASE o # named
    <3>1. /\ frame_seq'[o] = frame_seq[o] /\ complete'[o] = complete[o]
          /\ inPlace'[o] = inPlace[o] /\ Active(o)' = Active(o) /\ buf'[o] = buf[o]
      BY <1>1, <2>2 DEF ProducerInv, ProducerTypeOK, Active
    <3> QED
      BY <1>1, <1>2, <3>1, FramesKept
  <2> QED
    BY <2>1, <2>2
<1>6. FrameUnderWay' /\ CloudUnderWay'
  BY <1>1, <1>4 DEF FrameUnderWay, CloudUnderWay, ProducerInv
<1> QED
  BY <1>1, <1>3, <1>5, <1>6 DEF ProducerInv

(* Half of a single cloud.                                                 *)
LEMMA OncePartKeepsFrames ==
  ASSUME ProducerInv, OnceHalf \/ OnceRest
  PROVE  ProducerInv'
<1>1. /\ at \in {"once_half", "once_rest"} /\ at # "off"
      /\ at' \in {"once_rest", "once_count"} /\ at' = IF OnceHalf THEN "once_rest" ELSE "once_count"
      /\ UNCHANGED <<named, created, written, magic, frame_seq, write_idx, complete, inPlace>>
  BY DEF OnceHalf, OnceRest
<1>2. /\ named \in Object /\ written \in Nat /\ written \in Frame /\ written # 0
      /\ inPlace[named] /\ write_idx[named] = 0
  BY <1>1, NamedObject, ProducerValues DEF ProducerInv, ProducerTypeOK, CloudUnderWay
<1>3. PICK h \in Halves : /\ buf' = [buf EXCEPT ![named][0][h] = written]
                          /\ h = IF at = "once_half" THEN 1 ELSE 2
  BY <1>1 DEF OnceHalf, OnceRest, Halves
<1>4. /\ buf' \in [Object -> [0 .. 1 -> Picture]]
      /\ buf'[named][0][h] = written
      /\ \A k \in Halves \ {h} : buf'[named][0][k] = buf[named][0][k]
      /\ \A o \in Object, c \in Buffer, k \in Halves : buf'[o][c][k] \in {buf[o][c][k], written}
      /\ \A o \in Object : o # named => Active(o)' = Active(o)
  <2>1. 0 \in Buffer
    BY DEF Buffer
  <2>2. HalfIs(0, h, written)
    BY <1>1, <1>2, <1>3, <2>1, HalfWritten
  <2> QED
    BY <2>2 DEF HalfIs
<1>5. ProducerTypeOK'
  BY <1>1, <1>4 DEF ProducerInv, ProducerTypeOK
<1>6. ASSUME NEW o \in Object PROVE FramesSound(o)'
  <2>1. CASE o = named
    <3>1. \A k \in Halves : Active(o)'[k] \in {Active(o)[k], written'}
      BY <1>1, <1>2, <1>4, <2>1 DEF Active, Buffer
    <3> QED
      BY <1>1, <1>2, <1>4, <2>1, <3>1, FramesKept
  <2>2. CASE o # named
    BY <1>1, <1>2, <1>4, <2>2, FramesKept
  <2> QED
    BY <2>1, <2>2
<1>7. at' = "once_rest" => buf'[named'][0][1] = written'
  <2>1. at' = "once_rest" => at = "once_half"
    BY <1>1 DEF OnceHalf, OnceRest
  <2> QED
    BY <1>1, <1>3, <1>4, <2>1
<1>8. at' = "once_count" => buf'[named'][0][1] = written' /\ buf'[named'][0][2] = written'
  <2>1. at' = "once_count" => at = "once_rest"
    BY <1>1 DEF OnceHalf, OnceRest
  <2>2. at = "once_rest" => h = 2 /\ 1 \in Halves \ {2} /\ buf[named][0][1] = written
    BY <1>3 DEF ProducerInv, CloudUnderWay, Halves
  <2> QED
    BY <1>1, <1>4, <2>1, <2>2
<1>9. FrameUnderWay' /\ CloudUnderWay'
  BY <1>1, <1>2, <1>7, <1>8 DEF FrameUnderWay, CloudUnderWay
<1> QED
  BY <1>1, <1>5, <1>6, <1>9 DEF ProducerInv

LEMMA OnceCountKeepsFrames ==
  ASSUME ProducerInv, OnceCount
  PROVE  ProducerInv'
<1>1. /\ at = "once_count" /\ at # "off" /\ at' = "once_over"
      /\ frame_seq' = [frame_seq EXCEPT ![named] = 1]
      /\ complete' = [complete EXCEPT ![named] = written]
      /\ inPlace' = [inPlace EXCEPT ![named] = FALSE]
      /\ UNCHANGED <<named, created, written, magic, write_idx, buf>>
  BY DEF OnceCount
<1>2. /\ named \in Object /\ written \in Nat /\ written \in Frame /\ written # 0 /\ 1 \in Frame
      /\ write_idx[named] = 0 /\ buf[named][0][1] = written /\ buf[named][0][2] = written
  <2>1. /\ named \in Object /\ written \in Nat /\ written \in Frame /\ written # 0
        /\ write_idx[named] = 0 /\ buf[named][0][1] = written /\ buf[named][0][2] = written
    BY <1>1, NamedObject, ProducerValues DEF ProducerInv, ProducerTypeOK, CloudUnderWay
  <2> QED
    BY <2>1, ProducerAssumption DEF Frame
<1>3. ProducerTypeOK'
  BY <1>1, <1>2 DEF ProducerInv, ProducerTypeOK
<1>4. ASSUME NEW o \in Object PROVE FramesSound(o)'
  <2>1. CASE o = named
    <3>1. frame_seq'[o] = 1 /\ complete'[o] = written
      BY <1>1, <1>2, <2>1 DEF ProducerInv, ProducerTypeOK
    <3>2. Active(o)'[1] = written /\ Active(o)'[2] = written
      BY <1>1, <1>2, <2>1 DEF Active
    <3>3. \A h \in Halves : complete'[o] <= Active(o)'[h]
      BY <1>2, <3>1, <3>2 DEF Halves
    <3>4. \A b \in Buffer, h \in Halves : buf'[o][b][h] <= written'
      BY <1>1 DEF ProducerInv, FramesSound
    <3>5. Whole(Active(o))'
      BY <3>2 DEF Whole
    <3> QED
      BY <1>1, <1>2, <3>1, <3>3, <3>4, <3>5 DEF FramesSound
  <2>2. CASE o # named
    <3>1. /\ frame_seq'[o] = frame_seq[o] /\ complete'[o] = complete[o]
          /\ inPlace'[o] = inPlace[o] /\ Active(o)' = Active(o)
          /\ \A b \in Buffer, h \in Halves : buf'[o][b][h] \in {buf[o][b][h], written'}
          /\ written' \in Nat /\ written <= written'
      BY <1>1, <1>2, <2>2 DEF ProducerInv, ProducerTypeOK, Active
    <3> QED
      BY <3>1, FramesKept
  <2> QED
    BY <2>1, <2>2
<1> QED
  BY <1>1, <1>3, <1>4 DEF ProducerInv, FrameUnderWay, CloudUnderWay

LEMMA ProducerInvStep ==
  ASSUME ProducerInv, Producer \/ OneShot
  PROVE  ProducerInv'
  BY StartKeepsFrames, StopKeepsFrames, WriteHeaderKeepsFrames, WriteHalfKeepsFrames,
     WriteRestKeepsFrames, FlipKeepsFrames, CountKeepsFrames, OnceOpenKeepsFrames,
     OnceIndexKeepsFrames, OncePartKeepsFrames, OnceCountKeepsFrames DEF Producer, OneShot

LEMMA ProducerInvSame ==
  ASSUME ProducerInv, UNCHANGED producer
  PROVE  ProducerInv'
  BY DEF ProducerInv, ProducerTypeOK, producer, FramesSound, Active, Spare, Whole,
         FrameUnderWay, CloudUnderWay

-----------------------------------------------------------------------------
(* What a step of the producer leaves to a reader.                         *)

(* A step that writes into a buffer: into which one, which half, and what. *)
LEMMA BufferSteps ==
  ASSUME ProducerInv, Producer \/ OneShot, buf' # buf
  PROVE  \E b \in Buffer, h \in Halves, f \in Frame :
           /\ buf' = [buf EXCEPT ![named][b][h] = f]
           /\ at # "off" /\ written <= f /\ UNCHANGED <<write_idx, inPlace>>
           /\ b # write_idx[named] \/ inPlace[named]
<1>1. written \in Nat /\ written \in Frame /\ 1 \in Halves /\ 2 \in Halves
  BY ProducerAssumption DEF ProducerInv, ProducerTypeOK, Frame, Halves
<1>2. CASE WriteHalf
  <2>1. /\ at # "off" /\ written + 1 \in Frame /\ UNCHANGED <<write_idx, inPlace>>
        /\ buf' = [buf EXCEPT ![named][1 - write_idx[named]][1] = written + 1]
    BY <1>1, <1>2, ProducerAssumption DEF WriteHalf, Frame
  <2>2. 1 - write_idx[named] \in Buffer /\ 1 - write_idx[named] # write_idx[named]
    BY <2>1, NamedObject
  <2>3. written <= written + 1
    BY <1>1
  <2> QED
    BY <1>1, <2>1, <2>2, <2>3
<1>3. CASE WriteRest
  <2>1. /\ at # "off" /\ UNCHANGED <<write_idx, inPlace>>
        /\ buf' = [buf EXCEPT ![named][1 - write_idx[named]][2] = written]
    BY <1>3 DEF WriteRest
  <2>2. 1 - write_idx[named] \in Buffer /\ 1 - write_idx[named] # write_idx[named]
    BY <2>1, NamedObject
  <2>3. written <= written
    BY <1>1
  <2> QED
    BY <1>1, <2>1, <2>2, <2>3
<1>4. CASE OnceHalf \/ OnceRest
  <2>1. /\ at # "off" /\ UNCHANGED <<write_idx, inPlace>> /\ inPlace[named] /\ 0 \in Buffer
        /\ \/ buf' = [buf EXCEPT ![named][0][1] = written]
           \/ buf' = [buf EXCEPT ![named][0][2] = written]
    BY <1>4 DEF OnceHalf, OnceRest, ProducerInv, CloudUnderWay, Buffer
  <2>2. written <= written
    BY <1>1
  <2> QED
    BY <1>1, <2>1, <2>2
<1> QED
  BY <1>2, <1>3, <1>4
  DEF Producer, OneShot, StartNew, StartInPlace, WriteHeader, Flip, Count, Stop,
      OnceOpen, OnceIndex, OnceCount

(* What is in a buffer is only ever replaced by something newer.           *)
LEMMA BuffersGrow ==
  ASSUME ProducerInv, Producer \/ OneShot,
         NEW o \in Object, NEW b \in Buffer, NEW h \in Halves
  PROVE  buf[o][b][h] <= buf'[o][b][h]
<1>1. /\ buf[o][b][h] \in Nat /\ written \in Nat
      /\ buf[o][b][h] <= written
  BY ProducerValues DEF ProducerInv, FramesSound
<1>2. CASE buf' = buf
  BY <1>1, <1>2
<1>3. CASE buf' # buf
  <2>1. PICK c \in Buffer, k \in Halves, f \in Frame :
          /\ buf' = [buf EXCEPT ![named][c][k] = f]
          /\ at # "off" /\ written <= f /\ UNCHANGED write_idx
    BY <1>3, BufferSteps
  <2>2. buf'[o][b][h] \in {buf[o][b][h], f} /\ f \in Nat
    BY <2>1, HalfWritten DEF HalfIs, Frame
  <2> QED
    BY <1>1, <2>1, <2>2
<1> QED
  BY <1>2, <1>3

(* Unless the producer starts over the counts do not go back; one that     *)
(* writes a single cloud may lower the number, but not to none.            *)
LEMMA CountsGrow ==
  ASSUME ProducerInv, Producer \/ OneShot, NEW o \in Object, ~Restarted(o)
  PROVE  /\ frame_seq[o] # 0 => frame_seq'[o] # 0
         /\ complete[o] <= complete'[o]
<1>1. /\ frame_seq[o] \in Nat /\ complete[o] \in Nat
      /\ complete[o] <= written
  BY ProducerValues DEF ProducerInv, FramesSound
<1>2. CASE UNCHANGED <<frame_seq, complete>>
  BY <1>1, <1>2
<1>3. CASE WriteHeader \/ OnceIndex
  BY <1>1, <1>3 DEF WriteHeader, OnceIndex, Restarted, ProducerInv, ProducerTypeOK
<1>4. CASE Count \/ OnceCount
  BY <1>1, <1>4 DEF Count, OnceCount, ProducerInv, ProducerTypeOK
<1> QED
  BY <1>2, <1>3, <1>4
  DEF Producer, OneShot, StartNew, StartInPlace, WriteHalf, WriteRest, Flip, Stop,
      OnceOpen, OnceHalf, OnceRest

(* As long as the buffers do not change places, and no single cloud is     *)
(* begun, the active one is not touched.                                   *)
LEMMA ActiveUntouched ==
  ASSUME ProducerInv, Producer \/ OneShot, NEW o \in Object,
         write_idx'[o] = write_idx[o], ~inPlace'[o]
  PROVE  Active(o)' = Active(o)
<1>1. CASE buf' = buf
  BY <1>1 DEF Active
<1>2. CASE buf' # buf
  <2>1. PICK c \in Buffer, k \in Halves, f \in Frame :
          /\ buf' = [buf EXCEPT ![named][c][k] = f]
          /\ at # "off" /\ UNCHANGED <<write_idx, inPlace>>
          /\ c # write_idx[named] \/ inPlace[named]
    BY <1>2, BufferSteps
  <2>2. o # named \/ c # write_idx[named]
    BY <2>1
  <2> QED
    BY <2>1, <2>2, HalfWritten DEF HalfIs
<1> QED
  BY <1>1, <1>2

=============================================================================
