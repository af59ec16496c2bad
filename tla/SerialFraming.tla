--------------------------- MODULE SerialFraming ---------------------------
(***************************************************************************)
(* The referee's byte stream (src/serial/serial_parser.rs): the reader     *)
(* thread appends what each read brings to a buffer and has the parser     *)
(* take the complete frames out of it, one turn of its loop at a time.  A  *)
(* frame is                                                                *)
(*                                                                         *)
(*     SOF  length  CRC8  |  command  |  data  |  CRC16                    *)
(*                                                                         *)
(* Each field other than the data is one byte here, the sequence number,   *)
(* which the parser does not look at, is left out, and the two check sums  *)
(* are sums that tell any change of one byte, as the CRCs do.              *)
(***************************************************************************)
EXTENDS Integers, SequencesExt

CONSTANTS
  MaxByte,   \* a byte is one of 0 .. MaxByte, the last of them the SOF
  Frames,    \* commands and data that the referee sends
  Size,      \* the data that each known command needs
  NoiseMax,  \* bound on the arbitrary bytes in front of the first frame
  FramesMax, \* bound on the frames behind it
  LineMax    \* bound on the bytes waiting on the line when a frame is sent

Byte == 0 .. MaxByte
SOF == MaxByte

ASSUME FramingAssumption ==
  /\ MaxByte \in Nat \ {0}
  /\ \A f \in Frames : f.cmd \in Byte /\ f.data \in Seq(Byte) /\ Len(f.data) <= MaxByte
  /\ \A c \in DOMAIN Size : c \in Byte /\ Size[c] \in Nat
  /\ NoiseMax \in Nat /\ FramesMax \in Nat /\ LineMax \in Nat

VARIABLES
  noise,     \* what came in front of the first frame
  frames,    \* the frames sent, and where in the stream each begins
  sent,      \* history: every byte sent
  line,      \* sent and not yet read
  buffer,    \* the reader's data: Vec<u8>
  parsing,   \* the parser has been called and not yet returned
  index,     \* its place in the buffer, from 1
  delivered  \* what it has stored in SharedData, in order, and (history) where
             \* in the stream that began

framingVars == <<noise, frames, sent, line, buffer, parsing, index, delivered>>

\* What has been read of the stream, and where in it the parser is.
Received == SubSeq(sent, 1, Len(sent) - Len(line))
Position == Len(Received) - Len(buffer) + index

-----------------------------------------------------------------------------
(* Frames.                                                                 *)

HeaderLength == 3
CmdIdLength == 1
Crc16Length == 1

Sum(bytes) ==
  LET sum[n \in 0 .. Len(bytes)] == IF n = 0 THEN 0 ELSE sum[n - 1] + bytes[n]
  IN sum[Len(bytes)]

Crc8(bytes) == (Sum(bytes) + 1) % (MaxByte + 1)
Crc16(bytes) == (Sum(bytes) + 2) % (MaxByte + 1)

\* The last byte is the sum of the ones before it.
VerifyCrc8(bytes) == Last(bytes) = Crc8(Front(bytes))
VerifyCrc16(bytes) == Last(bytes) = Crc16(Front(bytes))

PackageLength(dataLength) == HeaderLength + CmdIdLength + dataLength + Crc16Length

\* serial_package: the check sum of the header, then the one of the whole.
Package(frame) ==
  LET start == <<SOF, Len(frame.data)>>
      body == Append(start, Crc8(start)) \o <<frame.cmd>> \o frame.data
  IN Append(body, Crc16(body))

-----------------------------------------------------------------------------
(* The parser.                                                             *)

HeaderAt(bytes, i) == SubSeq(bytes, i, i + HeaderLength - 1)

IsHeaderAt(bytes, i) ==
  /\ bytes[i] = SOF
  /\ i + HeaderLength - 1 <= Len(bytes)
  /\ VerifyCrc8(HeaderAt(bytes, i))

PackageAt(bytes, i) == SubSeq(bytes, i, i + PackageLength(bytes[i + 1]) - 1)

\* The scan stops at the end, or at a header or frame that is not all there.
Incomplete(bytes, i) ==
  i <= Len(bytes) =>
    \/ bytes[i] = SOF /\ i + HeaderLength - 1 > Len(bytes)
    \/ IsHeaderAt(bytes, i) /\ i + PackageLength(bytes[i + 1]) - 1 > Len(bytes)

\* Mutant: without a header nothing of what was read is kept.
Skipped_All(bytes, i) ==
  IF IsHeaderAt(bytes, i) THEN PackageLength(bytes[i + 1]) ELSE Len(bytes) + 1 - i

\* Bytes that one turn of the loop consumes: the frame that a header claims,
\* whether its CRC16 holds or not, and one byte where there is no header.
Skipped(bytes, i) ==
  IF IsHeaderAt(bytes, i) THEN PackageLength(bytes[i + 1]) ELSE 1

\* A frame is stored when its CRC16 holds, its command is known and its data
\* decode; in the stream it begins at p.
Stored(bytes, i, p) ==
  LET package == PackageAt(bytes, i)
      cmd == package[HeaderLength + 1]
      data == SubSeq(package, HeaderLength + CmdIdLength + 1, Len(package) - Crc16Length)
  IN IF /\ IsHeaderAt(bytes, i)
        /\ VerifyCrc16(package)
        /\ cmd \in DOMAIN Size
        /\ Len(data) >= Size[cmd]
     THEN <<[at |-> p, cmd |-> cmd, data |-> data]>>
     ELSE <<>>

\* Mutant: the bytes of an unfinished frame are thrown away.
Rest_None(bytes, i) == <<>>

\* What is left in the buffer when the scan stops at i.
Rest(bytes, i) == SubSeq(bytes, i, Len(bytes))

-----------------------------------------------------------------------------
(* The referee, the line and the reader.                                   *)

\* A frame cut off at its front or its end, or with one byte changed.
Damaged(package) ==
  {SubSeq(package, k, Len(package)) : k \in 2 .. Len(package)}
    \cup {SubSeq(package, 1, k) : k \in 1 .. Len(package) - 1}
    \cup {[package EXCEPT ![k] = b] : k \in DOMAIN package, b \in Byte}

\* Such a frame, or a few arbitrary bytes.
Noises == BoundedSeq(Byte, NoiseMax) \cup UNION {Damaged(Package(f)) : f \in Frames}

FramingInit ==
  /\ noise \in Noises
  /\ frames = <<>>
  /\ sent = noise
  /\ line = noise
  /\ buffer = <<>>
  /\ parsing = FALSE
  /\ index = 1
  /\ delivered = <<>>

Send ==
  /\ Len(frames) < FramesMax /\ Len(line) <= LineMax
  /\ \E f \in Frames :
       /\ frames' = Append(frames, [at |-> Len(sent) + 1, cmd |-> f.cmd, data |-> f.data])
       /\ sent' = sent \o Package(f)
       /\ line' = line \o Package(f)
  /\ UNCHANGED <<noise, buffer, parsing, index, delivered>>

\* receive_data returns what there is, cut anywhere, and the parser is called.
Receive ==
  /\ ~parsing
  /\ \E n \in 1 .. Len(line) :
       /\ line' = SubSeq(line, n + 1, Len(line))
       /\ buffer' = buffer \o SubSeq(line, 1, n)
  /\ parsing' = TRUE
  /\ UNCHANGED <<noise, frames, sent, index, delivered>>

\* One turn of the parser's loop.
Turn ==
  /\ parsing
  /\ ~Incomplete(buffer, index)
  /\ delivered' = delivered \o Stored(buffer, index, Position)
  /\ index' = index + Skipped(buffer, index)
  /\ UNCHANGED <<noise, frames, sent, line, buffer, parsing>>

\* The loop ends, and the buffer is drained up to the index.
Return ==
  /\ parsing
  /\ Incomplete(buffer, index)
  /\ buffer' = Rest(buffer, index)
  /\ parsing' = FALSE
  /\ index' = 1
  /\ UNCHANGED <<noise, frames, sent, line, delivered>>

FramingNext == Send \/ Receive \/ Turn \/ Return

FramingSpec == FramingInit /\ [][FramingNext]_framingVars

-----------------------------------------------------------------------------
(* Properties.                                                             *)

MaxPackage == PackageLength(MaxByte)

\* One pass over all of a stream: what is stored from each place in it on, and
\* what is left over.
Scan(bytes) ==
  LET scan[i \in 1 .. Len(bytes) + 1] ==
        IF Incomplete(bytes, i)
        THEN [stored |-> <<>>, rest |-> Rest(bytes, i)]
        ELSE LET further == scan[i + Skipped(bytes, i)]
             IN [stored |-> Stored(bytes, i, i) \o further.stored, rest |-> further.rest]
  IN scan

OnePass(bytes) == Scan(bytes)[1]

\* However the reads cut the stream, after each read the parser has stored what
\* one pass over all of it would store, and it holds what that would leave over,
\* less than one frame of the longest length.
CutIndependent ==
  ~parsing =>
    /\ [stored |-> delivered, rest |-> buffer] = OnePass(Received)
    /\ Len(buffer) < MaxPackage

\* Far enough behind the noise not to be within a frame that this seems to begin.
OutOfReach(p) == noise = <<>> \/ p >= Len(noise) + MaxPackage

HasArrived(f) == f.at + PackageLength(Len(f.data)) - 1 <= Len(Received)

Decodes(f) == f.cmd \in DOMAIN Size /\ Len(f.data) >= Size[f.cmd]

\* A corrupted length or check sum makes the parser skip or wait for bytes of the
\* frames behind it, but never for more than the longest frame: of the frames that
\* begin after that, and of all frames of a stream without noise, exactly those
\* that decode are stored, each once, in order and as soon as it has been read.
Resynchronises ==
  ~parsing =>
    /\ {d \in Range(delivered) : OutOfReach(d.at)}
         = {f \in Range(frames) : OutOfReach(f.at) /\ HasArrived(f) /\ Decodes(f)}
    /\ \A i, j \in DOMAIN delivered : i < j => delivered[i].at < delivered[j].at

\* No frame, whatever follows it, holds bytes that are a header with its check
\* sum.  (Resynchronises is about such frames: see README.)
HeadersOnlyInFront ==
  \A f, g \in Frames : \A i \in 2 .. Len(Package(f)) :
    ~IsHeaderAt(Package(f) \o Package(g), i)
=============================================================================
