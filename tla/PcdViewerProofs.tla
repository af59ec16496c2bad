-------------------------- MODULE PcdViewerProofs --------------------------
(***************************************************************************)
(* Proofs about the viewer of offline point clouds, for every set of       *)
(* paths, whatever their files hold and however often they are rewritten,  *)
(* also with other fields between the two openings of a load: loads stay   *)
(* apart, the status is true, it goes through the phases of PcdLoadJob,    *)
(* and every point has the colour of its record as the header reads it.    *)
(*                                                                         *)
(* All but the colours rests on one relation, Stage, between the place of  *)
(* the current worker, the events that are on their way and the phase on   *)
(* the screen.  The two events and the two places of the UI thread between *)
(* them give seven combinations, and no others.                            *)
(***************************************************************************)
EXTENDS PcdViewer, TLAPS

-----------------------------------------------------------------------------
(* Types.  A colour is a number of the file or a shade of one.             *)

FileType == UNION {Files(p) : p \in Paths}

Colour == Int \cup {Shade(v, values) : v \in Int, values \in Seq(Int)}

Cloud == [positions : Seq(Nat), colours : Seq(Colour), fallback : Seq(Int),
          skipped : Nat, read : Nat]

WorkerType == [at : Places, path : Paths, header : FileType \cup {None},
               found : {file.fields : file \in FileType} \cup {None}, records : Seq(Record),
               cloud : Cloud, launched : BOOLEAN]

EventType == [kind : {"Launching", "Ready", "Failed"}, generation : Generation,
              path : Paths, result : Result \cup {None}]

StatusType == [phase : {"Idle", "Loading", "Launching", "Ready", "Failed"},
               path : Paths \cup {NoPath}, points : Nat, total : Nat,
               result : Result \cup {None}]

DataOK ==
  /\ status \in StatusType
  /\ worker \in Seq(WorkerType)
  /\ events \in Seq(EventType)
  /\ ui \in [at : {"idle", "take", "drain1", "drain2", "decide"}, path : Paths \cup {NoPath}]
  /\ DOMAIN content = Paths

-----------------------------------------------------------------------------
(* The inductive invariant.                                                *)

\* Before the first event, and between it and the last one.
Before == {"starting", "reopening", "reporting", "storing", "reading", "refused", "loaded"}
Between == {"launching", "launched", "failed"}

\* Only the thread of the last start is running.
OneThread ==
  /\ Len(worker) = generation
  /\ \A g \in DOMAIN worker : g # generation => worker[g].at = "done"
  /\ ui.at # "idle" /\ ui.path # NoPath => generation < MaxStarts
  /\ ui.at = "decide" => ui.path # NoPath

\* A worker has kept or skipped what it has read.
WorkerSound(w) ==
  /\ Len(w.cloud.positions) + w.cloud.skipped = w.cloud.read
  /\ w.cloud.read <= Len(w.records)
  /\ w.at \in {"starting", "reopening"} => w.cloud.read = 0
  /\ w.at \in Between \cup {"loaded"} => w.cloud.read = Len(w.records)
  /\ w.at \notin {"starting", "refused", "done"} => w.header \in FileType
  /\ w.at = "launched" => w.launched

\* A result, if there is one, is that of this worker.
ResultSound(result, w) ==
  result # None =>
    /\ result = ResultOf(w)
    /\ result.valid + result.skipped = Len(w.records)

EventSound(event, w) ==
  /\ event.generation = generation
  /\ event.path = w.path
  /\ event.kind = "Ready" => w.launched
  /\ ResultSound(event.result, w)

\* Where the current worker is, what it has sent and what the screen shows.
Stage(at, sent, phase) ==
  \/ at \in Before /\ Len(sent) = 0 /\ phase = "Loading"
  \/ at \in Between /\ Len(sent) = 1 /\ sent[1].kind = "Launching" /\ phase = "Loading"
  \/ at \in Between /\ Len(sent) = 0 /\ phase = "Launching"
  \/ at = "done" /\ Len(sent) = 1 /\ sent[1].kind = "Failed" /\ phase = "Loading"
  \/ /\ at = "done" /\ Len(sent) = 2 /\ phase = "Loading"
     /\ sent[1].kind = "Launching" /\ sent[2].kind \in {"Ready", "Failed"}
  \/ at = "done" /\ Len(sent) = 1 /\ sent[1].kind \in {"Ready", "Failed"} /\ phase = "Launching"
  \/ at = "done" /\ Len(sent) = 0 /\ phase \in {"Ready", "Failed"}

\* The progress on the screen is behind that in the slot, and this behind the worker.
ProgressBehind(w) ==
  /\ status.phase = "Loading" => status.points <= w.cloud.read
  /\ latest_progress # None /\ latest_progress.generation = generation =>
       /\ latest_progress.path = w.path
       /\ latest_progress.points <= w.cloud.read
       /\ status.phase = "Loading" => status.points <= latest_progress.points

CurrentSound(w) ==
  /\ Stage(w.at, events, status.phase)
  /\ \A i \in DOMAIN events : EventSound(events[i], w)
  /\ status.path = w.path
  /\ status.phase = "Ready" => w.launched
  /\ ResultSound(status.result, w)
  /\ ProgressBehind(w)

LoadInv ==
  /\ TypeOK /\ DataOK /\ OneThread
  /\ latest_progress # None => latest_progress.generation <= generation
  /\ \A g \in DOMAIN worker : WorkerSound(worker[g])
  /\ status.phase # "Loading" => status.points = 0
  /\ status.phase \in {"Idle", "Loading"} => status.result = None
  /\ generation = 0 => status = Idle /\ events = <<>> /\ latest_progress = None
  /\ generation > 0 => CurrentSound(worker[generation])

-----------------------------------------------------------------------------
(* Operators of the model.                                                 *)

(* What a file holds, by the assumption on the constant.                   *)
LEMMA FileParts ==
  ASSUME NEW file \in FileType
  PROVE  file.declared \in Nat /\ file.records \in Seq(Record)
  BY FilesAssumption DEF FileType

(* However the indices of a header read a record, it is a record.          *)
LEMMA ReadingsRecords ==
  ASSUME NEW record \in Record, NEW fields, NEW found,
         NEW reading \in Readings(record, fields, found)
  PROVE  reading \in Record
<1>1. record.outcome \in {"ok", "error", "panic"} /\ record.finite \in BOOLEAN
  BY DEF Record
<1>2. CASE Agree({"x", "y", "z"}, fields, found)
  <2>1. reading \in [outcome : {record.outcome}, finite : {record.finite}, value : OtherValues]
    BY <1>2 DEF Readings
  <2> QED
    BY <1>1, <2>1, ValuesAssumption DEF Record
<1>3. CASE ~Agree({"x", "y", "z"}, fields, found)
  <2>1. reading \in [outcome : {record.outcome}, finite : BOOLEAN, value : OtherValues]
    BY <1>3 DEF Readings
  <2> QED
    BY <1>1, <2>1, ValuesAssumption DEF Record
<1> QED
  BY <1>2, <1>3

(* So are all records of a file.                                           *)
LEMMA ReadWithRecords ==
  ASSUME NEW file \in FileType, NEW fields, NEW records \in ReadWith(fields, file)
  PROVE  records \in Seq(Record)
<1> DEFINE readings(i) == Readings(file.records[i], fields, file.fields)
<1>1. file.records \in Seq(Record)
  BY FileParts
<1>2. CASE records = file.records
  BY <1>1, <1>2
<1>3. CASE records \in {s \in [DOMAIN file.records -> UNION {readings(i) : i \in DOMAIN file.records}] :
                         \A i \in DOMAIN s : s[i] \in readings(i)}
  <2>1. /\ records \in [DOMAIN file.records -> UNION {readings(i) : i \in DOMAIN file.records}]
        /\ \A i \in DOMAIN records : records[i] \in readings(i)
    BY <1>3, Zenon
  <2> HIDE DEF readings
  <2>2. records = [i \in DOMAIN file.records |-> records[i]] /\ DOMAIN records = DOMAIN file.records
    BY <2>1
  <2> USE DEF readings
  <2>3. \A i \in DOMAIN records : records[i] \in Record
    BY <1>1, <2>1, <2>2, ReadingsRecords
  <2>4. DOMAIN file.records = 1 .. Len(file.records) /\ Len(file.records) \in Nat
    BY <1>1
  <2>5. PICK n \in Nat : n = Len(file.records)
    BY <2>4
  <2>6. records = [i \in 1 .. n |-> records[i]] /\ DOMAIN records = 1 .. n
    BY <2>2, <2>4, <2>5
  <2> HIDE DEF readings
  <2>7. ASSUME NEW s, s = [i \in 1 .. n |-> s[i]], \A i \in 1 .. n : s[i] \in Record
        PROVE  s \in Seq(Record)
    <3>1. s \in [1 .. n -> Record]
      BY <2>7
    <3> QED
      BY <3>1
  <2>8. \A i \in 1 .. n : records[i] \in Record
    BY <2>3, <2>6
  <2> QED
    BY <2>6, <2>7, <2>8
<1> QED
  BY <1>2, <1>3, Zenon DEF ReadWith

(* A record is kept or skipped, and counted.                               *)
LEMMA AddRecordCounts ==
  ASSUME NEW cloud \in Cloud, NEW record \in Record, NEW fields
  PROVE  LET next == AddRecord(cloud, record, fields)
         IN /\ next \in Cloud
            /\ next.read = cloud.read + 1
            /\ Len(next.positions) + next.skipped = Len(cloud.positions) + cloud.skipped + 1
<1> DEFINE kept == [cloud EXCEPT !.read = @ + 1, !.positions = Append(@, cloud.read + 1)]
<1>1. record.value \in Int /\ record.value \in Colour
  BY DEF Record, Colour
<1>2. cloud.read + 1 \in Nat /\ cloud.skipped + 1 \in Nat
  BY DEF Cloud
<1>3. /\ Append(cloud.positions, cloud.read + 1) \in Seq(Nat)
      /\ Len(Append(cloud.positions, cloud.read + 1)) = Len(cloud.positions) + 1
  BY <1>2 DEF Cloud
<1>4. Append(cloud.colours, record.value) \in Seq(Colour)
  BY <1>1 DEF Cloud
<1>5. Append(cloud.fallback, record.value) \in Seq(Int)
  BY <1>1 DEF Cloud
<1>6. Len(cloud.positions) \in Nat /\ cloud.read \in Nat /\ cloud.skipped \in Nat
  BY DEF Cloud
<1>7. CASE ~record.finite
  <2> DEFINE next == [cloud EXCEPT !.read = @ + 1, !.skipped = @ + 1]
  <2>1. /\ next \in Cloud
        /\ next.read = cloud.read + 1 /\ next.skipped = cloud.skipped + 1
        /\ next.positions = cloud.positions
    BY <1>2 DEF Cloud
  <2>2. AddRecord(cloud, record, fields) = next
    BY <1>7 DEF AddRecord
  <2> HIDE DEF next
  <2> QED
    BY <1>6, <2>1, <2>2
<1>8. CASE record.finite
  <2>1. /\ kept \in Cloud
        /\ kept.read = cloud.read + 1 /\ kept.skipped = cloud.skipped
        /\ Len(kept.positions) = Len(cloud.positions) + 1
        /\ kept.colours = cloud.colours /\ kept.fallback = cloud.fallback
    BY <1>2, <1>3 DEF Cloud
  <2> HIDE DEF kept
  <2> DEFINE valued == [kept EXCEPT !.fallback = Append(@, record.value)]
             painted == [kept EXCEPT !.colours = Append(@, record.value)]
  <2>2. /\ valued \in Cloud
        /\ valued.read = kept.read /\ valued.skipped = kept.skipped
        /\ valued.positions = kept.positions
    BY <1>5, <2>1 DEF Cloud
  <2>3. /\ painted \in Cloud
        /\ painted.read = kept.read /\ painted.skipped = kept.skipped
        /\ painted.positions = kept.positions
    BY <1>4, <2>1 DEF Cloud
  <2>4. AddRecord(cloud, record, fields) = IF FromRange(fields) THEN valued ELSE painted
    BY <1>8 DEF AddRecord, kept
  <2> HIDE DEF valued, painted
  <2>5. ASSUME NEW next \in {valued, painted}
        PROVE  /\ next \in Cloud /\ next.read = cloud.read + 1
               /\ Len(next.positions) + next.skipped = Len(cloud.positions) + cloud.skipped + 1
    <3>1. /\ next \in Cloud /\ next.read = kept.read
          /\ next.skipped = kept.skipped /\ next.positions = kept.positions
      BY <2>2, <2>3
    <3>2. Len(next.positions) = Len(cloud.positions) + 1 /\ next.skipped = cloud.skipped
      BY <2>1, <3>1
    <3> QED
      BY <1>6, <2>1, <3>1, <3>2
  <2> QED
    BY <2>4, <2>5
<1> QED
  BY <1>7, <1>8

(* Colouring leaves the points and the counts alone.                       *)
LEMMA ColouredKeeps ==
  ASSUME NEW cloud \in Cloud, NEW fields
  PROVE  LET next == Coloured(cloud, fields)
         IN /\ next \in Cloud
            /\ next.read = cloud.read
            /\ next.positions = cloud.positions /\ next.skipped = cloud.skipped
<1> DEFINE shades == [i \in DOMAIN cloud.fallback |->
                        Shade(cloud.fallback[i], cloud.fallback)]
<1>1. shades \in Seq(Colour)
  <2>1. cloud.fallback \in Seq(Int)
    BY DEF Cloud
  <2>2. \A i \in DOMAIN cloud.fallback : Shade(cloud.fallback[i], cloud.fallback) \in Colour
    BY <2>1 DEF Colour
  <2>3. Len(cloud.fallback) \in Nat /\ DOMAIN cloud.fallback = 1 .. Len(cloud.fallback)
    BY <2>1
  <2> QED
    BY <2>2, <2>3
<1> HIDE DEF shades
<1> QED
  BY <1>1 DEF Coloured, Cloud, shades

-----------------------------------------------------------------------------
(* Steps of a worker.                                                      *)

(* A worker that is not done is that of the last start.                    *)
LEMMA CurrentWorker ==
  ASSUME LoadInv, NEW g \in DOMAIN worker, worker[g].at # "done"
  PROVE  /\ g = generation /\ generation > 0
         /\ worker[g] \in WorkerType
         /\ WorkerSound(worker[g]) /\ CurrentSound(worker[g])
<1>1. g = generation
  BY DEF LoadInv, OneThread
<1>2. worker[g] \in WorkerType /\ g \in Nat /\ g > 0
  BY DEF LoadInv, DataOK
<1> QED
  BY <1>1, <1>2 DEF LoadInv

(* The types of the state follow from those of its parts.                  *)
LEMMA TypesFollow ==
  ASSUME DataOK', generation' \in 0 .. MaxStarts, rewrites' \in 0 .. MaxRewrites,
         busy' = (status'.phase \in {"Loading", "Launching"}),
         accepts_progress' = (status'.phase = "Loading"),
         \/ latest_progress' = None
         \/ latest_progress' \in [generation : Generation, path : Paths,
                                   points : Nat, total : Nat],
         \A p \in Paths : content'[p] \in Files(p)
  PROVE  TypeOK'
<1>1. status' \in StatusType
  BY DEF DataOK
<1>2. /\ status'.phase \in {"Idle", "Loading", "Launching", "Ready", "Failed"}
      /\ status'.path \in Paths \cup {NoPath}
      /\ status'.points \in Nat /\ status'.total \in Nat
      /\ status'.result \in Result \cup {None}
  BY <1>1 DEF StatusType
<1>3. \A i \in DOMAIN events' : events'[i].generation \in Generation
  <2>1. \A i \in DOMAIN events' : events'[i] \in EventType
    BY DEF DataOK
  <2> QED
    BY <2>1 DEF EventType
<1>4. /\ ui'.at \in {"idle", "take", "drain1", "drain2", "decide"}
      /\ ui'.path \in Paths \cup {NoPath}
  BY DEF DataOK
<1>5. /\ DOMAIN worker' = 1 .. Len(worker')
      /\ \A g \in DOMAIN worker' : worker'[g].at \in Places /\ worker'[g].path \in Paths
  <2>1. /\ DOMAIN worker' = 1 .. Len(worker')
        /\ \A g \in DOMAIN worker' : worker'[g] \in WorkerType
    BY DEF DataOK
  <2> QED
    BY <2>1 DEF WorkerType
<1> QED
  BY <1>2, <1>3, <1>4, <1>5 DEF TypeOK

(* What a step of a worker has to show: the rest of the invariant is about *)
(* other things.                                                           *)
LEMMA WorkerMoves ==
  ASSUME LoadInv, NEW g \in DOMAIN worker, worker[g].at # "done",
         NEW w \in WorkerType, worker' = [worker EXCEPT ![g] = w],
         w.path = worker[g].path, WorkerSound(w),
         worker[g].cloud.read <= w.cloud.read,
         UNCHANGED <<runtime, ui, content, rewrites>>,
         events' \in Seq(EventType),
         Stage(w.at, events', status.phase),
         \A i \in DOMAIN events' : EventSound(events'[i], w),
         ResultSound(status.result, w),
         \/ UNCHANGED latest_progress
         \/ \E total \in Nat :
              latest_progress' = [generation |-> g, path |-> w.path,
                                  points |-> w.cloud.read, total |-> total]
  PROVE  LoadInv'
<1>1. /\ g = generation /\ generation > 0
      /\ worker[g] \in WorkerType /\ CurrentSound(worker[g])
  BY CurrentWorker
<1>2. worker' \in Seq(WorkerType) /\ Len(worker') = Len(worker) /\ DOMAIN worker' = DOMAIN worker
  BY DEF LoadInv, DataOK
<1>3. worker'[g] = w /\ \A h \in DOMAIN worker : h # g => worker'[h] = worker[h]
  BY DEF LoadInv, DataOK
<1>4. DataOK'
  BY <1>2 DEF LoadInv, DataOK, runtime
<1>5. \/ latest_progress' = None
      \/ latest_progress' \in [generation : Generation, path : Paths, points : Nat, total : Nat]
  <2>1. CASE UNCHANGED latest_progress
    BY <2>1 DEF LoadInv, TypeOK
  <2>2. ASSUME NEW total \in Nat,
               latest_progress' = [generation |-> g, path |-> w.path,
                                   points |-> w.cloud.read, total |-> total]
        PROVE  latest_progress' \in [generation : Generation, path : Paths,
                                     points : Nat, total : Nat]
    <3>1. g \in Generation
      BY <1>1 DEF LoadInv, TypeOK, Generation
    <3>2. w.path \in Paths /\ w.cloud.read \in Nat
      BY DEF WorkerType, Cloud
    <3> QED
      BY <2>2, <3>1, <3>2
  <2> QED
    BY <2>1, <2>2
<1>6. TypeOK'
  BY <1>4, <1>5, TypesFollow DEF LoadInv, TypeOK, runtime
<1>7. OneThread'
  BY <1>1, <1>2, <1>3 DEF LoadInv, OneThread, runtime
<1>8. latest_progress' # None => latest_progress'.generation <= generation
  BY <1>1 DEF LoadInv, TypeOK
<1>9. \A h \in DOMAIN worker' : WorkerSound(worker'[h])
  BY <1>2, <1>3 DEF LoadInv
<1>10. CurrentSound(w)'
  <2>1. Stage(w.at, events, status.phase)'
    BY DEF Stage, runtime
  <2>2. (\A i \in DOMAIN events : EventSound(events[i], w))'
    BY DEF EventSound, runtime
  <2>3. status'.path = w.path
    BY <1>1 DEF CurrentSound, runtime
  <2>4. status'.phase = "Ready" => w.launched
    BY <1>1 DEF CurrentSound, Stage, runtime
  <2>5. ResultSound(status.result, w)'
    BY DEF runtime
  <2>6. ProgressBehind(w)'
    <3>1. /\ worker[g].cloud.read \in Nat /\ w.cloud.read \in Nat
          /\ status.points \in Nat
      BY <1>1 DEF WorkerType, Cloud, LoadInv, TypeOK
    <3>2. CASE UNCHANGED latest_progress
      <4>1. latest_progress # None => latest_progress.points \in Nat
        BY DEF LoadInv, TypeOK
      <4> QED
        BY <1>1, <3>1, <3>2, <4>1 DEF CurrentSound, ProgressBehind, runtime
    <3>3. ASSUME NEW total \in Nat,
                 latest_progress' = [generation |-> g, path |-> w.path,
                                     points |-> w.cloud.read, total |-> total]
          PROVE  ProgressBehind(w)'
      BY <1>1, <3>1, <3>3 DEF CurrentSound, ProgressBehind, runtime
    <3> QED
      BY <3>2, <3>3
  <2> QED
    BY <2>1, <2>2, <2>3, <2>4, <2>5, <2>6 DEF CurrentSound
<1> QED
  BY <1>1, <1>3, <1>4, <1>6, <1>7, <1>8, <1>9, <1>10 DEF LoadInv, runtime

(* Until a worker has loaded its file nothing has been sent.               *)
LEMMA LoadingMoves ==
  ASSUME LoadInv, NEW g \in DOMAIN worker, worker[g].at \in Before,
         NEW w \in WorkerType, worker' = [worker EXCEPT ![g] = w], w.at \in Before,
         w.path = worker[g].path, WorkerSound(w),
         worker[g].cloud.read <= w.cloud.read,
         UNCHANGED <<runtime, events, ui, content, rewrites>>,
         \/ UNCHANGED latest_progress
         \/ \E total \in Nat :
              latest_progress' = [generation |-> g, path |-> w.path,
                                  points |-> w.cloud.read, total |-> total]
  PROVE  LoadInv'
<1>1. worker[g].at # "done"
  BY DEF Before
<1>2. Len(events) = 0 /\ status.phase = "Loading"
  BY <1>1, CurrentWorker DEF CurrentSound, Stage, Before, Between
<1>3. events' \in Seq(EventType) /\ Len(events') = 0
  BY <1>2 DEF LoadInv, DataOK
<1>4. Stage(w.at, events', status.phase)
  BY <1>2, <1>3 DEF Stage
<1>5. \A i \in DOMAIN events' : EventSound(events'[i], w)
  BY <1>3
<1>6. ResultSound(status.result, w)
  BY <1>2 DEF ResultSound, LoadInv
<1> QED
  BY <1>1, <1>3, <1>4, <1>5, <1>6, WorkerMoves

(* Goto, as the function that LoadingMoves and WorkerMoves speak of.       *)
LEMMA GotoPlace ==
  ASSUME LoadInv, NEW g \in DOMAIN worker, worker[g].at # "done",
         NEW place \in Places, Goto(g, place)
  PROVE  LET w == [worker[g] EXCEPT !.at = place]
         IN /\ w \in WorkerType /\ worker' = [worker EXCEPT ![g] = w]
            /\ w.at = place /\ w.path = worker[g].path /\ w.header = worker[g].header
            /\ w.records = worker[g].records /\ w.cloud = worker[g].cloud
            /\ w.launched = worker[g].launched
            /\ worker[g].cloud.read <= w.cloud.read
<1>1. worker[g] \in WorkerType
  BY CurrentWorker
<1>2. worker[g].cloud.read \in Nat
  BY <1>1 DEF WorkerType, Cloud
<1> QED
  BY <1>1, <1>2 DEF Goto, WorkerType

LEMMA ReadHeaderKeeps ==
  ASSUME LoadInv, NEW g \in DOMAIN worker, ReadHeader(g)
  PROVE  LoadInv'
<1> DEFINE file == content[worker[g].path]
           w == [worker[g] EXCEPT !.header = file, !.at = "reopening"]
<1>1. worker[g].at = "starting" /\ worker[g].at # "done"
  BY DEF ReadHeader
<1>2. worker[g] \in WorkerType /\ WorkerSound(worker[g])
  BY <1>1, CurrentWorker
<1>3. file \in FileType
  BY <1>2 DEF LoadInv, TypeOK, WorkerType, FileType
<1>4. CASE HeaderAccepted(file)
  <2>1. worker' = [worker EXCEPT ![g] = w]
    BY <1>4 DEF ReadHeader
  <2> HIDE DEF file
  <2>2. w \in WorkerType /\ w.at = "reopening" /\ w.path = worker[g].path
    BY <1>2, <1>3 DEF WorkerType, Places
  <2>3. /\ w.header = file /\ w.records = worker[g].records
        /\ w.cloud = worker[g].cloud /\ w.launched = worker[g].launched
    BY <1>2 DEF WorkerType
  <2>4. worker[g].cloud.read <= w.cloud.read
    <3>1. worker[g].cloud.read \in Nat
      BY <1>2 DEF WorkerType, Cloud
    <3> QED
      BY <2>3, <3>1
  <2> HIDE DEF w
  <2>5. WorkerSound(w)
    BY <1>1, <1>2, <1>3, <2>2, <2>3 DEF WorkerSound, Between
  <2> QED
    BY <1>1, <2>1, <2>2, <2>3, <2>4, <2>5, LoadingMoves DEF ReadHeader, Before
<1>5. CASE ~HeaderAccepted(file)
  <2> DEFINE v == [worker[g] EXCEPT !.at = "refused"]
  <2>1. Goto(g, "refused") /\ "refused" \in Places
    BY <1>5 DEF ReadHeader, Places
  <2>2. /\ v \in WorkerType /\ worker' = [worker EXCEPT ![g] = v]
        /\ v.at = "refused" /\ v.path = worker[g].path
        /\ v.records = worker[g].records /\ v.cloud = worker[g].cloud
        /\ worker[g].cloud.read <= v.cloud.read
    BY <1>1, <2>1, GotoPlace
  <2> HIDE DEF v
  <2>3. WorkerSound(v)
    BY <1>2, <2>2 DEF WorkerSound, Between
  <2> QED
    BY <1>1, <2>2, <2>3, LoadingMoves DEF ReadHeader, Before
<1> QED
  BY <1>4, <1>5

LEMMA OpenRecordsKeeps ==
  ASSUME LoadInv, NEW g \in DOMAIN worker, OpenRecords(g)
  PROVE  LoadInv'
<1> DEFINE file == content[worker[g].path]
<1>1. worker[g].at = "reopening" /\ worker[g].at # "done"
  BY DEF OpenRecords
<1>2. worker[g] \in WorkerType /\ WorkerSound(worker[g])
  BY <1>1, CurrentWorker
<1>3. file \in FileType
  BY <1>2 DEF LoadInv, TypeOK, WorkerType, FileType
<1>5. CASE file.encoding = "unreadable"
  <2> DEFINE v == [worker[g] EXCEPT !.at = "refused"]
  <2>1. Goto(g, "refused") /\ "refused" \in Places
    BY <1>5 DEF OpenRecords, Places
  <2>2. /\ v \in WorkerType /\ worker' = [worker EXCEPT ![g] = v]
        /\ v.at = "refused" /\ v.path = worker[g].path
        /\ v.records = worker[g].records /\ v.cloud = worker[g].cloud
        /\ worker[g].cloud.read <= v.cloud.read
    BY <1>1, <2>1, GotoPlace
  <2> HIDE DEF v
  <2>3. WorkerSound(v)
    BY <1>2, <2>2 DEF WorkerSound, Between
  <2> QED
    BY <1>1, <2>2, <2>3, LoadingMoves DEF OpenRecords, Before
<1>6. CASE file.encoding # "unreadable"
  <2>7. PICK records \in ReadWith(worker[g].header.fields, file) :
          worker' = [worker EXCEPT ![g].found = file.fields, ![g].records = records,
                                   ![g].at = "reporting"]
    BY <1>6 DEF OpenRecords
  <2>6. records \in Seq(Record) /\ Len(records) \in Nat
    BY <1>3, ReadWithRecords
  <2>8. PICK found \in {f.fields : f \in FileType} : found = file.fields
    BY <1>3
  <2> HIDE DEF file
  <2> DEFINE w == [worker[g] EXCEPT !.found = found, !.records = records, !.at = "reporting"]
  <2>1. worker' = [worker EXCEPT ![g] = w]
    BY <2>7, <2>8
  <2>2. w \in WorkerType /\ w.at = "reporting" /\ w.path = worker[g].path
    BY <1>2, <2>6 DEF WorkerType, Places
  <2>3. /\ w.header = worker[g].header /\ w.records = records
        /\ w.cloud = worker[g].cloud
    BY <1>2 DEF WorkerType
  <2>4. worker[g].cloud.read <= w.cloud.read
    <3>1. worker[g].cloud.read \in Nat
      BY <1>2 DEF WorkerType, Cloud
    <3> QED
      BY <2>3, <3>1
  <2> HIDE DEF w
  <2>5. WorkerSound(w)
    BY <1>1, <1>2, <2>2, <2>3, <2>6 DEF WorkerSound, Between
  <2> QED
    BY <1>1, <2>1, <2>2, <2>3, <2>4, <2>5, LoadingMoves DEF OpenRecords, Before
<1> QED
  BY <1>5, <1>6

LEMMA LockSlotKeeps ==
  ASSUME LoadInv, NEW g \in DOMAIN worker, LockSlot(g)
  PROVE  LoadInv'
<1> DEFINE w == [worker[g] EXCEPT !.at = "storing"]
<1>1. worker[g].at = "reporting" /\ worker[g].at # "done"
  BY DEF LockSlot
<1>2. WorkerSound(worker[g])
  BY <1>1, CurrentWorker
<1>3. Goto(g, "storing") /\ "storing" \in Places
  BY DEF LockSlot, Places
<1>4. /\ w \in WorkerType /\ worker' = [worker EXCEPT ![g] = w]
      /\ w.at = "storing" /\ w.path = worker[g].path /\ w.header = worker[g].header
      /\ w.records = worker[g].records /\ w.cloud = worker[g].cloud
      /\ worker[g].cloud.read <= w.cloud.read
  BY <1>1, <1>3, GotoPlace
<1> HIDE DEF w
<1>5. WorkerSound(w)
  BY <1>1, <1>2, <1>4 DEF WorkerSound, Between
<1> QED
  BY <1>1, <1>4, <1>5, LoadingMoves DEF LockSlot, Before

LEMMA StoreProgressKeeps ==
  ASSUME LoadInv, NEW g \in DOMAIN worker, StoreProgress(g)
  PROVE  LoadInv'
<1> DEFINE w == [worker[g] EXCEPT !.at = "reading"]
<1>1. worker[g].at = "storing" /\ worker[g].at # "done"
  BY DEF StoreProgress
<1>2. WorkerSound(worker[g])
  BY <1>1, CurrentWorker
<1>3. Goto(g, "reading") /\ "reading" \in Places
  BY DEF StoreProgress, Places
<1>4. /\ w \in WorkerType /\ worker' = [worker EXCEPT ![g] = w]
      /\ w.at = "reading" /\ w.path = worker[g].path /\ w.header = worker[g].header
      /\ w.records = worker[g].records /\ w.cloud = worker[g].cloud
      /\ worker[g].cloud.read <= w.cloud.read
  BY <1>1, <1>3, GotoPlace
<1>5. worker[g].header.declared \in Nat
  BY <1>1, <1>2, FileParts DEF WorkerSound
<1> HIDE DEF w
<1>6. WorkerSound(w)
  BY <1>1, <1>2, <1>4 DEF WorkerSound, Between
<1>7. latest_progress' = [generation |-> g, path |-> w.path, points |-> w.cloud.read,
                          total |-> worker[g].header.declared]
  BY <1>4 DEF StoreProgress
<1> QED
  BY <1>1, <1>4, <1>5, <1>6, <1>7, LoadingMoves DEF StoreProgress, Before

LEMMA ReadRecordKeeps ==
  ASSUME LoadInv, NEW g \in DOMAIN worker, ReadRecord(g)
  PROVE  LoadInv'
<1> DEFINE fields == worker[g].header.fields
           record == worker[g].records[worker[g].cloud.read + 1]
           coloured == Coloured(worker[g].cloud, fields)
           added == AddRecord(worker[g].cloud, record, fields)
<1>1. worker[g].at = "reading" /\ worker[g].at # "done"
  BY DEF ReadRecord
<1>2. worker[g] \in WorkerType /\ WorkerSound(worker[g])
  BY <1>1, CurrentWorker
<1>3. /\ worker[g].cloud \in Cloud /\ worker[g].cloud.read \in Nat
      /\ worker[g].records \in Seq(Record) /\ Len(worker[g].records) \in Nat
  <2>1. worker[g].cloud \in Cloud /\ worker[g].records \in Seq(Record)
    BY <1>2 DEF WorkerType
  <2> QED
    BY <2>1 DEF Cloud
<1>4. CASE /\ worker[g].cloud.read = Len(worker[g].records)
           /\ worker' = [worker EXCEPT ![g].cloud = coloured, ![g].at = "loaded"]
  <2> DEFINE w == [worker[g] EXCEPT !.cloud = coloured, !.at = "loaded"]
  <2>1. worker' = [worker EXCEPT ![g] = w]
    BY <1>4
  <2>2. /\ coloured \in Cloud /\ coloured.read = worker[g].cloud.read
        /\ coloured.positions = worker[g].cloud.positions
        /\ coloured.skipped = worker[g].cloud.skipped
    BY <1>3, ColouredKeeps
  <2> HIDE DEF coloured
  <2>3. /\ w \in WorkerType /\ w.at = "loaded" /\ w.path = worker[g].path
        /\ w.header = worker[g].header /\ w.records = worker[g].records
        /\ w.cloud = coloured
    BY <1>2, <2>2 DEF WorkerType, Places
  <2> HIDE DEF w
  <2>4. WorkerSound(w)
    BY <1>1, <1>2, <1>4, <2>2, <2>3 DEF WorkerSound, Between
  <2>5. worker[g].cloud.read <= w.cloud.read
    BY <1>3, <2>2, <2>3
  <2> QED
    BY <1>1, <2>1, <2>3, <2>4, <2>5, LoadingMoves DEF ReadRecord, Before
<1>5. CASE worker[g].cloud.read # Len(worker[g].records) /\ RecordUsable(record, fields, worker[g].found)
  <2> DEFINE w == [worker[g] EXCEPT !.cloud = added, !.at = "reporting"]
  <2>1. worker' = [worker EXCEPT ![g] = w]
    BY <1>5 DEF ReadRecord
  <2>2. worker[g].cloud.read + 1 \in 1 .. Len(worker[g].records)
    BY <1>2, <1>3, <1>5 DEF WorkerSound
  <2>3. record \in Record
    BY <1>3, <2>2
  <2> HIDE DEF record
  <2>4. /\ added \in Cloud /\ added.read = worker[g].cloud.read + 1
        /\ Len(added.positions) + added.skipped
             = Len(worker[g].cloud.positions) + worker[g].cloud.skipped + 1
    BY <1>3, <2>3, AddRecordCounts
  <2> HIDE DEF added
  <2>5. /\ w \in WorkerType /\ w.at = "reporting" /\ w.path = worker[g].path
        /\ w.header = worker[g].header /\ w.records = worker[g].records
        /\ w.cloud = added
    BY <1>2, <2>4 DEF WorkerType, Places
  <2> HIDE DEF w
  <2>6. added.read <= Len(worker[g].records)
    BY <1>3, <2>2, <2>4
  <2>7. Len(added.positions) + added.skipped = added.read
    BY <1>2, <2>4 DEF WorkerSound
  <2>8. WorkerSound(w)
    BY <1>1, <1>2, <2>5, <2>6, <2>7 DEF WorkerSound, Between
  <2>9. worker[g].cloud.read <= w.cloud.read
    BY <1>3, <2>4, <2>5
  <2> QED
    BY <1>1, <2>1, <2>5, <2>8, <2>9, LoadingMoves DEF ReadRecord, Before
<1>6. CASE Goto(g, "refused")
  <2> DEFINE w == [worker[g] EXCEPT !.at = "refused"]
  <2>1. Goto(g, "refused") /\ "refused" \in Places
    BY <1>6 DEF Places
  <2>2. /\ w \in WorkerType /\ worker' = [worker EXCEPT ![g] = w]
        /\ w.at = "refused" /\ w.path = worker[g].path
        /\ w.records = worker[g].records /\ w.cloud = worker[g].cloud
        /\ worker[g].cloud.read <= w.cloud.read
    BY <1>1, <2>1, GotoPlace
  <2> HIDE DEF w
  <2>3. WorkerSound(w)
    BY <1>2, <2>2 DEF WorkerSound, Between
  <2> QED
    BY <1>1, <2>2, <2>3, LoadingMoves DEF ReadRecord, Before
<1> QED
  BY <1>4, <1>5, <1>6 DEF ReadRecord

(* An event put at the end of what is on its way.                          *)
LEMMA SendAppends ==
  ASSUME DataOK, NEW event \in EventType, Send(event)
  PROVE  /\ events' \in Seq(EventType)
         /\ Len(events') = Len(events) + 1
         /\ \A i \in DOMAIN events : events'[i] = events[i]
         /\ events'[Len(events')] = event
         /\ DOMAIN events' = DOMAIN events \cup {Len(events')}
         /\ Len(events) \in Nat
  BY DEF DataOK, Send

(* An event of the current worker, and what it says.                       *)
LEMMA EventOfWorker ==
  ASSUME LoadInv, NEW g \in DOMAIN worker, worker[g].at # "done",
         NEW kind \in {"Launching", "Ready", "Failed"},
         NEW result \in Result \cup {None}, NEW w \in WorkerType,
         w.path = worker[g].path, ResultSound(result, w), kind = "Ready" => w.launched
  PROVE  Event(kind, g, result) \in EventType /\ EventSound(Event(kind, g, result), w)
<1>1. g = generation /\ g \in Generation
  BY CurrentWorker DEF LoadInv, TypeOK, Generation
<1>2. worker[g].path \in Paths
  BY CurrentWorker DEF WorkerType
<1> QED
  BY <1>1, <1>2 DEF Event, EventType, EventSound

(* The result of a worker that has read all its records.                   *)
LEMMA ResultOfLoaded ==
  ASSUME NEW w \in WorkerType, WorkerSound(w), w.at \in Between \cup {"loaded"}
  PROVE  /\ ResultOf(w) \in Result
         /\ ResultOf(w).valid + ResultOf(w).skipped = Len(w.records)
<1>1. w.cloud \in Cloud /\ w.header \in FileType
  BY DEF WorkerType, WorkerSound, Between
<1>2. /\ Len(w.cloud.positions) \in Nat /\ w.cloud.skipped \in Nat
      /\ w.header.declared \in Nat
  BY <1>1, FileParts DEF Cloud
<1>3. Len(w.cloud.positions) + w.cloud.skipped = Len(w.records)
  BY DEF WorkerSound
<1> QED
  BY <1>2, <1>3 DEF ResultOf, Result

LEMMA SendRefusedKeeps ==
  ASSUME LoadInv, NEW g \in DOMAIN worker, SendRefused(g)
  PROVE  LoadInv'
<1> DEFINE w == [worker[g] EXCEPT !.at = "done"]
           event == Event("Failed", g, None)
<1>1. worker[g].at = "refused" /\ worker[g].at # "done"
  BY DEF SendRefused
<1>2. Len(events) = 0 /\ status.phase = "Loading" /\ WorkerSound(worker[g])
  BY <1>1, CurrentWorker DEF CurrentSound, Stage, Between
<1>3. Goto(g, "done") /\ "done" \in Places
  BY DEF SendRefused, Places
<1>4. /\ w \in WorkerType /\ worker' = [worker EXCEPT ![g] = w]
      /\ w.at = "done" /\ w.path = worker[g].path
      /\ w.records = worker[g].records /\ w.cloud = worker[g].cloud
      /\ worker[g].cloud.read <= w.cloud.read
  BY <1>1, <1>3, GotoPlace
<1> HIDE DEF w
<1>5. WorkerSound(w)
  BY <1>2, <1>4 DEF WorkerSound, Between
<1>6. ResultSound(None, w)
  BY DEF ResultSound
<1>7. event \in EventType /\ EventSound(event, w)
  BY <1>1, <1>4, <1>6, EventOfWorker
<1>8. event.kind = "Failed" /\ Send(event)
  BY DEF Event, SendRefused
<1> HIDE DEF event
<1>9. /\ events' \in Seq(EventType) /\ Len(events') = 1 /\ events'[1] = event
      /\ DOMAIN events' = {1}
  BY <1>2, <1>7, <1>8, SendAppends DEF LoadInv
<1>10. Stage(w.at, events', status.phase)
  BY <1>2, <1>4, <1>8, <1>9 DEF Stage
<1>11. \A i \in DOMAIN events' : EventSound(events'[i], w)
  BY <1>7, <1>9
<1>12. ResultSound(status.result, w)
  BY <1>2 DEF ResultSound, LoadInv
<1> QED
  BY <1>1, <1>4, <1>5, <1>9, <1>10, <1>11, <1>12, WorkerMoves DEF SendRefused

LEMMA SendLaunchingKeeps ==
  ASSUME LoadInv, NEW g \in DOMAIN worker, SendLaunching(g)
  PROVE  LoadInv'
<1> DEFINE w == [worker[g] EXCEPT !.at = "launching"]
           event == Event("Launching", g, ResultOf(worker[g]))
<1>1. worker[g].at = "loaded" /\ worker[g].at # "done"
  BY DEF SendLaunching
<1>2. /\ Len(events) = 0 /\ status.phase = "Loading"
      /\ WorkerSound(worker[g]) /\ worker[g] \in WorkerType
  BY <1>1, CurrentWorker DEF CurrentSound, Stage, Between
<1>3. Goto(g, "launching") /\ "launching" \in Places
  BY DEF SendLaunching, Places
<1>4. /\ w \in WorkerType /\ worker' = [worker EXCEPT ![g] = w]
      /\ w.at = "launching" /\ w.path = worker[g].path /\ w.header = worker[g].header
      /\ w.records = worker[g].records /\ w.cloud = worker[g].cloud
      /\ worker[g].cloud.read <= w.cloud.read
  BY <1>1, <1>3, GotoPlace
<1> HIDE DEF w
<1>5. WorkerSound(w)
  BY <1>1, <1>2, <1>4 DEF WorkerSound, Between
<1>6. /\ ResultOf(worker[g]) \in Result
      /\ ResultOf(worker[g]) = ResultOf(w)
      /\ ResultSound(ResultOf(worker[g]), w)
  BY <1>1, <1>2, <1>4, ResultOfLoaded DEF ResultSound, ResultOf
<1>7. event \in EventType /\ EventSound(event, w)
  BY <1>1, <1>4, <1>6, EventOfWorker
<1>8. event.kind = "Launching" /\ Send(event)
  BY DEF Event, SendLaunching
<1> HIDE DEF event
<1>9. /\ events' \in Seq(EventType) /\ Len(events') = 1 /\ events'[1] = event
      /\ DOMAIN events' = {1}
  BY <1>2, <1>7, <1>8, SendAppends DEF LoadInv
<1>10. Stage(w.at, events', status.phase)
  BY <1>2, <1>4, <1>8, <1>9 DEF Stage, Between
<1>11. \A i \in DOMAIN events' : EventSound(events'[i], w)
  BY <1>7, <1>9
<1>12. ResultSound(status.result, w)
  BY <1>2 DEF ResultSound, LoadInv
<1> QED
  BY <1>1, <1>4, <1>5, <1>9, <1>10, <1>11, <1>12, WorkerMoves DEF SendLaunching

(* Between its two events a worker leaves what it has loaded alone, and    *)
(* what was said about it stays true.                                      *)
LEMMA StillSound ==
  ASSUME NEW v \in WorkerType, NEW w \in WorkerType,
         w.path = v.path, w.header = v.header, w.records = v.records, w.cloud = v.cloud,
         v.launched => w.launched
  PROVE  /\ \A result : ResultSound(result, v) => ResultSound(result, w)
         /\ \A event : EventSound(event, v) => EventSound(event, w)
  BY DEF ResultSound, EventSound, ResultOf

LEMMA LaunchKeeps ==
  ASSUME LoadInv, NEW g \in DOMAIN worker, Launch(g)
  PROVE  LoadInv'
<1>1. worker[g].at = "launching" /\ worker[g].at # "done"
  BY DEF Launch
<1>2. /\ worker[g] \in WorkerType /\ WorkerSound(worker[g]) /\ CurrentSound(worker[g])
  BY <1>1, CurrentWorker
<1>3. worker[g].cloud.read \in Nat
  BY <1>2 DEF WorkerType, Cloud
<1>4. \E w \in WorkerType :
        /\ worker' = [worker EXCEPT ![g] = w]
        /\ w.at \in {"launched", "failed"} /\ (w.at = "launched" => w.launched)
        /\ w.path = worker[g].path /\ w.header = worker[g].header
        /\ w.records = worker[g].records /\ w.cloud = worker[g].cloud
        /\ worker[g].launched => w.launched
  <2>1. CASE worker' = [worker EXCEPT ![g].at = "launched", ![g].launched = TRUE]
    <3> DEFINE w == [worker[g] EXCEPT !.at = "launched", !.launched = TRUE]
    <3>1. worker' = [worker EXCEPT ![g] = w]
      BY <2>1
    <3>2. /\ w \in WorkerType /\ w.at = "launched" /\ w.launched
          /\ w.path = worker[g].path /\ w.header = worker[g].header
          /\ w.records = worker[g].records /\ w.cloud = worker[g].cloud
      BY <1>2 DEF WorkerType, Places
    <3> HIDE DEF w
    <3> QED
      BY <3>1, <3>2
  <2>2. CASE Goto(g, "failed")
    <3> DEFINE w == [worker[g] EXCEPT !.at = "failed"]
    <3>1. "failed" \in Places
      BY DEF Places
    <3>2. /\ w \in WorkerType /\ worker' = [worker EXCEPT ![g] = w] /\ w.at = "failed"
          /\ w.path = worker[g].path /\ w.header = worker[g].header
          /\ w.records = worker[g].records /\ w.cloud = worker[g].cloud
          /\ w.launched = worker[g].launched
      BY <1>1, <2>2, <3>1, GotoPlace
    <3> HIDE DEF w
    <3> QED
      BY <3>2
  <2> QED
    BY <2>1, <2>2 DEF Launch
<1>5. PICK w \in WorkerType :
        /\ worker' = [worker EXCEPT ![g] = w]
        /\ w.at \in {"launched", "failed"} /\ (w.at = "launched" => w.launched)
        /\ w.path = worker[g].path /\ w.header = worker[g].header
        /\ w.records = worker[g].records /\ w.cloud = worker[g].cloud
        /\ worker[g].launched => w.launched
  BY <1>4
<1>6. WorkerSound(w)
  BY <1>1, <1>2, <1>5 DEF WorkerSound, Between
<1>7. worker[g].cloud.read <= w.cloud.read
  BY <1>3, <1>5
<1>8. /\ events' = events /\ events' \in Seq(EventType)
  BY DEF Launch, LoadInv, DataOK
<1>9. Stage(w.at, events', status.phase)
  BY <1>1, <1>2, <1>5, <1>8 DEF CurrentSound, Stage, Before, Between
<1>10. /\ \A i \in DOMAIN events' : EventSound(events'[i], w)
       /\ ResultSound(status.result, w)
  BY <1>2, <1>5, <1>8, StillSound DEF CurrentSound
<1> QED
  BY <1>1, <1>5, <1>6, <1>7, <1>8, <1>9, <1>10, WorkerMoves DEF Launch

LEMMA SendLastKeeps ==
  ASSUME LoadInv, NEW g \in DOMAIN worker, SendLast(g)
  PROVE  LoadInv'
<1> DEFINE w == [worker[g] EXCEPT !.at = "done"]
           event == LastEvent(g)
<1>1. worker[g].at \in {"launched", "failed"} /\ worker[g].at # "done"
  BY DEF SendLast
<1>2. /\ worker[g] \in WorkerType /\ WorkerSound(worker[g]) /\ CurrentSound(worker[g])
  BY <1>1, CurrentWorker
<1>3. Goto(g, "done") /\ "done" \in Places
  BY DEF SendLast, Places
<1>4. /\ w \in WorkerType /\ worker' = [worker EXCEPT ![g] = w]
      /\ w.at = "done" /\ w.path = worker[g].path /\ w.header = worker[g].header
      /\ w.records = worker[g].records /\ w.cloud = worker[g].cloud
      /\ w.launched = worker[g].launched
      /\ worker[g].cloud.read <= w.cloud.read
  BY <1>1, <1>3, GotoPlace
<1> HIDE DEF w
<1>5. WorkerSound(w)
  BY <1>1, <1>2, <1>4 DEF WorkerSound, Between
<1>6. /\ ResultOf(worker[g]) \in Result
      /\ ResultOf(worker[g]) = ResultOf(w)
      /\ ResultSound(ResultOf(worker[g]), w)
  BY <1>1, <1>2, <1>4, ResultOfLoaded DEF ResultSound, ResultOf, Between
<1>7. PICK kind \in {"Ready", "Failed"} :
        /\ event = Event(kind, g, ResultOf(worker[g]))
        /\ kind = "Ready" => worker[g].launched
  BY <1>1, <1>2 DEF LastEvent, WorkerSound
<1>8. event \in EventType /\ EventSound(event, w)
  BY <1>1, <1>4, <1>6, <1>7, EventOfWorker
<1>9. event.kind \in {"Ready", "Failed"} /\ Send(event)
  BY <1>7 DEF Event, SendLast
<1> HIDE DEF event
<1>10. /\ events' \in Seq(EventType) /\ Len(events') = Len(events) + 1
       /\ \A i \in DOMAIN events : events'[i] = events[i]
       /\ events'[Len(events')] = event
       /\ DOMAIN events' = DOMAIN events \cup {Len(events')}
  BY <1>8, <1>9, SendAppends DEF LoadInv
<1>11. Stage(w.at, events', status.phase)
  <2>1. CASE /\ Len(events) = 1 /\ events[1].kind = "Launching" /\ status.phase = "Loading"
    <3>1. 1 \in DOMAIN events
      BY <2>1 DEF LoadInv, DataOK
    <3>2. Len(events') = 2 /\ events'[1] = events[1] /\ events'[2] = event
      BY <1>10, <2>1, <3>1
    <3> QED
      BY <1>4, <1>9, <2>1, <3>2 DEF Stage
  <2>2. CASE Len(events) = 0 /\ status.phase = "Launching"
    BY <1>4, <1>9, <1>10, <2>2 DEF Stage
  <2> QED
    BY <1>1, <1>2, <2>1, <2>2 DEF CurrentSound, Stage, Before, Between
<1>12. /\ \A i \in DOMAIN events : EventSound(events[i], w)
       /\ ResultSound(status.result, w)
  BY <1>2, <1>4, StillSound DEF CurrentSound
<1>13. \A i \in DOMAIN events' : EventSound(events'[i], w)
  BY <1>8, <1>10, <1>12
<1> QED
  BY <1>1, <1>4, <1>5, <1>10, <1>11, <1>12, <1>13, WorkerMoves DEF SendLast

-----------------------------------------------------------------------------
(* Steps of the UI thread, and of whoever writes the files.                *)

(* The thread of the last start, if there was one.                         *)
LEMMA LastWorker ==
  ASSUME LoadInv, generation > 0
  PROVE  /\ generation \in DOMAIN worker
         /\ worker[generation] \in WorkerType
         /\ CurrentSound(worker[generation])
<1>1. generation \in DOMAIN worker
  BY DEF LoadInv, OneThread, DataOK, TypeOK
<1>2. worker[generation] \in WorkerType
  BY <1>1 DEF LoadInv, DataOK
<1> QED
  BY <1>1, <1>2 DEF LoadInv

(* Neither the status nor a worker nor what is between them changes.       *)
LEMMA ElsewhereKeeps ==
  ASSUME LoadInv, UNCHANGED <<runtime, latest_progress, events, worker>>,
         ui' \in [at : {"idle", "take", "drain1", "drain2", "decide"}, path : Paths \cup {NoPath}],
         (ui'.at # "idle" /\ ui'.path # NoPath) => generation < MaxStarts,
         ui'.at = "decide" => ui'.path # NoPath,
         DOMAIN content' = Paths, \A p \in Paths : content'[p] \in Files(p),
         rewrites' \in 0 .. MaxRewrites
  PROVE  LoadInv'
<1>1. DataOK'
  BY DEF LoadInv, DataOK, runtime
<1>2. TypeOK'
  BY <1>1, TypesFollow DEF LoadInv, TypeOK, runtime
<1>3. OneThread'
  BY DEF LoadInv, OneThread, runtime
<1>4. generation > 0 => CurrentSound(worker[generation])'
  BY LastWorker DEF CurrentSound, Stage, EventSound, ResultSound, ResultOf, ProgressBehind, runtime
<1> QED
  BY <1>1, <1>2, <1>3, <1>4 DEF LoadInv, runtime

LEMMA BeginPollKeeps ==
  ASSUME LoadInv, BeginPoll
  PROVE  LoadInv'
<1>1. /\ ui' \in [at : {"idle", "take", "drain1", "drain2", "decide"}, path : Paths \cup {NoPath}]
      /\ ui'.at = "take" /\ (ui'.path # NoPath => generation < MaxStarts)
  BY DEF BeginPoll
<1>2. DOMAIN content = Paths /\ \A p \in Paths : content[p] \in Files(p)
  BY DEF LoadInv, TypeOK, DataOK
<1>3. rewrites \in 0 .. MaxRewrites
  BY DEF LoadInv, TypeOK
<1> QED
  BY <1>1, <1>2, <1>3, ElsewhereKeeps DEF BeginPoll

LEMMA RewriteKeeps ==
  ASSUME LoadInv, Rewrite
  PROVE  LoadInv'
<1>1. DOMAIN content = Paths /\ \A p \in Paths : content[p] \in Files(p)
  BY DEF LoadInv, TypeOK, DataOK
<1>2. DOMAIN content' = Paths /\ \A p \in Paths : content'[p] \in Files(p)
  BY <1>1 DEF Rewrite
<1>3. rewrites' \in 0 .. MaxRewrites
  BY StartsAssumption DEF LoadInv, TypeOK, Rewrite
<1>4. /\ ui \in [at : {"idle", "take", "drain1", "drain2", "decide"}, path : Paths \cup {NoPath}]
      /\ (ui.at # "idle" /\ ui.path # NoPath) => generation < MaxStarts
      /\ ui.at = "decide" => ui.path # NoPath
  BY DEF LoadInv, DataOK, OneThread
<1> QED
  BY <1>2, <1>3, <1>4, ElsewhereKeeps DEF Rewrite

(* The parts of the invariant that a step of the poll does not disturb.    *)
LEMMA PollMoves ==
  ASSUME LoadInv, UNCHANGED <<generation, worker, content, rewrites>>,
         status' \in StatusType, events' \in Seq(EventType),
         ui' \in [at : {"idle", "take", "drain1", "drain2", "decide"}, path : {ui.path}],
         ui.at # "idle", ui'.at = "decide" => ui.path # NoPath,
         busy' = (status'.phase \in {"Loading", "Launching"}),
         accepts_progress' = (status'.phase = "Loading"),
         latest_progress' \in {latest_progress, None},
         status'.phase # "Loading" => status'.points = 0,
         status'.phase \in {"Idle", "Loading"} => status'.result = None,
         generation = 0 => UNCHANGED <<status, events, latest_progress>>,
         generation > 0 => CurrentSound(worker[generation])'
  PROVE  LoadInv'
<1>1. ui' \in [at : {"idle", "take", "drain1", "drain2", "decide"}, path : Paths \cup {NoPath}]
  BY DEF LoadInv, DataOK
<1>2. DataOK'
  BY <1>1 DEF LoadInv, DataOK
<1>3. \/ latest_progress' = None
      \/ latest_progress' \in [generation : Generation, path : Paths, points : Nat, total : Nat]
  BY DEF LoadInv, TypeOK
<1>4. TypeOK'
  BY <1>2, <1>3, TypesFollow DEF LoadInv, TypeOK
<1>5. OneThread'
  BY DEF LoadInv, OneThread
<1>6. latest_progress' # None => latest_progress'.generation <= generation'
  BY DEF LoadInv
<1> QED
  BY <1>2, <1>4, <1>5, <1>6 DEF LoadInv

LEMMA TakeProgressKeeps ==
  ASSUME LoadInv, TakeProgress
  PROVE  LoadInv'
<1>1. /\ ui' \in [at : {"idle", "take", "drain1", "drain2", "decide"}, path : {ui.path}]
      /\ ui.at # "idle" /\ ui'.at = "drain1"
  BY DEF TakeProgress, LoadInv, DataOK
<1>2. events' = events /\ events \in Seq(EventType) /\ status \in StatusType
  BY DEF TakeProgress, LoadInv, DataOK
<1>3. /\ busy = (status.phase \in {"Loading", "Launching"})
      /\ accepts_progress = (status.phase = "Loading")
      /\ status.points \in Nat
  BY DEF LoadInv, TypeOK
<1>4. CASE MayTakeProgress /\ ProgressIsCurrent
  <2>1. /\ latest_progress # None /\ latest_progress.generation = generation
        /\ status.phase = "Loading" /\ latest_progress' = None
        /\ status' = [phase |-> "Loading", path |-> latest_progress.path,
                      points |-> latest_progress.points,
                      total |-> latest_progress.total, result |-> None]
    BY <1>3, <1>4 DEF TakeProgress, MayTakeProgress, ProgressIsCurrent
  <2>2. /\ latest_progress.generation \in Generation /\ latest_progress.path \in Paths
        /\ latest_progress.points \in Nat /\ latest_progress.total \in Nat
    BY <2>1 DEF LoadInv, TypeOK
  <2>3. generation > 0
    BY <2>1, <2>2 DEF Generation
  <2>4. CurrentSound(worker[generation])
    BY <2>3, LastWorker
  <2>5. status' \in StatusType
    BY <2>1, <2>2 DEF StatusType
  <2>6. CurrentSound(worker[generation])'
    BY <1>2, <2>1, <2>4
    DEF TakeProgress, CurrentSound, Stage, EventSound, ResultSound, ResultOf, ProgressBehind
  <2> QED
    BY <1>1, <1>2, <1>3, <2>1, <2>3, <2>5, <2>6, PollMoves DEF TakeProgress
<1>5. CASE ~(MayTakeProgress /\ ProgressIsCurrent)
  <2>1. status' = status /\ latest_progress' \in {latest_progress, None}
    BY <1>5 DEF TakeProgress
  <2>2. generation > 0 => CurrentSound(worker[generation])'
    BY <1>2, <2>1, LastWorker
    DEF TakeProgress, CurrentSound, Stage, EventSound, ResultSound, ResultOf, ProgressBehind
  <2>3. generation = 0 => UNCHANGED latest_progress
    BY <2>1 DEF LoadInv
  <2> QED
    BY <1>1, <1>2, <1>3, <2>1, <2>2, <2>3, PollMoves DEF TakeProgress, LoadInv
<1> QED
  BY <1>4, <1>5

(* The first event is taken: the others move up.                           *)
LEMMA TailMovesUp ==
  ASSUME events \in Seq(EventType), events # <<>>, events' = Tail(events)
  PROVE  /\ events' \in Seq(EventType)
         /\ Len(events) > 0 /\ Len(events') = Len(events) - 1
         /\ 1 \in DOMAIN events /\ Head(events) = events[1]
         /\ Head(events) \in EventType
         /\ \A i \in DOMAIN events' : i + 1 \in DOMAIN events /\ events'[i] = events[i + 1]
  OBVIOUS

LEMMA DrainEventKeeps ==
  ASSUME LoadInv, DrainEvent
  PROVE  LoadInv'
<1>1. /\ ui' \in [at : {"idle", "take", "drain1", "drain2", "decide"}, path : {ui.path}]
      /\ ui.at # "idle" /\ (ui'.at = "decide" => ui.path # NoPath)
  BY DEF DrainEvent, AfterPoll, NextDrain, LoadInv, DataOK
<1>2. events \in Seq(EventType) /\ status \in StatusType
  BY DEF LoadInv, DataOK
<1>3. CASE events = <<>>
  <2>1. UNCHANGED <<status, busy, accepts_progress, generation, events, latest_progress, worker>>
    BY <1>3 DEF DrainEvent, runtime
  <2>2. generation > 0 => CurrentSound(worker[generation])'
    BY <2>1, LastWorker
    DEF CurrentSound, Stage, EventSound, ResultSound, ResultOf, ProgressBehind
  <2> QED
    BY <1>1, <1>2, <2>1, <2>2, PollMoves DEF DrainEvent, LoadInv, TypeOK
<1>4. CASE events # <<>>
  <2> DEFINE event == Head(events)
  <2>1. events' = Tail(events)
    BY <1>4 DEF DrainEvent
  <2>2. /\ events' \in Seq(EventType)
        /\ Len(events) > 0 /\ Len(events') = Len(events) - 1
        /\ 1 \in DOMAIN events /\ event = events[1] /\ event \in EventType
        /\ \A i \in DOMAIN events' : i + 1 \in DOMAIN events /\ events'[i] = events[i + 1]
    BY <1>2, <1>4, <2>1, TailMovesUp
  <2>3. generation > 0
    BY <1>4 DEF LoadInv, TypeOK
  <2>4. /\ CurrentSound(worker[generation]) /\ worker[generation] \in WorkerType
    BY <2>3, LastWorker
  <2>5. EventSound(event, worker[generation])
    BY <2>2, <2>4 DEF CurrentSound
  <2>6. /\ status' = Status(event.kind, event.path, event.result)
        /\ accepts_progress' = FALSE /\ busy' = (busy /\ event.kind \notin Terminal)
        /\ UNCHANGED <<generation, latest_progress, worker, content, rewrites>>
    BY <1>4, <2>5 DEF DrainEvent, EventSound
  <2>7. /\ event.kind \in {"Launching", "Ready", "Failed"} /\ event.path \in Paths
        /\ event.result \in Result \cup {None}
    BY <2>2 DEF EventType
  <2>8. /\ status' \in StatusType /\ status'.phase = event.kind
        /\ status'.path = event.path /\ status'.result = event.result
        /\ status'.points = 0
    BY <2>6, <2>7 DEF StatusType, Status
  <2> HIDE DEF event
  <2>9. Stage(worker[generation].at, events', event.kind)
    <3> DEFINE at == worker[generation].at
    <3>1. Len(events) \in Nat /\ Len(events') \in Nat
      BY <1>2, <2>2
    <3>2. CASE at \in Between /\ Len(events) = 1 /\ events[1].kind = "Launching"
      BY <2>2, <3>2 DEF Stage
    <3>3. CASE /\ at = "done" /\ Len(events) = 1
               /\ events[1].kind \in {"Ready", "Failed"}
      BY <2>2, <3>3 DEF Stage
    <3>4. CASE /\ at = "done" /\ Len(events) = 2
               /\ events[1].kind = "Launching" /\ events[2].kind \in {"Ready", "Failed"}
      <4>1. Len(events') = 1 /\ events'[1] = events[2]
        BY <2>2, <3>1, <3>4
      <4> QED
        BY <2>2, <3>4, <4>1 DEF Stage
    <3> HIDE DEF at
    <3>5. Stage(at, events, status.phase)
      BY <2>4 DEF CurrentSound, at
    <3> QED
      BY <2>2, <3>2, <3>3, <3>4, <3>5 DEF Stage, at
  <2>10. status.phase \in {"Loading", "Launching"}
    BY <2>2, <2>4 DEF CurrentSound, Stage
  <2>11. /\ busy' = (status'.phase \in {"Loading", "Launching"})
         /\ accepts_progress' = (status'.phase = "Loading")
    <3>1. busy
      BY <2>10 DEF LoadInv, TypeOK
    <3>2. busy' = (event.kind \notin {"Ready", "Failed"}) /\ accepts_progress' = FALSE
      BY <2>6, <3>1 DEF Terminal
    <3>3. CASE event.kind = "Launching"
      BY <2>8, <3>2, <3>3
    <3>4. CASE event.kind \in {"Ready", "Failed"}
      <4>1. ~busy' /\ ~accepts_progress'
        BY <3>2, <3>4
      <4>2. /\ status'.phase \notin {"Loading", "Launching"} /\ status'.phase # "Loading"
            /\ busy' \in BOOLEAN /\ accepts_progress' \in BOOLEAN
        BY <2>8, <3>2, <3>4
      <4> QED
        BY <4>1, <4>2
    <3> QED
      BY <2>7, <3>3, <3>4
  <2>12. \A i \in DOMAIN events' : EventSound(events'[i], worker[generation])
    BY <2>2, <2>4 DEF CurrentSound
  <2>13. CurrentSound(worker[generation])'
    <3>1. Stage(worker[generation].at, events, status.phase)'
      BY <2>6, <2>8, <2>9 DEF Stage
    <3>2. (\A i \in DOMAIN events : EventSound(events[i], worker[generation]))'
      BY <2>6, <2>12 DEF EventSound, ResultSound, ResultOf
    <3>3. /\ status'.path = worker'[generation'].path
          /\ status'.phase = "Ready" => worker'[generation'].launched
      BY <2>5, <2>6, <2>8 DEF EventSound
    <3>4. ResultSound(status.result, worker[generation])'
      BY <2>5, <2>6, <2>8 DEF EventSound, ResultSound, ResultOf
    <3>5. ProgressBehind(worker[generation])'
      BY <2>4, <2>6, <2>7, <2>8 DEF CurrentSound, ProgressBehind
    <3> QED
      BY <3>1, <3>2, <3>3, <3>4, <3>5 DEF CurrentSound
  <2> QED
    BY <1>1, <2>2, <2>3, <2>6, <2>7, <2>8, <2>11, <2>13, PollMoves
<1> QED
  BY <1>3, <1>4

LEMMA StartKeeps ==
  ASSUME LoadInv, Start
  PROVE  LoadInv'
<1>1. ui.path \in Paths /\ generation < MaxStarts
  BY DEF Start, LoadInv, OneThread, TypeOK
<1>2. /\ ui' = [at |-> "idle", path |-> NoPath]
      /\ UNCHANGED <<latest_progress, events, content, rewrites>>
  BY DEF Start
<1>3. CASE StartRefused
  <2>1. UNCHANGED <<runtime, worker>>
    BY <1>3 DEF Start
  <2> QED
    BY <1>2, <2>1, ElsewhereKeeps DEF LoadInv, TypeOK, DataOK
<1>4. CASE ~StartRefused
  <2>1. ~busy /\ status.phase \notin {"Loading", "Launching"}
    BY <1>4 DEF StartRefused, LoadInv, TypeOK
  <2>2. generation \in Nat /\ Len(worker) = generation
    BY DEF LoadInv, OneThread, TypeOK
  <2>3. /\ Len(events) = 0
        /\ generation > 0 => worker[generation].at = "done"
    <3>1. CASE generation = 0
      BY <3>1 DEF LoadInv
    <3>2. CASE generation > 0
      BY <2>1, <3>2, LastWorker DEF CurrentSound, Stage
    <3> QED
      BY <2>2, <3>1, <3>2
  <2>4. \A g \in DOMAIN worker : worker[g].at = "done"
    BY <2>2, <2>3 DEF LoadInv, OneThread, DataOK
  <2>5. \E w \in WorkerType :
          /\ worker' = Append(worker, w)
          /\ WorkerSound(w) /\ w.path = ui.path
          /\ \/ /\ w.at = "starting" /\ status' = Status("Loading", ui.path, None)
                /\ busy' = TRUE /\ accepts_progress' = TRUE
             \/ /\ w.at = "done" /\ status' = Status("Failed", ui.path, None)
                /\ busy' = FALSE /\ accepts_progress' = FALSE
    <3> DEFINE new == NewWorker(ui.path)
               dead == [new EXCEPT !.at = "done"]
    <3>1. EmptyCloud \in Cloud /\ Len(EmptyCloud.positions) = 0
      BY DEF EmptyCloud, Cloud
    <3>2. /\ new \in WorkerType /\ new.at = "starting" /\ new.path = ui.path
          /\ new.cloud = EmptyCloud /\ Len(new.records) = 0
      BY <1>1, <3>1 DEF NewWorker, WorkerType, Places
    <3> HIDE DEF new
    <3>3. /\ dead \in WorkerType /\ dead.at = "done" /\ dead.path = ui.path
          /\ dead.cloud = EmptyCloud /\ Len(dead.records) = 0
      BY <3>2 DEF WorkerType, Places
    <3>4. WorkerSound(new)
      BY <3>1, <3>2 DEF WorkerSound, EmptyCloud, Between
    <3> HIDE DEF dead
    <3>5. WorkerSound(dead)
      BY <3>1, <3>3 DEF WorkerSound, EmptyCloud, Between
    <3>6. CASE worker' = Append(worker, new) /\ status' = Status("Loading", ui.path, None)
                 /\ busy' = TRUE /\ accepts_progress' = TRUE
      BY <3>2, <3>4, <3>6
    <3>7. CASE worker' = Append(worker, dead) /\ status' = Status("Failed", ui.path, None)
                 /\ busy' = FALSE /\ accepts_progress' = FALSE
      BY <3>3, <3>5, <3>7
    <3> QED
      BY <1>4, <3>6, <3>7 DEF Start, new, dead
  <2>6. PICK w \in WorkerType :
          /\ worker' = Append(worker, w)
          /\ WorkerSound(w) /\ w.path = ui.path
          /\ \/ /\ w.at = "starting" /\ status' = Status("Loading", ui.path, None)
                /\ busy' = TRUE /\ accepts_progress' = TRUE
             \/ /\ w.at = "done" /\ status' = Status("Failed", ui.path, None)
                /\ busy' = FALSE /\ accepts_progress' = FALSE
    BY <2>5
  <2>7. generation' = generation + 1 /\ generation' > 0 /\ generation' \in 1 .. MaxStarts
    <3>1. generation' = generation + 1
      BY <1>4 DEF Start
    <3> QED
      BY <1>1, <2>2, <3>1, StartsAssumption
  <2>8. /\ worker' \in Seq(WorkerType) /\ Len(worker') = generation'
        /\ DOMAIN worker' = DOMAIN worker \cup {generation'}
        /\ worker'[generation'] = w
        /\ \A g \in DOMAIN worker : worker'[g] = worker[g]
    BY <2>2, <2>6, <2>7 DEF LoadInv, DataOK
  <2>9. /\ status' \in StatusType /\ status'.phase \in {"Loading", "Failed"}
        /\ status'.path = ui.path /\ status'.points = 0 /\ status'.result = None
        /\ busy' = (status'.phase \in {"Loading", "Launching"})
        /\ accepts_progress' = (status'.phase = "Loading")
        /\ \/ w.at = "starting" /\ status'.phase = "Loading"
           \/ w.at = "done" /\ status'.phase = "Failed"
    <3>1. CASE /\ w.at = "starting" /\ status' = Status("Loading", ui.path, None)
               /\ busy' = TRUE /\ accepts_progress' = TRUE
      <4>1. /\ status' \in StatusType /\ status'.phase = "Loading"
            /\ status'.path = ui.path /\ status'.points = 0 /\ status'.result = None
        BY <1>1, <3>1 DEF Status, StatusType
      <4> QED
        BY <3>1, <4>1
    <3>2. CASE /\ w.at = "done" /\ status' = Status("Failed", ui.path, None)
               /\ busy' = FALSE /\ accepts_progress' = FALSE
      <4>1. /\ status' \in StatusType /\ status'.phase = "Failed"
            /\ status'.path = ui.path /\ status'.points = 0 /\ status'.result = None
        BY <1>1, <3>2 DEF Status, StatusType
      <4>2. /\ status'.phase \notin {"Loading", "Launching"} /\ status'.phase # "Loading"
            /\ ~busy' /\ ~accepts_progress'
            /\ busy' \in BOOLEAN /\ accepts_progress' \in BOOLEAN
        BY <3>2, <4>1
      <4>3. /\ busy' = (status'.phase \in {"Loading", "Launching"})
            /\ accepts_progress' = (status'.phase = "Loading")
        BY <4>2
      <4> QED
        BY <3>2, <4>1, <4>3
    <3> QED
      BY <2>6, <3>1, <3>2
  <2>10. DataOK'
    BY <1>2, <2>8, <2>9 DEF LoadInv, DataOK
  <2>11. TypeOK'
    BY <1>2, <2>7, <2>9, <2>10, TypesFollow DEF LoadInv, TypeOK
  <2>12. OneThread'
    BY <1>2, <2>4, <2>8 DEF OneThread
  <2>13. latest_progress' # None =>
           latest_progress'.generation \in Nat /\ latest_progress'.generation < generation'
    <3>1. latest_progress # None => latest_progress.generation \in Nat
      BY DEF LoadInv, TypeOK, Generation
    <3> QED
      BY <1>2, <2>2, <2>7, <3>1 DEF LoadInv
  <2>14. \A g \in DOMAIN worker' : WorkerSound(worker'[g])
    BY <2>6, <2>8 DEF LoadInv
  <2>15. CurrentSound(worker[generation])'
    <3>1. Len(events') = 0 /\ DOMAIN events' = {}
      BY <1>2, <2>3 DEF LoadInv, DataOK
    <3>2. Stage(worker[generation].at, events, status.phase)'
      BY <2>8, <2>9, <3>1 DEF Stage, Before
    <3>3. status'.points <= w.cloud.read
      <4>1. w.cloud.read \in Nat
        BY DEF WorkerType, Cloud
      <4> QED
        BY <2>9, <4>1
    <3>4. latest_progress' # None => latest_progress'.generation # generation'
      BY <2>7, <2>13
    <3>5. ProgressBehind(worker[generation])'
      BY <2>8, <3>3, <3>4 DEF ProgressBehind
    <3>6. ResultSound(status.result, worker[generation])'
      BY <2>9 DEF ResultSound
    <3>7. (\A i \in DOMAIN events : EventSound(events[i], worker[generation]))'
      BY <3>1
    <3> QED
      BY <2>6, <2>8, <2>9, <3>2, <3>5, <3>6, <3>7 DEF CurrentSound
  <2>16. latest_progress' # None => latest_progress'.generation <= generation'
    BY <2>7, <2>13
  <2> QED
    BY <2>7, <2>9, <2>10, <2>11, <2>12, <2>14, <2>15, <2>16 DEF LoadInv
<1> QED
  BY <1>3, <1>4

-----------------------------------------------------------------------------
(* The invariant holds.                                                    *)

LEMMA InitLoads ==
  ASSUME Init
  PROVE  LoadInv
<1>1. /\ status = Idle /\ busy = FALSE /\ accepts_progress = FALSE /\ generation = 0
      /\ latest_progress = None /\ events = <<>> /\ worker = <<>>
      /\ ui = [at |-> "idle", path |-> NoPath] /\ rewrites = 0
      /\ DOMAIN content = Paths /\ \A p \in Paths : content[p] \in Files(p)
  BY DEF Init
<1>2. /\ Idle \in StatusType /\ Idle.phase = "Idle" /\ Idle.path = NoPath
      /\ Idle.points = 0 /\ Idle.total = 0 /\ Idle.result = None
  BY DEF Idle, StatusType
<1>3. DataOK
  <2>1. worker \in Seq(WorkerType) /\ events \in Seq(EventType)
    BY <1>1
  <2> QED
    BY <1>1, <1>2, <2>1 DEF DataOK
<1>4. Len(worker) = 0 /\ DOMAIN worker = {} /\ DOMAIN events = {} /\ DOMAIN worker = 1 .. Len(worker)
  BY <1>1
<1>5. TypeOK
  <2>1. /\ busy = (status.phase \in {"Loading", "Launching"})
        /\ accepts_progress = (status.phase = "Loading")
    <3>1. /\ status.phase \notin {"Loading", "Launching"} /\ status.phase # "Loading"
          /\ ~busy /\ ~accepts_progress
          /\ busy \in BOOLEAN /\ accepts_progress \in BOOLEAN
      BY <1>1, <1>2
    <3> QED
      BY <3>1
  <2>2. generation \in 0 .. MaxStarts /\ rewrites \in 0 .. MaxRewrites
    BY <1>1, StartsAssumption
  <2>3. /\ status.phase \in {"Idle", "Loading", "Launching", "Ready", "Failed"}
        /\ status.path \in Paths \cup {NoPath}
        /\ status.points \in Nat /\ status.total \in Nat
        /\ status.result \in Result \cup {None}
    BY <1>1, <1>2
  <2>4. /\ ui.at \in {"idle", "take", "drain1", "drain2", "decide"}
        /\ ui.path \in Paths \cup {NoPath}
    BY <1>1
  <2> QED
    BY <1>1, <1>4, <2>1, <2>2, <2>3, <2>4 DEF TypeOK
<1>6. OneThread
  BY <1>1, <1>4 DEF OneThread
<1> QED
  BY <1>1, <1>2, <1>3, <1>4, <1>5, <1>6 DEF LoadInv

LEMMA NextLoads ==
  ASSUME LoadInv, [Next]_vars
  PROVE  LoadInv'
<1>1. CASE BeginPoll
  BY <1>1, BeginPollKeeps
<1>2. CASE TakeProgress
  BY <1>2, TakeProgressKeeps
<1>3. CASE DrainEvent
  BY <1>3, DrainEventKeeps
<1>4. CASE Start
  BY <1>4, StartKeeps
<1>5. ASSUME NEW g \in DOMAIN worker, Work(g)
      PROVE  LoadInv'
  BY <1>5, ReadHeaderKeeps, OpenRecordsKeeps, LockSlotKeeps, StoreProgressKeeps, ReadRecordKeeps,
     SendRefusedKeeps, SendLaunchingKeeps, LaunchKeeps, SendLastKeeps DEF Work
<1>6. CASE Rewrite
  BY <1>6, RewriteKeeps
<1>7. CASE UNCHANGED vars
  <2>1. UNCHANGED <<runtime, latest_progress, events, worker>> /\ UNCHANGED <<ui, content, rewrites>>
    BY <1>7 DEF vars
  <2> QED
    BY <2>1, ElsewhereKeeps DEF LoadInv, TypeOK, DataOK, OneThread
<1> QED
  BY <1>1, <1>2, <1>3, <1>4, <1>5, <1>6, <1>7 DEF Next, UserInterface

LEMMA LoadsInvariant == Spec => []LoadInv
<1>1. Init => LoadInv
  BY InitLoads
<1>2. LoadInv /\ [Next]_vars => LoadInv'
  BY NextLoads
<1> QED
  BY <1>1, <1>2, PTL DEF Spec

-----------------------------------------------------------------------------
(* The properties.                                                         *)

(* One load at a time, and no worker ever waits for the screen: start()    *)
(* refuses a file while the viewer is busy (pcd_viewer.rs), the viewer is  *)
(* busy until the last event of the worker has been taken, and by then the *)
(* channel has never held more than the two events there is room for.      *)
THEOREM LoadsApartCorrect == Spec => []LoadsApart
<1>1. ASSUME LoadInv PROVE OneLoadAtATime
  <2>1. ASSUME ~busy PROVE events = <<>> /\ \A g \in DOMAIN worker : Finished(g)
    <3>1. status.phase \notin {"Loading", "Launching"}
      BY <1>1, <2>1 DEF LoadInv, TypeOK
    <3>2. CASE generation = 0
      <4>1. events = <<>> /\ DOMAIN worker = {}
        BY <1>1, <3>2 DEF LoadInv, OneThread, DataOK
      <4> QED
        BY <4>1
    <3>3. CASE generation > 0
      <4>1. Len(events) = 0 /\ worker[generation].at = "done"
        BY <1>1, <3>1, <3>3, LastWorker DEF CurrentSound, Stage
      <4>2. events = <<>>
        BY <1>1, <4>1 DEF LoadInv, DataOK
      <4> QED
        BY <1>1, <4>1, <4>2 DEF LoadInv, OneThread, Finished
    <3> QED
      BY <1>1, <3>2, <3>3 DEF LoadInv, TypeOK
  <2> QED
    BY <2>1 DEF OneLoadAtATime
<1>2. ASSUME LoadInv PROVE SendNeverWaits
  <2>1. ASSUME NEW g \in DOMAIN worker, NEW at \in {"refused", "loaded", "launched", "failed"},
               at = worker[g].at
        PROVE  Len(events) < Room
    <3>1. worker[g].at # "done"
      BY <2>1
    <3>2. Stage(worker[g].at, events, status.phase)
      BY <1>2, <3>1, CurrentWorker DEF CurrentSound
    <3> QED
      BY <2>1, <3>2 DEF Stage, Room
  <2> QED
    BY <2>1 DEF SendNeverWaits
<1>3. LoadInv => LoadsApart
  BY <1>1, <1>2 DEF LoadsApart, LoadInv
<1> QED
  BY <1>3, LoadsInvariant, PTL

(* The status is about the file of the last accepted start, says Ready     *)
(* only when the viewer took the points, and its counts are those of the   *)
(* records this load has read, whatever was rewritten meanwhile and        *)
(* whatever the slot still holds of an earlier load.                       *)
THEOREM StatusCorrect == Spec => []StatusIsTrue
<1>1. ASSUME LoadInv PROVE StatusIsTrue
  <2>1. CASE generation = 0
    BY <1>1, <2>1 DEF LoadInv, Idle, StatusIsTrue
  <2>2. CASE generation > 0
    BY <1>1, <2>2, LastWorker DEF CurrentSound, ResultSound, StatusIsTrue
  <2> QED
    BY <1>1, <2>1, <2>2 DEF LoadInv, TypeOK
<1> QED
  BY <1>1, LoadsInvariant, PTL

(* What a step shows of the job: the steps that touch the status.          *)
LEMMA JobStep ==
  ASSUME LoadInv, LoadInv', [Next]_vars
  PROVE  [Job!Next]_(Job!jobVars)
<1>1. CASE UNCHANGED status
  BY <1>1 DEF Job!jobVars
<1>2. CASE TakeProgress /\ status' # status
  <2>1. /\ latest_progress # None /\ latest_progress.generation = generation
        /\ status.phase = "Loading"
        /\ status'.phase = "Loading" /\ status'.path = latest_progress.path
        /\ status'.points = latest_progress.points
    BY <1>2 DEF TakeProgress, MayTakeProgress, ProgressIsCurrent, LoadInv, TypeOK
  <2>2. /\ latest_progress.generation \in Generation /\ latest_progress.points \in Nat
        /\ status.points \in Nat
    BY <2>1 DEF LoadInv, TypeOK
  <2>3. CurrentSound(worker[generation])
    BY <2>1, <2>2, LastWorker DEF Generation
  <2>4. status'.path = status.path /\ status.points <= status'.points
    BY <2>1, <2>3 DEF CurrentSound, ProgressBehind
  <2>5. CASE status'.points = status.points
    BY <2>1, <2>4, <2>5 DEF Job!jobVars
  <2>6. CASE status'.points # status.points
    BY <2>1, <2>2, <2>4, <2>6 DEF Job!Next, Job!Progress
  <2> QED
    BY <2>5, <2>6
<1>3. CASE DrainEvent /\ status' # status
  <2> DEFINE event == Head(events)
  <2>1. /\ events # <<>> /\ status' = Status(event.kind, event.path, event.result)
    BY <1>3 DEF DrainEvent, runtime
  <2>2. event \in EventType /\ event = events[1] /\ Len(events) > 0 /\ 1 \in DOMAIN events
    BY <2>1 DEF LoadInv, DataOK
  <2>3. generation > 0
    BY <2>1 DEF LoadInv, TypeOK
  <2>4. CurrentSound(worker[generation])
    BY <2>3, LastWorker
  <2>5. /\ status'.phase = event.kind /\ status'.path = event.path /\ status'.points = 0
    BY <2>1 DEF Status
  <2>6. event.path = status.path
    BY <2>2, <2>4 DEF CurrentSound, EventSound
  <2>7. \/ status.phase = "Loading" /\ event.kind \in {"Launching", "Failed"}
        \/ status.phase = "Launching" /\ event.kind \in {"Ready", "Failed"}
    BY <2>2, <2>4 DEF CurrentSound, Stage
  <2> HIDE DEF event
  <2>8. CASE status.phase = "Loading" /\ event.kind = "Launching"
    BY <2>5, <2>6, <2>8 DEF Job!Next, Job!Launch
  <2>9. CASE event.kind = "Failed"
    BY <2>5, <2>6, <2>7, <2>9 DEF Job!Next, Job!Finish, Job!Under
  <2>10. CASE status.phase = "Launching" /\ event.kind = "Ready"
    BY <2>5, <2>6, <2>10 DEF Job!Next, Job!Finish
  <2> QED
    BY <2>7, <2>8, <2>9, <2>10
<1>4. CASE Start /\ status' # status
  <2>1. ~StartRefused
    BY <1>4 DEF Start, runtime
  <2>2. status.phase \notin {"Loading", "Launching"}
    BY <2>1 DEF StartRefused, LoadInv, TypeOK
  <2>3. ui.path \in Paths
    BY <1>4 DEF Start, LoadInv, OneThread, TypeOK
  <2>4. /\ status'.phase \in {"Loading", "Failed"} /\ status'.path = ui.path
        /\ status'.points = 0
    BY <1>4, <2>1 DEF Start, Status
  <2> QED
    BY <2>2, <2>3, <2>4 DEF Job!Next, Job!Take, Job!Under
<1>5. CASE ~(TakeProgress \/ DrainEvent \/ Start)
  <2>1. UNCHANGED status
    BY <1>5 DEF Next, UserInterface, BeginPoll, Work, ReadHeader, OpenRecords, LockSlot, StoreProgress,
       ReadRecord, SendRefused, SendLaunching, Launch, SendLast, Rewrite, runtime, vars
  <2> QED
    BY <1>1, <2>1
<1> QED
  BY <1>1, <1>2, <1>3, <1>4, <1>5

(* The viewer implements PcdLoadJob: one file after another, phases that   *)
(* only go forward, a count that only grows, and Ready only from           *)
(* Launching.  With the slot and the channel in between this rests on the  *)
(* progress on the screen being behind that in the slot.                   *)
THEOREM JobRefined == Spec => ImplementsJob
<1>1. Init => Job!Init
  BY DEF Init, Idle, Job!Init
<1>2. LoadInv /\ LoadInv' /\ [Next]_vars => [Job!Next]_(Job!jobVars)
  BY JobStep
<1> QED
  BY <1>1, <1>2, LoadsInvariant, PTL DEF Spec, ImplementsJob, Job!Spec

-----------------------------------------------------------------------------
(* Colours.                                                                *)

\* The values that count for the range.
Finite(values) == {values[i] : i \in DOMAIN values} \ {NotFinite}

Lowest(lo, V) == lo \in V /\ \A v \in V : lo <= v
Highest(hi, V) == hi \in V /\ \A v \in V : v <= hi

\* That a finite set has ends is carried along with the values: there is no
\* induction over a set here but that of the steps of the worker.
Spanned(values) ==
  Finite(values) = {} \/ \E lo, hi \in Int : Lowest(lo, Finite(values)) /\ Highest(hi, Finite(values))

\* Kept are the records before n with finite coordinates, in their order.
Listed(positions, n, records) ==
  /\ {positions[i] : i \in DOMAIN positions} = {k \in 1 .. n : records[k].finite}
  /\ \A i, j \in DOMAIN positions : i < j => positions[i] < positions[j]

\* The values belong to the points.
Shows(values, positions, records) ==
  /\ Len(values) = Len(positions)
  /\ \A i \in DOMAIN values : values[i] = records[positions[i]].value

\* What load_pcd has collected so far.
Collected(cloud, records, fields) ==
  /\ Listed(cloud.positions, cloud.read, records)
  /\ IF FromRange(fields)
     THEN Shows(cloud.fallback, cloud.positions, records) /\ Spanned(cloud.fallback)
     ELSE Shows(cloud.colours, cloud.positions, records)

(* One more value moves an end or leaves both where they are.              *)
LEMMA SpannedAppend ==
  ASSUME NEW values \in Seq(Int), NEW v \in Int, Spanned(values)
  PROVE  Spanned(Append(values, v))
<1> DEFINE V == Finite(values)
           W == Finite(Append(values, v))
<1>1. V \subseteq Int /\ W = V \cup ({v} \ {NotFinite})
  <2>1. {Append(values, v)[i] : i \in DOMAIN Append(values, v)} = {values[i] : i \in DOMAIN values} \cup {v}
    <3> DEFINE more == Append(values, v)
               len == Len(values)
    <3>1. /\ len \in Nat /\ DOMAIN values = 1 .. len /\ DOMAIN more = 1 .. len + 1
          /\ more[len + 1] = v
          /\ \A i \in 1 .. len : more[i] = values[i]
      OBVIOUS
    <3> HIDE DEF more, len
    <3>2. 1 .. len + 1 = (1 .. len) \cup {len + 1}
      BY <3>1
    <3>3. {more[i] : i \in DOMAIN more} = {values[i] : i \in DOMAIN values} \cup {v}
      BY <3>1, <3>2
    <3> QED
      BY <3>3 DEF more
  <2>2. \A i \in DOMAIN values : values[i] \in Int
    OBVIOUS
  <2> HIDE DEF V, W
  <2>3. V \subseteq Int
    BY <2>2 DEF V, Finite
  <2>4. W = ({values[i] : i \in DOMAIN values} \cup {v}) \ {NotFinite}
    BY <2>1 DEF W, Finite
  <2>5. V = {values[i] : i \in DOMAIN values} \ {NotFinite}
    BY DEF V, Finite
  <2> QED
    BY <2>3, <2>4, <2>5
<1> HIDE DEF V, W
<1>2. CASE v = NotFinite
  BY <1>1, <1>2 DEF Spanned, V, W
<1>3. CASE v # NotFinite /\ V = {}
  <2>1. W = {v}
    BY <1>1, <1>3
  <2>2. Lowest(v, W) /\ Highest(v, W)
    BY <2>1 DEF Lowest, Highest
  <2> QED
    BY <2>2 DEF Spanned, W
<1>4. CASE v # NotFinite /\ V # {}
  <2>1. PICK lo, hi \in Int : Lowest(lo, V) /\ Highest(hi, V)
    BY <1>4 DEF Spanned, V
  <2>2. W = V \cup {v}
    BY <1>1, <1>4
  <2>3. Lowest(IF v < lo THEN v ELSE lo, W)
    BY <1>1, <2>1, <2>2 DEF Lowest
  <2>4. Highest(IF hi < v THEN v ELSE hi, W)
    BY <1>1, <2>1, <2>2 DEF Highest
  <2> QED
    BY <2>1, <2>3, <2>4 DEF Spanned, W
<1> QED
  BY <1>2, <1>3, <1>4

(* A record that is kept comes behind those before it.                     *)
LEMMA ListedAppend ==
  ASSUME NEW positions \in Seq(Nat), NEW n \in Nat, NEW records,
         Listed(positions, n, records), records[n + 1].finite
  PROVE  Listed(Append(positions, n + 1), n + 1, records)
<1> DEFINE more == Append(positions, n + 1)
           len == Len(positions)
<1>1. /\ len \in Nat /\ DOMAIN positions = 1 .. len /\ DOMAIN more = 1 .. len + 1
      /\ more[len + 1] = n + 1
      /\ \A i \in 1 .. len : more[i] = positions[i] /\ positions[i] \in Nat
  OBVIOUS
<1>2. \A i \in 1 .. len : positions[i] \in 1 .. n
  BY <1>1 DEF Listed
<1> HIDE DEF more, len
<1>3. 1 .. len + 1 = (1 .. len) \cup {len + 1}
  BY <1>1
<1>4. {more[i] : i \in DOMAIN more} = {positions[i] : i \in DOMAIN positions} \cup {n + 1}
  BY <1>1, <1>3
<1>5. {k \in 1 .. n + 1 : records[k].finite} = {k \in 1 .. n : records[k].finite} \cup {n + 1}
  <2>1. 1 .. n + 1 = (1 .. n) \cup {n + 1}
    OBVIOUS
  <2> QED
    BY <2>1
<1>6. ASSUME NEW i \in DOMAIN more, NEW j \in DOMAIN more, i < j PROVE more[i] < more[j]
  <2>1. i \in 1 .. len
    BY <1>1, <1>6
  <2>2. CASE j \in 1 .. len
    BY <1>1, <1>6, <2>1, <2>2 DEF Listed
  <2>3. CASE j = len + 1
    BY <1>1, <1>2, <2>1, <2>3
  <2>4. j \in (1 .. len) \cup {len + 1}
    BY <1>1, <1>3
  <2> QED
    BY <2>2, <2>3, <2>4
<1>7. {more[i] : i \in DOMAIN more} = {k \in 1 .. n + 1 : records[k].finite}
  BY <1>4, <1>5 DEF Listed
<1> QED
  BY <1>6, <1>7 DEF Listed, more

LEMMA ListedSkip ==
  ASSUME NEW positions, NEW n \in Nat, NEW records,
         Listed(positions, n, records), ~records[n + 1].finite
  PROVE  Listed(positions, n + 1, records)
<1>1. 1 .. n + 1 = (1 .. n) \cup {n + 1}
  OBVIOUS
<1>2. {k \in 1 .. n + 1 : records[k].finite} = {k \in 1 .. n : records[k].finite}
  BY <1>1
<1> QED
  BY <1>2 DEF Listed

LEMMA ShowsAppend ==
  ASSUME NEW S, NEW values \in Seq(S), NEW positions \in Seq(Nat), NEW n \in Nat, NEW records,
         records[n].value \in S, Shows(values, positions, records)
  PROVE  Shows(Append(values, records[n].value), Append(positions, n), records)
<1> DEFINE len == Len(values)
<1>1. len \in Nat /\ len = Len(positions) /\ DOMAIN values = 1 .. len /\ DOMAIN positions = 1 .. len
  BY DEF Shows
<1>2. /\ DOMAIN Append(values, records[n].value) = 1 .. len + 1
      /\ Len(Append(values, records[n].value)) = len + 1
      /\ Append(values, records[n].value)[len + 1] = records[n].value
      /\ \A i \in 1 .. len : Append(values, records[n].value)[i] = values[i]
  BY <1>1
<1>3. /\ Len(Append(positions, n)) = len + 1
      /\ Append(positions, n)[len + 1] = n
      /\ \A i \in 1 .. len : Append(positions, n)[i] = positions[i]
  BY <1>1
<1> HIDE DEF len
<1>4. \A i \in 1 .. len + 1 : i \in 1 .. len \/ i = len + 1
  BY <1>1
<1>5. \A i \in 1 .. len : values[i] = records[positions[i]].value
  BY <1>1 DEF Shows
<1> QED
  BY <1>2, <1>3, <1>4, <1>5 DEF Shows

-----------------------------------------------------------------------------
(* Shades.                                                                 *)

LEMMA MinIs ==
  ASSUME NEW V \in SUBSET Int, NEW lo, Lowest(lo, V)
  PROVE  Min(V) = lo
<1>1. \E m \in V : \A v \in V : m <= v
  BY DEF Lowest
<1> DEFINE m == Min(V)
<1>2. m \in V /\ \A v \in V : m <= v
  BY <1>1 DEF Min
<1> HIDE DEF m
<1>3. lo \in V /\ m <= lo /\ lo <= m /\ m \in Int /\ lo \in Int
  BY <1>2 DEF Lowest
<1> QED
  BY <1>3 DEF m

LEMMA MaxIs ==
  ASSUME NEW V \in SUBSET Int, NEW hi, Highest(hi, V)
  PROVE  Max(V) = hi
<1>1. \E m \in V : \A v \in V : m >= v
  BY DEF Highest
<1> DEFINE m == Max(V)
<1>2. m \in V /\ \A v \in V : m >= v
  BY <1>1 DEF Max
<1> HIDE DEF m
<1>3. hi \in V /\ m >= hi /\ hi >= m /\ m \in Int /\ hi \in Int
  BY <1>2 DEF Highest
<1> QED
  BY <1>3 DEF m

(* Integer division by a number that the solver does not know.             *)
LEMMA Division ==
  ASSUME NEW a \in Int, NEW b \in Int, b > 0
  PROVE  a \div b \in Int /\ b * (a \div b) <= a /\ a < b * (a \div b) + b
  BY SMT

LEMMA TimesOrder ==
  ASSUME NEW b \in Int, b > 0, NEW p \in Int, NEW q \in Int, p <= q
  PROVE  b * p <= b * q
  BY SMT

LEMMA DivisionOrder ==
  ASSUME NEW a \in Int, NEW c \in Int, NEW b \in Int, b > 0, a <= c
  PROVE  a \div b <= c \div b
<1> DEFINE p == a \div b
           q == c \div b
<1>1. p \in Int /\ q \in Int /\ b * p <= a /\ c < b * q + b
  BY Division
<1> HIDE DEF p, q
<1>2. ASSUME q + 1 <= p PROVE FALSE
  <2>1. b * (q + 1) <= b * p
    BY <1>1, <1>2, TimesOrder
  <2>2. b * (q + 1) = b * q + b
    BY <1>1, SMT
  <2>3. b * p \in Int /\ b * q \in Int
    BY <1>1
  <2> QED
    BY <1>1, <2>1, <2>2, <2>3
<1> QED
  BY <1>1, <1>2 DEF p, q

(* The shade of a value between the ends of the range.                     *)
LEMMA ShadeIs ==
  ASSUME NEW values \in Seq(Int), NEW lo \in Int, NEW hi \in Int,
         Lowest(lo, Finite(values)), Highest(hi, Finite(values)), NEW v \in Finite(values)
  PROVE  Shade(v, values) = IF hi - lo = 0 THEN 128
                            ELSE (2 * 255 * (v - lo) + (hi - lo)) \div (2 * (hi - lo))
<1>1. Finite(values) \in SUBSET Int
  BY DEF Finite
<1>2. Min(Finite(values)) = lo /\ Max(Finite(values)) = hi /\ v # NotFinite
  BY <1>1, MinIs, MaxIs DEF Finite
<1> QED
  BY <1>2 DEF Shade, Finite

LEMMA ShadeOrder ==
  ASSUME NEW values \in Seq(Int), NEW lo \in Int, NEW hi \in Int,
         Lowest(lo, Finite(values)), Highest(hi, Finite(values)),
         NEW u \in Finite(values), NEW v \in Finite(values), u <= v
  PROVE  Shade(u, values) <= Shade(v, values)
<1>1. u \in Int /\ v \in Int /\ lo <= u /\ v <= hi
  BY DEF Finite, Lowest, Highest
<1>2. CASE hi - lo = 0
  BY <1>2, ShadeIs
<1>3. CASE hi - lo # 0
  <2> DEFINE a == 2 * 255 * (u - lo) + (hi - lo)
             c == 2 * 255 * (v - lo) + (hi - lo)
             b == 2 * (hi - lo)
  <2>1. a \in Int /\ c \in Int /\ b \in Int /\ b > 0 /\ a <= c
    BY <1>1, <1>3
  <2>2. Shade(u, values) = a \div b /\ Shade(v, values) = c \div b
    BY <1>3, ShadeIs
  <2> HIDE DEF a, b, c
  <2> QED
    BY <2>1, <2>2, DivisionOrder
<1> QED
  BY <1>2, <1>3

LEMMA ShadeEnds ==
  ASSUME NEW values \in Seq(Int), NEW lo \in Int, NEW hi \in Int,
         Lowest(lo, Finite(values)), Highest(hi, Finite(values)), lo # hi
  PROVE  Shade(lo, values) = 0 /\ Shade(hi, values) = 255
<1> DEFINE r == hi - lo
<1>1. lo \in Finite(values) /\ hi \in Finite(values) /\ r \in Int /\ r > 0
  BY DEF Lowest, Highest
<1>2. Shade(lo, values) = r \div (2 * r) /\ Shade(hi, values) = (511 * r) \div (2 * r)
  <2>1. 2 * 255 * (lo - lo) + (hi - lo) = r /\ 2 * 255 * (hi - lo) + (hi - lo) = 511 * r
    OBVIOUS
  <2> QED
    BY <1>1, <2>1, ShadeIs
<1> HIDE DEF r
<1>3. r \div (2 * r) = 0
  <2> DEFINE q == r \div (2 * r)
  <2>1. q \in Int /\ (2 * r) * q <= r /\ r < (2 * r) * q + 2 * r
    BY <1>1, Division
  <2> HIDE DEF q
  <2>2. ASSUME 1 <= q PROVE FALSE
    <3>1. (2 * r) * 1 <= (2 * r) * q
      BY <1>1, <2>1, <2>2, TimesOrder
    <3> QED
      BY <1>1, <2>1, <3>1
  <2>3. ASSUME q <= -1 PROVE FALSE
    <3>1. (2 * r) * q <= (2 * r) * (-1)
      BY <1>1, <2>1, <2>3, TimesOrder
    <3> QED
      BY <1>1, <2>1, <3>1
  <2> QED
    BY <2>1, <2>2, <2>3 DEF q
<1>4. (511 * r) \div (2 * r) = 255
  <2> DEFINE q == (511 * r) \div (2 * r)
  <2>1. q \in Int /\ (2 * r) * q <= 511 * r /\ 511 * r < (2 * r) * q + 2 * r
    BY <1>1, Division
  <2> HIDE DEF q
  <2>2. ASSUME 256 <= q PROVE FALSE
    <3>1. (2 * r) * 256 <= (2 * r) * q
      BY <1>1, <2>1, <2>2, TimesOrder
    <3> QED
      BY <1>1, <2>1, <3>1
  <2>3. ASSUME q <= 254 PROVE FALSE
    <3>1. (2 * r) * q <= (2 * r) * 254
      BY <1>1, <2>1, <2>3, TimesOrder
    <3> QED
      BY <1>1, <2>1, <3>1
  <2> QED
    BY <2>1, <2>2, <2>3 DEF q
<1> QED
  BY <1>2, <1>3, <1>4

(* A record that is added keeps what has been collected in order.          *)
LEMMA AddRecordCollects ==
  ASSUME NEW cloud \in Cloud, NEW records \in Seq(Record), NEW fields,
         cloud.read < Len(records), Collected(cloud, records, fields)
  PROVE  Collected(AddRecord(cloud, records[cloud.read + 1], fields), records, fields)
<1> DEFINE n == cloud.read
           record == records[n + 1]
           next == AddRecord(cloud, record, fields)
<1> SUFFICES Collected(next, records, fields)
  OBVIOUS
<1>1. /\ n \in Nat /\ cloud.positions \in Seq(Nat) /\ cloud.colours \in Seq(Colour)
      /\ cloud.fallback \in Seq(Int) /\ n + 1 \in Nat
  BY DEF Cloud
<1>2. record \in Record /\ record.value \in Int /\ record.value \in Colour
  <2>1. n + 1 \in 1 .. Len(records)
    BY <1>1
  <2>2. record \in Record
    BY <2>1
  <2> QED
    BY <2>2 DEF Record, Colour
<1>3. CASE ~record.finite
  <2>1. /\ next.read = n + 1 /\ next.positions = cloud.positions
        /\ next.colours = cloud.colours /\ next.fallback = cloud.fallback
    BY <1>3 DEF AddRecord, Cloud
  <2>2. Listed(cloud.positions, n + 1, records)
    BY <1>1, <1>3, ListedSkip DEF Collected
  <2> HIDE DEF next
  <2> QED
    BY <2>1, <2>2 DEF Collected
<1>4. CASE record.finite /\ FromRange(fields)
  <2>1. /\ next.read = n + 1 /\ next.positions = Append(cloud.positions, n + 1)
        /\ next.fallback = Append(cloud.fallback, record.value)
    BY <1>4 DEF AddRecord, Cloud
  <2>2. Listed(Append(cloud.positions, n + 1), n + 1, records)
    BY <1>1, <1>4, ListedAppend DEF Collected
  <2>3. Shows(Append(cloud.fallback, record.value), Append(cloud.positions, n + 1), records)
    BY <1>1, <1>2, <1>4, ShowsAppend DEF Collected
  <2>4. Spanned(Append(cloud.fallback, record.value))
    BY <1>1, <1>2, <1>4, SpannedAppend DEF Collected
  <2> HIDE DEF next
  <2> QED
    BY <1>4, <2>1, <2>2, <2>3, <2>4 DEF Collected
<1>5. CASE record.finite /\ ~FromRange(fields)
  <2>1. /\ next.read = n + 1 /\ next.positions = Append(cloud.positions, n + 1)
        /\ next.colours = Append(cloud.colours, record.value)
    BY <1>5 DEF AddRecord, Cloud
  <2>2. Listed(Append(cloud.positions, n + 1), n + 1, records)
    BY <1>1, <1>5, ListedAppend DEF Collected
  <2>3. Shows(Append(cloud.colours, record.value), Append(cloud.positions, n + 1), records)
    BY <1>1, <1>2, <1>5, ShowsAppend DEF Collected
  <2> HIDE DEF next
  <2> QED
    BY <1>5, <2>1, <2>2, <2>3 DEF Collected
<1> QED
  BY <1>3, <1>4, <1>5

(* What was collected from all records is painted as it should be.         *)
LEMMA ColouredPaints ==
  ASSUME NEW cloud \in Cloud, NEW records \in Seq(Record), NEW fields,
         cloud.read = Len(records), Collected(cloud, records, fields)
  PROVE  Painted(Coloured(cloud, fields), records, fields)
<1> DEFINE positions == cloud.positions
           values == cloud.fallback
           next == Coloured(cloud, fields)
<1> SUFFICES Painted(next, records, fields)
  OBVIOUS
<1>1. /\ positions \in Seq(Nat) /\ values \in Seq(Int) /\ cloud.colours \in Seq(Colour)
      /\ DOMAIN records = 1 .. Len(records)
  BY DEF Cloud
<1>2. /\ {positions[i] : i \in DOMAIN positions} = {n \in DOMAIN records : records[n].finite}
      /\ \A i, j \in DOMAIN positions : i < j => positions[i] < positions[j]
  BY <1>1 DEF Collected, Listed
<1>3. next.positions = positions
  BY ColouredKeeps
<1>4. CASE ~FromRange(fields)
  <2>1. next.colours = cloud.colours
    BY <1>4 DEF Coloured
  <2>2. Shows(cloud.colours, positions, records)
    BY <1>4 DEF Collected
  <2> HIDE DEF next, positions
  <2> QED
    BY <1>2, <1>3, <1>4, <2>1, <2>2 DEF Painted, Shows
<1>5. CASE FromRange(fields)
  <2> DEFINE colours == [i \in DOMAIN values |-> Shade(values[i], values)]
             finite == {i \in DOMAIN values : values[i] # NotFinite}
  <2>1. next.colours = colours
    BY <1>5 DEF Coloured, Cloud
  <2>2. /\ Len(values) = Len(positions)
        /\ \A i \in DOMAIN values : values[i] = records[positions[i]].value
    BY <1>5 DEF Collected, Shows
  <2>3. DOMAIN colours = DOMAIN values /\ Len(colours) = Len(positions)
    BY <1>1, <2>2
  <2>4. \A i \in finite : values[i] \in Finite(values) /\ colours[i] = Shade(values[i], values)
    BY DEF Finite
  <2>5. ASSUME NEW i \in finite, NEW j \in finite, values[i] <= values[j]
        PROVE  colours[i] <= colours[j]
    <3>1. PICK lo, hi \in Int : Lowest(lo, Finite(values)) /\ Highest(hi, Finite(values))
      BY <1>5, <2>4 DEF Collected, Spanned
    <3> QED
      BY <1>1, <2>4, <2>5, <3>1, ShadeOrder
  <2>6. ASSUME NEW i \in finite, NEW j \in finite, values[i] # values[j]
        PROVE  {0, 255} \subseteq {colours[k] : k \in finite}
    <3>1. PICK lo, hi \in Int : Lowest(lo, Finite(values)) /\ Highest(hi, Finite(values))
      BY <1>5, <2>4 DEF Collected, Spanned
    <3>2. lo # hi
      <4>1. values[i] \in Int /\ values[j] \in Int
        BY <1>1
      <4>2. values[i] \in Finite(values) /\ values[j] \in Finite(values)
        BY <2>4
      <4>3. lo <= values[i] /\ values[i] <= hi /\ lo <= values[j] /\ values[j] <= hi
        BY <3>1, <4>2 DEF Lowest, Highest
      <4> QED
        BY <2>6, <3>1, <4>1, <4>3
    <3>3. Shade(lo, values) = 0 /\ Shade(hi, values) = 255
      BY <1>1, <3>1, <3>2, ShadeEnds
    <3>4. (\E k \in finite : values[k] = lo) /\ (\E k \in finite : values[k] = hi)
      BY <3>1 DEF Lowest, Highest, Finite
    <3> QED
      BY <2>4, <3>3, <3>4
  <2>7. \A i \in DOMAIN colours : records[positions[i]].value = values[i]
    BY <2>2
  <2>8. {i \in DOMAIN colours : records[positions[i]].value # NotFinite} = finite
    BY <2>3, <2>7
  <2> HIDE DEF next, positions, values, colours
  <2>9. \A i, j \in finite : records[positions[i]].value <= records[positions[j]].value
          => colours[i] <= colours[j]
    BY <2>3, <2>5, <2>7
  <2>10. (\E i, j \in finite : records[positions[i]].value # records[positions[j]].value)
           => {0, 255} \subseteq {colours[i] : i \in finite}
    BY <2>3, <2>6, <2>7
  <2> HIDE DEF finite
  <2> DEFINE shown == {k \in DOMAIN next.colours : records[next.positions[k]].value # NotFinite}
  <2>11. shown = finite
    BY <1>3, <2>1, <2>8
  <2> HIDE DEF shown
  <2>12. \A i, j \in shown :
           records[next.positions[i]].value <= records[next.positions[j]].value
             => next.colours[i] <= next.colours[j]
    BY <1>3, <2>1, <2>9, <2>11
  <2>13. (\E i, j \in shown : records[next.positions[i]].value # records[next.positions[j]].value)
           => {0, 255} \subseteq {next.colours[i] : i \in shown}
    BY <1>3, <2>1, <2>10, <2>11
  <2>14. Len(next.colours) = Len(next.positions)
    BY <1>3, <2>1, <2>3
  <2> QED
    BY <1>2, <1>3, <1>5, <2>12, <2>13, <2>14 DEF Painted, shown
<1> QED
  BY <1>4, <1>5

-----------------------------------------------------------------------------
(* The colours of every worker.                                            *)

ColourSound(w) ==
  /\ w.at \in {"starting", "reopening"} => w.cloud = EmptyCloud
  /\ w.at \in {"reporting", "storing", "reading"} => Collected(w.cloud, w.records, w.header.fields)
  /\ w.at \in {"loaded", "launching", "launched"} => Painted(w.cloud, w.records, w.header.fields)

ColourInv == \A g \in DOMAIN worker : ColourSound(worker[g])

(* Nothing has been read of a file that is opened.                         *)
LEMMA EmptyCollected ==
  ASSUME NEW records, NEW fields
  PROVE  Collected(EmptyCloud, records, fields)
<1>1. 1 .. 0 = {}
  OBVIOUS
<1>2. Listed(<<>>, 0, records)
  BY <1>1 DEF Listed
<1>3. Shows(<<>>, <<>>, records) /\ Finite(<<>>) = {}
  BY DEF Shows, Finite
<1> QED
  BY <1>2, <1>3 DEF Collected, EmptyCloud, Spanned

(* A worker whose cloud, records and header stay keeps its colours where   *)
(* they are, or leaves the places at which something is said about them.   *)
LEMMA PlaceKeepsColours ==
  ASSUME LoadInv, ColourInv, NEW g \in DOMAIN worker, worker[g].at # "done",
         NEW place \in Places, Goto(g, place),
         \/ place \in {"refused", "failed", "done"}
         \/ worker[g].at \in {"reporting", "storing"} /\ place \in {"storing", "reading"}
         \/ worker[g].at = "loaded" /\ place = "launching"
  PROVE  ColourInv'
<1> DEFINE w == [worker[g] EXCEPT !.at = place]
<1>1. /\ w \in WorkerType /\ worker' = [worker EXCEPT ![g] = w] /\ w.at = place
      /\ w.header = worker[g].header /\ w.records = worker[g].records
      /\ w.cloud = worker[g].cloud
  BY GotoPlace
<1>2. ColourSound(worker[g])
  BY DEF ColourInv
<1> HIDE DEF w
<1>3. ColourSound(w)
  BY <1>1, <1>2 DEF ColourSound
<1>4. worker \in Seq(WorkerType)
  BY DEF LoadInv, DataOK
<1>5. DOMAIN worker' = DOMAIN worker /\ worker'[g] = w
      /\ \A h \in DOMAIN worker : h # g => worker'[h] = worker[h]
  BY <1>1, <1>4
<1> QED
  BY <1>3, <1>5 DEF ColourInv

(* The same for a step that changes more of the worker than its place.     *)
LEMMA WorkerKeepsColours ==
  ASSUME LoadInv, ColourInv, NEW g \in DOMAIN worker, NEW w,
         worker' = [worker EXCEPT ![g] = w], ColourSound(w)
  PROVE  ColourInv'
<1>1. worker \in Seq(WorkerType)
  BY DEF LoadInv, DataOK
<1>2. DOMAIN worker' = DOMAIN worker /\ worker'[g] = w
      /\ \A h \in DOMAIN worker : h # g => worker'[h] = worker[h]
  BY <1>1
<1> QED
  BY <1>2 DEF ColourInv

LEMMA ReadRecordColours ==
  ASSUME LoadInv, ColourInv, NEW g \in DOMAIN worker, ReadRecord(g)
  PROVE  ColourInv'
<1> DEFINE fields == worker[g].header.fields
           cloud == worker[g].cloud
           records == worker[g].records
           record == records[cloud.read + 1]
<1>1. worker[g].at = "reading" /\ worker[g].at # "done"
  BY DEF ReadRecord
<1>2. worker[g] \in WorkerType /\ WorkerSound(worker[g])
  BY <1>1, CurrentWorker
<1>3. cloud \in Cloud /\ records \in Seq(Record)
  BY <1>2 DEF WorkerType
<1>4. Collected(cloud, records, fields)
  BY <1>1 DEF ColourInv, ColourSound
<1>5. CASE /\ cloud.read = Len(records)
           /\ worker' = [worker EXCEPT ![g].cloud = Coloured(cloud, fields), ![g].at = "loaded"]
  <2> DEFINE w == [worker[g] EXCEPT !.cloud = Coloured(cloud, fields), !.at = "loaded"]
  <2>1. worker' = [worker EXCEPT ![g] = w]
    BY <1>5
  <2>2. Painted(Coloured(cloud, fields), records, fields)
    BY <1>3, <1>4, <1>5, ColouredPaints
  <2>3. /\ w.at = "loaded" /\ w.header = worker[g].header
        /\ w.records = records /\ w.cloud = Coloured(cloud, fields)
    BY <1>2 DEF WorkerType
  <2> HIDE DEF w
  <2>4. ColourSound(w)
    BY <2>2, <2>3 DEF ColourSound
  <2> QED
    BY <2>1, <2>4, WorkerKeepsColours
<1>6. CASE cloud.read # Len(records) /\ RecordUsable(record, fields, worker[g].found)
  <2> DEFINE added == AddRecord(cloud, record, fields)
             w == [worker[g] EXCEPT !.cloud = added, !.at = "reporting"]
  <2>1. worker' = [worker EXCEPT ![g] = w]
    BY <1>6 DEF ReadRecord
  <2>2. cloud.read < Len(records)
    <3>1. cloud.read \in Nat /\ Len(records) \in Nat /\ cloud.read <= Len(records)
      BY <1>2, <1>3 DEF WorkerSound, Cloud
    <3> QED
      BY <1>6, <3>1
  <2>3. Collected(added, records, fields)
    BY <1>3, <1>4, <2>2, AddRecordCollects
  <2> HIDE DEF added
  <2>4. /\ w.at = "reporting" /\ w.header = worker[g].header
        /\ w.records = records /\ w.cloud = added
    BY <1>2 DEF WorkerType
  <2> HIDE DEF w
  <2>5. ColourSound(w)
    BY <2>3, <2>4 DEF ColourSound
  <2> QED
    BY <2>1, <2>5, WorkerKeepsColours
<1>7. CASE Goto(g, "refused")
  BY <1>1, <1>7, PlaceKeepsColours DEF Places
<1> QED
  BY <1>5, <1>6, <1>7 DEF ReadRecord

LEMMA OpeningColours ==
  ASSUME LoadInv, ColourInv, NEW g \in DOMAIN worker, ReadHeader(g) \/ OpenRecords(g)
  PROVE  ColourInv'
<1> DEFINE file == content[worker[g].path]
<1>1. worker[g].at \in {"starting", "reopening"} /\ worker[g].at # "done"
  BY DEF ReadHeader, OpenRecords
<1>2. worker[g] \in WorkerType /\ worker[g].cloud = EmptyCloud
  BY <1>1, CurrentWorker DEF ColourInv, ColourSound
<1>3. CASE Goto(g, "refused")
  BY <1>1, <1>3, PlaceKeepsColours DEF Places
<1>4. CASE worker' = [worker EXCEPT ![g].header = file, ![g].at = "reopening"]
  <2> DEFINE w == [worker[g] EXCEPT !.header = file, !.at = "reopening"]
  <2>1. worker' = [worker EXCEPT ![g] = w]
    BY <1>4
  <2>2. w.at = "reopening" /\ w.cloud = EmptyCloud
    BY <1>2 DEF WorkerType
  <2> HIDE DEF w
  <2>3. ColourSound(w)
    BY <2>2 DEF ColourSound
  <2> QED
    BY <2>1, <2>3, WorkerKeepsColours
<1>5. ASSUME NEW records,
             worker' = [worker EXCEPT ![g].found = file.fields, ![g].records = records,
                                      ![g].at = "reporting"]
      PROVE  ColourInv'
  <2> DEFINE w == [worker[g] EXCEPT !.found = file.fields, !.records = records,
                                    !.at = "reporting"]
  <2>1. worker' = [worker EXCEPT ![g] = w]
    BY <1>5
  <2>2. w.at = "reporting" /\ w.cloud = EmptyCloud
    BY <1>2 DEF WorkerType
  <2> HIDE DEF w
  <2>3. ColourSound(w)
    BY <2>2, EmptyCollected DEF ColourSound
  <2> QED
    BY <2>1, <2>3, WorkerKeepsColours
<1> QED
  BY <1>3, <1>4, <1>5 DEF ReadHeader, OpenRecords

LEMMA LaunchColours ==
  ASSUME LoadInv, ColourInv, NEW g \in DOMAIN worker, Launch(g)
  PROVE  ColourInv'
<1>1. worker[g].at = "launching" /\ worker[g].at # "done"
  BY DEF Launch
<1>2. worker[g] \in WorkerType /\ ColourSound(worker[g])
  BY <1>1, CurrentWorker DEF ColourInv
<1>3. CASE Goto(g, "failed")
  BY <1>1, <1>3, PlaceKeepsColours DEF Places
<1>4. CASE worker' = [worker EXCEPT ![g].at = "launched", ![g].launched = TRUE]
  <2> DEFINE w == [worker[g] EXCEPT !.at = "launched", !.launched = TRUE]
  <2>1. worker' = [worker EXCEPT ![g] = w]
    BY <1>4
  <2>2. /\ w.at = "launched" /\ w.header = worker[g].header
        /\ w.records = worker[g].records /\ w.cloud = worker[g].cloud
    BY <1>2 DEF WorkerType
  <2> HIDE DEF w
  <2>3. ColourSound(w)
    BY <1>1, <1>2, <2>2 DEF ColourSound
  <2> QED
    BY <2>1, <2>3, WorkerKeepsColours
<1> QED
  BY <1>3, <1>4 DEF Launch

LEMMA StartColours ==
  ASSUME LoadInv, ColourInv, Start
  PROVE  ColourInv'
<1>1. CASE UNCHANGED worker
  BY <1>1 DEF ColourInv
<1>2. ASSUME NEW w, w = NewWorker(ui.path) \/ w = [NewWorker(ui.path) EXCEPT !.at = "done"],
             worker' = Append(worker, w)
      PROVE  ColourInv'
  <2>1. w.cloud = EmptyCloud /\ w.at \in {"starting", "done"}
    BY <1>2 DEF NewWorker
  <2>2. ColourSound(w)
    BY <2>1 DEF ColourSound
  <2>3. worker \in Seq(WorkerType)
    BY DEF LoadInv, DataOK
  <2>4. /\ worker'[Len(worker) + 1] = w
        /\ \A h \in DOMAIN worker' : h # Len(worker) + 1 => h \in DOMAIN worker /\ worker'[h] = worker[h]
    BY <1>2, <2>3
  <2> QED
    BY <2>2, <2>4 DEF ColourInv
<1> QED
  BY <1>1, <1>2 DEF Start

LEMMA NextColours ==
  ASSUME LoadInv, ColourInv, [Next]_vars
  PROVE  ColourInv'
<1>1. CASE BeginPoll \/ TakeProgress \/ DrainEvent \/ Rewrite \/ UNCHANGED vars
  <2>1. UNCHANGED worker
    BY <1>1 DEF BeginPoll, TakeProgress, DrainEvent, Rewrite, vars
  <2> QED
    BY <2>1 DEF ColourInv
<1>2. CASE Start
  BY <1>2, StartColours
<1>3. ASSUME NEW g \in DOMAIN worker, Work(g)
      PROVE  ColourInv'
  <2>1. CASE ReadHeader(g) \/ OpenRecords(g)
    BY <2>1, OpeningColours
  <2>2. CASE LockSlot(g) \/ StoreProgress(g)
    BY <2>2, PlaceKeepsColours DEF LockSlot, StoreProgress, Places
  <2>3. CASE ReadRecord(g)
    BY <2>3, ReadRecordColours
  <2>4. CASE SendRefused(g) \/ SendLaunching(g) \/ SendLast(g)
    BY <2>4, PlaceKeepsColours DEF SendRefused, SendLaunching, SendLast, Places
  <2>5. CASE Launch(g)
    BY <2>5, LaunchColours
  <2> QED
    BY <1>3, <2>1, <2>2, <2>3, <2>4, <2>5 DEF Work
<1> QED
  BY <1>1, <1>2, <1>3 DEF Next, UserInterface

(* A cloud that is loaded has the points with finite coordinates in the    *)
(* order of the file, each with its own colour (load_pcd), and the shades  *)
(* of normalized_colors keep the order of the values and reach from 0 to   *)
(* 255, for every file and every range of values.  The records are those   *)
(* that the indices of the header yield: if the file got other fields      *)
(* between its two openings, whatever these indices hit then.              *)
THEOREM ColoursCorrect == Spec => []ColoursMatchPoints
<1>1. Init => ColourInv
  BY DEF Init, ColourInv
<1>2. ColourInv => ColoursMatchPoints
  BY DEF ColourInv, ColourSound, ColoursMatchPoints
<1>3. LoadInv /\ ColourInv /\ [Next]_vars => ColourInv'
  BY NextColours
<1> QED
  BY <1>1, <1>2, <1>3, LoadsInvariant, PTL DEF Spec
=============================================================================
