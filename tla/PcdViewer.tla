----------------------------- MODULE PcdViewer -----------------------------
(***************************************************************************)
(* The viewer of offline point clouds (src/pointcloud/pcd_viewer.rs).  The *)
(* UI starts a worker thread for a file and polls: the worker puts its     *)
(* progress into one slot behind a mutex and sends at most two events      *)
(* through a channel that holds two.  The number of the load, generation,  *)
(* tells the poll which of them belong to the load on the screen.          *)
(*                                                                         *)
(* A poll is three steps of the UI thread, the worker may act between any  *)
(* two, and somebody may write the file between its two openings.          *)
(***************************************************************************)
EXTENDS PcdLoader

CONSTANTS
  Paths, NoPath,
  Files(_),      \* what the file of a path may hold
  MaxStarts,     \* bound: generations
  MaxRewrites    \* bound: files written while the program runs

ASSUME PathsAssumption == NoPath \notin Paths

\* A header declares an unsigned number of points, and the reader yields records.
ASSUME FilesAssumption ==
  \A path \in Paths : \A file \in Files(path) :
    file.declared \in Nat /\ file.records \in Seq(Record)

ASSUME StartsAssumption == MaxStarts \in Nat /\ MaxRewrites \in Nat

VARIABLES
  status,            \* PcdViewerStatus
  busy,
  accepts_progress,
  generation,
  latest_progress,   \* the slot
  events,            \* the channel
  ui,                \* where the UI thread is, and the file start() was called with
  worker,            \* the thread of each generation
  content,           \* what each path holds
  rewrites

runtime == <<status, busy, accepts_progress, generation>>
vars == <<runtime, latest_progress, events, ui, worker, content, rewrites>>

Generation == 1 .. MaxStarts
None == [none |-> TRUE]
Room == 2  \* sync_channel(2)

Idle == [phase |-> "Idle", path |-> NoPath, points |-> 0, total |-> 0, result |-> None]
Status(phase, path, result) ==
  [phase |-> phase, path |-> path, points |-> 0, total |-> 0, result |-> result]

\* PcdLoadResult, without the time.
Result == [valid : Nat, skipped : Nat, declared : Nat]
ResultOf(w) == [valid |-> Len(w.cloud.positions), skipped |-> w.cloud.skipped,
                declared |-> w.header.declared]

\* header is what the first opening of the file found, found and records what the
\* second did: the fields, and the records as the indices of the header read them.
NewWorker(path) == [at |-> "starting", path |-> path, header |-> None, found |-> None,
                    records |-> <<>>, cloud |-> EmptyCloud, launched |-> FALSE]

Places == {"starting", "reopening", "reporting", "storing", "reading", "refused",
           "loaded", "launching", "launched", "failed", "done"}

TypeOK ==
  /\ status.phase \in {"Idle", "Loading", "Launching", "Ready", "Failed"}
  /\ status.path \in Paths \cup {NoPath}
  /\ status.points \in Nat /\ status.total \in Nat
  /\ status.result \in Result \cup {None}
  /\ busy = (status.phase \in {"Loading", "Launching"})
  /\ accepts_progress = (status.phase = "Loading")
  /\ generation \in 0 .. MaxStarts
  /\ \/ latest_progress = None
     \/ latest_progress \in [generation : Generation, path : Paths, points : Nat, total : Nat]
  /\ \A i \in DOMAIN events : events[i].generation \in Generation
  /\ ui.at \in {"idle", "take", "drain1", "drain2", "decide"}
  /\ ui.path \in Paths \cup {NoPath}
  /\ DOMAIN worker = 1 .. Len(worker)
  /\ \A g \in DOMAIN worker : worker[g].at \in Places /\ worker[g].path \in Paths
  /\ \A p \in Paths : content[p] \in Files(p)
  /\ rewrites \in 0 .. MaxRewrites

Init ==
  /\ status = Idle
  /\ busy = FALSE /\ accepts_progress = FALSE /\ generation = 0
  /\ latest_progress = None
  /\ events = <<>>
  /\ ui = [at |-> "idle", path |-> NoPath]
  /\ worker = <<>>
  /\ content \in [Paths -> UNION {Files(p) : p \in Paths}]
  /\ \A p \in Paths : content[p] \in Files(p)
  /\ rewrites = 0

-----------------------------------------------------------------------------
(* The UI thread.                                                          *)

\* The poll of a frame (path is NoPath), or the one start() begins with.
BeginPoll ==
  /\ ui.at = "idle"
  /\ \E path \in Paths \cup {NoPath} :
       /\ path # NoPath => generation < MaxStarts
       /\ ui' = [at |-> "take", path |-> path]
  /\ UNCHANGED <<runtime, latest_progress, events, worker, content, rewrites>>

\* try_lock: a worker that holds the mutex makes the poll go on without progress.
SlotFree == \A g \in DOMAIN worker : worker[g].at # "storing"

\* Mutant: whoever left it, the progress is shown.
ProgressIsCurrent_Any == TRUE

ProgressIsCurrent == latest_progress.generation = generation

\* Mutant: progress is taken as long as the worker runs.
MayTakeProgress_Busy == busy /\ SlotFree /\ latest_progress # None

MayTakeProgress == busy /\ accepts_progress /\ SlotFree /\ latest_progress # None

TakeProgress ==
  /\ ui.at = "take"
  /\ IF MayTakeProgress
     THEN /\ latest_progress' = None
          /\ status' = IF ProgressIsCurrent
                       THEN [phase |-> "Loading", path |-> latest_progress.path,
                             points |-> latest_progress.points,
                             total |-> latest_progress.total, result |-> None]
                       ELSE status
     ELSE UNCHANGED <<latest_progress, status>>
  /\ ui' = [ui EXCEPT !.at = "drain1"]
  /\ UNCHANGED <<busy, accepts_progress, generation, events, worker, content, rewrites>>

\* Where the poll goes when no event is left, or two have been taken.
AfterPoll == IF ui.path = NoPath THEN "idle" ELSE "decide"

\* Mutant: a worker that fails leaves the viewer busy.
Terminal_ReadyOnly == {"Ready"}

\* The events after which the viewer takes another file.
Terminal == {"Ready", "Failed"}

NextDrain == IF ui.at = "drain1" THEN "drain2" ELSE AfterPoll

DrainEvent ==
  /\ ui.at \in {"drain1", "drain2"}
  /\ IF events = <<>>
     THEN /\ ui' = [ui EXCEPT !.at = AfterPoll]
          /\ UNCHANGED <<runtime, events>>
     ELSE LET event == Head(events)
          IN /\ events' = Tail(events)
             /\ ui' = [ui EXCEPT !.at = NextDrain]
             /\ IF event.generation = generation
                THEN /\ status' = Status(event.kind, event.path, event.result)
                     /\ accepts_progress' = FALSE
                     /\ busy' = (busy /\ event.kind \notin Terminal)
                     /\ UNCHANGED generation
                ELSE UNCHANGED runtime
  /\ UNCHANGED <<latest_progress, worker, content, rewrites>>

\* Mutant: a second worker is started beside the first.
StartRefused_Never == FALSE

StartRefused == busy

\* The rest of start(); the thread may fail to spawn.
Start ==
  /\ ui.at = "decide"
  /\ ui' = [at |-> "idle", path |-> NoPath]
  /\ IF StartRefused
     THEN UNCHANGED <<runtime, worker>>
     ELSE /\ generation' = generation + 1
          /\ \/ /\ status' = Status("Loading", ui.path, None)
                /\ busy' = TRUE /\ accepts_progress' = TRUE
                /\ worker' = Append(worker, NewWorker(ui.path))
             \/ /\ status' = Status("Failed", ui.path, None)
                /\ busy' = FALSE /\ accepts_progress' = FALSE
                /\ worker' = Append(worker, [NewWorker(ui.path) EXCEPT !.at = "done"])
  /\ UNCHANGED <<latest_progress, events, content, rewrites>>

UserInterface == TakeProgress \/ DrainEvent \/ Start

-----------------------------------------------------------------------------
(* The worker of generation g (run_worker and load_pcd).                   *)

Goto(g, place) == worker' = [worker EXCEPT ![g].at = place]

\* PcdMeta::from_path and all that depends on the header.
ReadHeader(g) ==
  /\ worker[g].at = "starting"
  /\ LET file == content[worker[g].path]
     IN IF HeaderAccepted(file)
        THEN worker' = [worker EXCEPT ![g].header = file, ![g].at = "reopening"]
        ELSE Goto(g, "refused")
  /\ UNCHANGED <<runtime, latest_progress, events, ui, content, rewrites>>

\* DynReader::open opens the path again, whatever is there now.
OpenRecords(g) ==
  /\ worker[g].at = "reopening"
  /\ LET file == content[worker[g].path]
     IN IF file.encoding = "unreadable"
        THEN Goto(g, "refused")
        ELSE \E records \in ReadWith(worker[g].header.fields, file) :
               worker' = [worker EXCEPT ![g].found = file.fields, ![g].records = records,
                                        ![g].at = "reporting"]
  /\ UNCHANGED <<runtime, latest_progress, events, ui, content, rewrites>>

LockSlot(g) ==
  /\ worker[g].at = "reporting"
  /\ SlotFree
  /\ Goto(g, "storing")
  /\ UNCHANGED <<runtime, latest_progress, events, ui, content, rewrites>>

StoreProgress(g) ==
  /\ worker[g].at = "storing"
  /\ latest_progress' = [generation |-> g, path |-> worker[g].path,
                         points |-> worker[g].cloud.read,
                         total |-> worker[g].header.declared]
  /\ Goto(g, "reading")
  /\ UNCHANGED <<runtime, events, ui, content, rewrites>>

\* A record that cannot be used, or a panic of the library or at an index, ends the
\* load; so does memory that normalized_colors cannot reserve.
ReadRecord(g) ==
  /\ worker[g].at = "reading"
  /\ LET w == worker[g]
         fields == w.header.fields
     IN IF w.cloud.read = Len(w.records)
        THEN \/ worker' = [worker EXCEPT ![g].cloud = Coloured(w.cloud, fields), ![g].at = "loaded"]
             \/ FromRange(fields) /\ Goto(g, "refused")
        ELSE LET record == w.records[w.cloud.read + 1]
             IN IF RecordUsable(record, fields, w.found)
                THEN worker' = [worker EXCEPT ![g].cloud = AddRecord(w.cloud, record, fields),
                                              ![g].at = "reporting"]
                ELSE Goto(g, "refused")
  /\ UNCHANGED <<runtime, latest_progress, events, ui, content, rewrites>>

Event(kind, g, result) ==
  [kind |-> kind, generation |-> g, path |-> worker[g].path, result |-> result]

\* SyncSender::send waits for room.
Send(event) == Len(events) < Room /\ events' = Append(events, event)

SendRefused(g) ==
  /\ worker[g].at = "refused"
  /\ Send(Event("Failed", g, None))
  /\ Goto(g, "done")
  /\ UNCHANGED <<runtime, latest_progress, ui, content, rewrites>>

SendLaunching(g) ==
  /\ worker[g].at = "loaded"
  /\ Send(Event("Launching", g, ResultOf(worker[g])))
  /\ Goto(g, "launching")
  /\ UNCHANGED <<runtime, latest_progress, ui, content, rewrites>>

\* launch_viewer: the Rerun viewer gets the points, or it fails or panics.
Launch(g) ==
  /\ worker[g].at = "launching"
  /\ \/ worker' = [worker EXCEPT ![g].at = "launched", ![g].launched = TRUE]
     \/ Goto(g, "failed")
  /\ UNCHANGED <<runtime, latest_progress, events, ui, content, rewrites>>

LastEvent(g) ==
  Event(IF worker[g].at = "launched" THEN "Ready" ELSE "Failed", g, ResultOf(worker[g]))

SendLast(g) ==
  /\ worker[g].at \in {"launched", "failed"}
  /\ Send(LastEvent(g))
  /\ Goto(g, "done")
  /\ UNCHANGED <<runtime, latest_progress, ui, content, rewrites>>

Work(g) ==
  \/ ReadHeader(g) \/ OpenRecords(g) \/ LockSlot(g) \/ StoreProgress(g) \/ ReadRecord(g)
  \/ SendRefused(g) \/ SendLaunching(g) \/ Launch(g) \/ SendLast(g)

\* Another program writes the file, which may get other fields, or removes it.
Rewrite ==
  /\ rewrites < MaxRewrites
  /\ rewrites' = rewrites + 1
  /\ \E path \in Paths :
     \E file \in Files(path) \ {content[path]} :
       content' = [content EXCEPT ![path] = file]
  /\ UNCHANGED <<runtime, latest_progress, events, ui, worker>>

Next ==
  \/ BeginPoll \/ UserInterface
  \/ \E g \in DOMAIN worker : Work(g)
  \/ Rewrite

Spec == Init /\ [][Next]_vars

(***************************************************************************)
(* The UI polls in every frame, and frames follow one another at least     *)
(* every 100 ms (src/app/mod.rs).  The worker is a thread that waits for   *)
(* nobody but the mutex and the channel; the library and the launcher      *)
(* return (the launcher flushes for at most 30 s).                         *)
(***************************************************************************)
Fairness ==
  /\ WF_vars(BeginPoll) /\ WF_vars(UserInterface)
  /\ \A g \in Generation : WF_vars(g \in DOMAIN worker /\ Work(g))

FairSpec == Spec /\ Fairness

-----------------------------------------------------------------------------
(* Properties.                                                             *)

Finished(g) == worker[g].at = "done"

\* When the viewer is ready for another file no worker is left and nothing of one
\* is on its way.
OneLoadAtATime ==
  ~busy => events = <<>> /\ \A g \in DOMAIN worker : Finished(g)

\* "One worker emits at most Launching plus one terminal lifecycle event"
\* (pcd_viewer.rs:183): the channel has room whenever a worker sends.
SendNeverWaits ==
  \A g \in DOMAIN worker :
    worker[g].at \in {"refused", "loaded", "launched", "failed"} => Len(events) < Room

(* The worker, the channel and the gate to the next start agree: one load  *)
(* at a time, and a worker that never waits for the screen.                *)
LoadsApart == TypeOK /\ OneLoadAtATime /\ SendNeverWaits

(* Whatever earlier loads left in the slot or in the channel, the status   *)
(* is about the file of the last start that was accepted.  It does not     *)
(* claim what has not happened, nor forget what has: Ready only after the  *)
(* viewer took the points, and the counts shown are those of the records   *)
(* of this load, each kept or skipped.                                     *)
StatusIsTrue ==
  /\ generation > 0 => status.path = worker[generation].path
  /\ status.phase = "Ready" => worker[generation].launched
  /\ status.result # None =>
       /\ status.result = ResultOf(worker[generation])
       /\ status.result.valid + status.result.skipped = Len(worker[generation].records)

\* What load_pcd is to return, from the records at once: the points with finite
\* coordinates in their order, each with its own colour.
Painted(cloud, records, fields) ==
  LET positions == cloud.positions
      colours == cloud.colours
      value(i) == records[positions[i]].value
      finite == {i \in DOMAIN colours : value(i) # NotFinite}
  IN /\ {positions[i] : i \in DOMAIN positions} = {n \in DOMAIN records : records[n].finite}
     /\ \A i, j \in DOMAIN positions : i < j => positions[i] < positions[j]
     /\ Len(colours) = Len(positions)
     /\ IF FromRange(fields)
        THEN /\ \A i, j \in finite : value(i) <= value(j) => colours[i] <= colours[j]
             /\ (\E i, j \in finite : value(i) # value(j))
                  => {0, 255} \subseteq {colours[i] : i \in finite}
        ELSE \A i \in DOMAIN colours : colours[i] = value(i)

(* A loaded cloud has the points with finite coordinates in their order,   *)
(* each with its own colour: its bits or channels, or a shade that does    *)
(* not reverse the order of the values and reaches from 0 to 255.  That is *)
(* so of the records as the header makes load_pcd read them.  When the     *)
(* file got other fields after the header was read these are not what the  *)
(* file has, and the load succeeds nevertheless (see ReadWith).            *)
ColoursMatchPoints ==
  \A g \in DOMAIN worker :
    worker[g].at \in {"loaded", "launching", "launched"} =>
      Painted(worker[g].cloud, worker[g].records, worker[g].header.fields)

(* The status goes through the phases of one load after another as the     *)
(* abstract job does.                                                      *)
Job == INSTANCE PcdLoadJob WITH phase <- status.phase, path <- status.path, points <- status.points

ImplementsJob == Job!Spec

(* A load that was started comes to an end, whatever happens to the file,  *)
(* the library or the viewer.                                              *)
LoadSettles == busy ~> ~busy

=============================================================================
