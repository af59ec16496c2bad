----------------------------- MODULE SdrBridge -----------------------------
(***************************************************************************)
(* The enemy data of the SDR on its way to the referee: the ZMQ SUB thread *)
(* (src/zmq/zmq.rs) stores each message in SharedData and notifies the     *)
(* serial transmitter, at most once a second for the broadcast to the      *)
(* allied robots (0x0301) and at most five times a second for the minimap  *)
(* (0x0305); the transmitter (src/serial/serial.rs) answers one            *)
(* notification after the other with what SharedData holds by then.        *)
(*                                                                         *)
(* Time is discrete: a tick is the 50 ms that the transmitter sleeps after *)
(* each frame of a broadcast and that a frame takes at most to write.  A   *)
(* thread that has something to do does it before the next tick.  The      *)
(* connection stays open: opening and closing is in SerialLifecycle.  The  *)
(* notifications that the transmitter ignores take no time and are left    *)
(* out.  The user may change the team at any time, and with it the robots  *)
(* that the frames are for.                                                *)
(***************************************************************************)
EXTENDS RobotInteraction, FiniteSets

CONSTANTS
  BroadcastPeriod,  \* 1000 ms, in ticks
  MinimapPeriod,    \* 200 ms
  DecisionPeriod,   \* of the referee's 0x020E, each of which asks for a 0x0121
  FreshLimit,       \* 2 s without an update make coordinates expire
  MaxWait,          \* claimed bound on the time until a notification is answered
  MaxQueue          \* bound on the channel, above what it ever holds

\* The allied units that get the enemy data, and the radar that sends them.
Targets(team) == <<<<team, "Infantry3">>, <<team, "Infantry4">>, <<team, "Aerial">>>>
Radar(team) == <<team, "Radar">>

ASSUME BridgeAssumption ==
  /\ BroadcastPeriod \in Nat /\ MinimapPeriod \in Nat /\ DecisionPeriod \in Nat
  /\ FreshLimit \in Nat \ {0}
  /\ MaxWait \in Nat /\ MaxQueue \in Nat

VARIABLES
  since,   \* ticks since the last notification of each kind, up to its period;
           \* the period at first (last_broadcast_send, last_minimap_send)
  timed,   \* the SDR writes timestamps
  coords,  \* age of the update that minimap_receive holds
  queue,   \* the channel to the transmitter
  tx,      \* the transmitter: in recv(), writing a "single" frame with SharedData
           \* locked, about to "cast", in the "write" or the "sleep" of a broadcast
  left,    \* targets left of this broadcast
  team,    \* radar_side
  radar_id,\* the sender of the broadcast under way
  wire     \* the head of the last 0x0301 of this tick

addressVars == <<team, radar_id, wire>>
vars == <<since, timed, coords, queue, tx, left, addressVars>>

Kind == {"broadcast", "minimap", "decision"}
Period == [broadcast |-> BroadcastPeriod, minimap |-> MinimapPeriod, decision |-> DecisionPeriod]

\* Ages are not told apart above this.
Oldest == FreshLimit + MaxWait + 1

Init ==
  /\ since = Period
  /\ timed \in BOOLEAN
  /\ coords = Oldest
  /\ queue = <<>>
  /\ tx = "recv" /\ left = <<>>
  /\ team = "red" /\ radar_id = Radar("red") /\ wire = <<>>

-----------------------------------------------------------------------------
(* The SUB thread.                                                         *)

Due(kind) == since[kind] = Period[kind]

\* Mutant: the test of the update's time is left out.
Fresh_Always(age) == TRUE

\* A message without a timestamp, or updated less than 2 s ago.
Fresh(age) == ~timed \/ age < FreshLimit

\* Mutant: every message is broadcast.
Notified_AllBroadcast(age) ==
  {"broadcast"} \cup {k \in {"minimap"} : Due("minimap") /\ Fresh(age)}

\* What a message makes the thread notify.
Notified(age) ==
  {k \in {"broadcast", "minimap"} : Due(k) /\ (k = "minimap" => Fresh(age))}

Pushed(kinds, kind, notified) == IF kind \in notified THEN Append(kinds, kind) ELSE kinds

\* Storing needs the lock of SharedData.  The SDR repeats its last update until
\* there is a new one, so that no message is older than the one before.
ReceiveSdr ==
  /\ tx # "single"
  /\ \E age \in {0, coords} :
       LET notified == Notified(age) IN
       /\ Len(queue) + Cardinality(notified) <= MaxQueue
       /\ coords' = age
       /\ queue' = Pushed(Pushed(queue, "broadcast", notified), "minimap", notified)
       /\ since' = [k \in Kind |-> IF k \in notified THEN 0 ELSE since[k]]
  /\ UNCHANGED <<timed, tx, left, addressVars>>

\* The parser has had a 0x020E in a match; it needs the lock as well.
ReceiveDecisionSync ==
  /\ tx # "single"
  /\ Due("decision")
  /\ Len(queue) < MaxQueue
  /\ queue' = Append(queue, "decision")
  /\ since' = [since EXCEPT !["decision"] = 0]
  /\ UNCHANGED <<timed, coords, tx, left, addressVars>>

-----------------------------------------------------------------------------
(* The user interface.                                                     *)

\* update_shared_team_side, under the lock.
ChooseTeam ==
  /\ tx # "single"
  /\ team' \in Team
  /\ UNCHANGED <<since, timed, coords, queue, tx, left, radar_id, wire>>

-----------------------------------------------------------------------------
(* The transmitter.                                                        *)

Take(kind) ==
  /\ tx = "recv"
  /\ queue # <<>>
  /\ Head(queue) = kind
  /\ queue' = Tail(queue)
  /\ UNCHANGED <<since, timed, coords, team>>

\* The frame is written at once or until the next tick.
SendMinimap ==
  /\ Take("minimap")
  /\ tx' \in {"recv", "single"}
  /\ UNCHANGED <<left, radar_id, wire>>

SendDecision ==
  /\ Take("decision")
  /\ tx' \in {"recv", "single"}
  /\ wire' = ToBytes(DecisionCmd, Radar(team), RefereeServer)
  /\ UNCHANGED <<left, radar_id>>

\* The sender, the targets and the data are copied, the lock is given back.
BeginBroadcast ==
  /\ Take("broadcast")
  /\ tx' = "cast"
  /\ left' = Targets(team)
  /\ radar_id' = Radar(team)
  /\ UNCHANGED wire

\* Mutant: the sender is looked up again for each frame.
Sender_Now == Radar(team)

Sender == radar_id

SendBroadcastFrame ==
  /\ tx = "cast"
  /\ tx' \in {"write", "sleep"}
  /\ wire' = ToBytes(BroadcastCmd, Sender, Head(left))
  /\ UNCHANGED <<since, timed, coords, queue, left, team, radar_id>>

Transmitter == SendMinimap \/ SendDecision \/ BeginBroadcast \/ SendBroadcastFrame

-----------------------------------------------------------------------------
(* Time.                                                                   *)

AtRest == tx # "cast" /\ (tx = "recv" => queue = <<>>)

AfterSleep == Tail(left)

Older(age, most) == IF age < most THEN age + 1 ELSE age

Tick ==
  /\ AtRest
  /\ since' = [k \in Kind |-> Older(since[k], Period[k])]
  /\ coords' = Older(coords, Oldest)
  /\ left' = IF tx = "sleep" THEN AfterSleep ELSE left
  /\ tx' = CASE tx = "write" -> "sleep"
             [] tx = "sleep" -> IF AfterSleep # <<>> THEN "cast" ELSE "recv"
             [] OTHER -> "recv"
  /\ wire' = <<>>
  /\ UNCHANGED <<timed, queue, team, radar_id>>

Next ==
  \/ ReceiveSdr \/ ReceiveDecisionSync \/ ChooseTeam
  \/ Transmitter
  \/ Tick

Spec == Init /\ [][Next]_vars

-----------------------------------------------------------------------------
(* Properties.                                                             *)

\* Ticks that a notification of this kind occupies the transmitter at most.
Cost(kind) == IF kind = "broadcast" THEN 2 * Len(Targets(team)) ELSE 1

\* What is left of the frame or broadcast under way.
Remaining ==
  CASE tx = "recv" -> 0
    [] tx = "single" -> 1
    [] tx \in {"cast", "write"} -> 2 * Len(left)
    [] tx = "sleep" -> 2 * Len(left) - 1

\* The notifications of a kind among the first n.
Count(kinds, kind, n) == Cardinality({i \in 1 .. n : kinds[i] = kind})

\* Work from now until the first n notifications have been answered.
Ahead(n) ==
  LET casts == Count(queue, "broadcast", n)
  IN Remaining + Cost("broadcast") * casts + Cost("minimap") * (n - casts)

Backlog == Ahead(Len(queue))

\* The state is of its type, and a broadcast under way has targets left.
TypeOK ==
  /\ \A k \in Kind : since[k] \in 0 .. Period[k]
  /\ timed \in BOOLEAN
  /\ coords \in 0 .. Oldest
  /\ queue \in Seq(Kind)
  /\ tx \in {"recv", "single", "cast", "write", "sleep"}
  /\ \E t \in Team, n \in 1 .. 4 : left = SubSeq(Targets(t), n, 3)
  /\ left # <<>> <=> tx \in {"cast", "write", "sleep"}
  /\ team \in Team
  /\ radar_id \in {Radar(t) : t \in Team}

\* The channel to the transmitter is unbounded, but the rate limits keep what
\* waits in it below MaxWait ticks of work: the broadcasts do not starve 0x0305
\* and 0x0121 (comment in zmq_start_sub), and no notification waits longer.  So no
\* more minimap notifications pile up than come within that time.
BacklogBounded ==
  /\ TypeOK
  /\ Backlog <= MaxWait
  /\ MinimapPeriod * Count(queue, "minimap", Len(queue)) <= MaxWait

\* The minimap frame is built when the notification's turn comes, so that the 2 s
\* test of the SUB thread has to hold for coordinates that are older by then: no
\* 0x0305 carries an update older than the limit and the longest wait before it.
NoExpiredMinimap ==
  [][SendMinimap => ~timed \/ coords < FreshLimit + MaxWait - Cost("minimap")]_vars

\* What the referee reads of a frame: the ids of red's infantry 3 and 4, aerial and
\* radar are 3, 4, 6 and 9, blue's are 100 more.
Read(i) == wire[i] + 256 * wire[i + 1]
RefereeRoutes ==
  /\ Read(3) \in {9, 109}
  /\ \/ Read(1) = 289 /\ Read(5) = 32896
     \/ Read(1) = 512 /\ Read(5) \in {Read(3) - 6, Read(3) - 5, Read(3) - 3}

\* The user may change the team between the frames of a broadcast and while
\* notifications wait: each 0x0301 still comes from the radar of one team and is for
\* an allied unit of the same team, or a decision for the referee's server.
OneTeam == wire = <<>> \/ RefereeRoutes
=============================================================================
