---------------------------- MODULE RefereeViews ----------------------------
(***************************************************************************)
(* The two that watch what the referee tells the program: the ZMQ PUB      *)
(* thread (src/zmq/zmq.rs), which is notified of a frame and publishes     *)
(* what SharedData holds when it gets to the notification, and the user    *)
(* interface (src/app/serial_workspace.rs), which compares what SharedData *)
(* holds at one screen frame with what it held at the frame before and     *)
(* logs the difference.  Both read under the lock that the parser holds    *)
(* for the whole of a frame, its notifications included; the parser and    *)
(* the transmitter are those of RadarDecision.  The connection stays open. *)
(*                                                                         *)
(* The three payloads and the screen do not affect each other, so a        *)
(* behaviour follows one of the four, and the frames that the one it       *)
(* follows has no use for are left out of it.                              *)
(***************************************************************************)
EXTENDS RadarDecision, Sequences, Functions

CONSTANTS Mark,       \* the fields of radar_mark_process, of one bit each
          Shown,      \* those of them that the screen compares, by their labels
          MaxRemain,  \* bound on stage_remain_time
          MaxSite,    \* bound on the values that site_event takes
          MaxLog      \* the lines that the log keeps: 80

ASSUME ViewsAssumption ==
  /\ Shown \subseteq Mark /\ {"remain", "site"} \cap Mark = {}
  /\ MaxRemain \in Nat /\ MaxSite \in Nat
  /\ MaxLog \in Nat \ {0}

VARIABLES
  follows,     \* what this behaviour follows
  remain,      \* stage_remain_time
  mark,        \* radar_mark_process
  site,        \* site_event, a number for its eleven fields
  waiting,     \* what the PUB thread has notifications of, in any number and order
  published,   \* the last payload of each kind, <<>> before the first
  observed,    \* serial_last_observed, <<>> for None
  log          \* serial_frame_log: what each line shows, and with which value

heard == <<remain, mark, site>>
viewVars == <<published, observed, log>>
allVars == <<vars, follows, heard, waiting, viewVars>>

Kind == {"game", "mark", "sync"}  \* published
Screen == "screen"

\* What each payload is made from; the fields left out go the way of these.
Payload == [game |-> <<game_progress, remain>>, mark |-> mark, sync |-> <<chance, active>>]

\* What lines show.  Of the game it is the time that remains, of the marks the
\* labels; the site is shown with all its fields.
Item == {"remain", "site"} \cup Shown

Shows == [item \in Item |-> IF item = "remain" THEN remain
                            ELSE IF item = "site" THEN site ELSE mark[item]]

\* SerialObservedState: the progress (with the type and the timestamp) is compared
\* and not shown.
Current == [progress |-> game_progress, shows |-> Shows]

ViewsInit ==
  /\ Init
  /\ follows \in Kind \cup {Screen}
  /\ remain = 0 /\ mark = [m \in Mark |-> 0] /\ site = 0
  /\ waiting = {}
  /\ published = [k \in Kind |-> <<>>]
  /\ observed = <<>>
  /\ log = <<>>

-----------------------------------------------------------------------------
(* The parser, with its notifications of the PUB thread.                   *)

Announce(kind) ==
  /\ waiting' = waiting \cup ({kind} \cap {follows})
  /\ UNCHANGED <<follows, viewVars>>

HearGameState ==
  /\ ReceiveGameState
  /\ remain' \in IF follows \in {"game", Screen} THEN 0 .. MaxRemain ELSE {remain}
  /\ Announce("game")
  /\ UNCHANGED <<mark, site>>

\* Mutant: like the 0x0121, the sync is announced in a match only.
HearDecisionSync_InMatch ==
  /\ follows = "sync"
  /\ ReceiveDecisionSync
  /\ IF game_progress = Match THEN Announce("sync") ELSE UNCHANGED <<follows, waiting, viewVars>>
  /\ UNCHANGED heard

\* The settlement clears the chance after the notification, but under the lock.
HearDecisionSync ==
  /\ follows = "sync"
  /\ ReceiveDecisionSync
  /\ Announce("sync")
  /\ UNCHANGED heard

HearMarkProcess ==
  /\ follows \in {"mark", Screen}
  /\ mark' \in [Mark -> {0, 1}]
  /\ Announce("mark")
  /\ UNCHANGED <<vars, remain, site>>

\* Nothing is published of the site, so nobody is notified.
HearSiteEvent ==
  /\ follows = Screen
  /\ site' \in 0 .. MaxSite
  /\ UNCHANGED <<vars, follows, remain, mark, waiting, viewVars>>

-----------------------------------------------------------------------------
(* The PUB thread.                                                         *)

\* A second notification of the same kind publishes the same once more.
Publish(kind) ==
  /\ kind \in waiting
  /\ waiting' = waiting \ {kind}
  /\ published' = [published EXCEPT ![kind] = <<Payload[kind]>>]
  /\ UNCHANGED <<vars, follows, heard, observed, log>>

-----------------------------------------------------------------------------
(* The user interface.                                                     *)

\* push_bounded_serial_log: the oldest lines go.
Bounded(lines) == SubSeq(lines, Len(lines) - MaxLog + 1, Len(lines))

Pushed(lines, line) ==
  LET all == Append(lines, line) IN IF Len(all) > MaxLog THEN Bounded(all) ELSE all

\* A line with these items, or none.
Noted(lines, items, shows) ==
  IF items = {} THEN lines ELSE Pushed(lines, Restrict(shows, items))

\* diff_serial_state: what the lines of the game, the site and the marks show.
GameItems(before, now) ==
  {item \in {"remain"} : before.progress # now.progress \/ before.shows[item] # now.shows[item]}

SiteItems(before, now) == {item \in {"site"} : before.shows[item] # now.shows[item]}

MarkItems(before, now) == {item \in Shown : before.shows[item] # now.shows[item]}

Diff(lines, before, now) ==
  LET afterGame == Noted(lines, GameItems(before, now), now.shows)
      afterSite == Noted(afterGame, SiteItems(before, now), now.shows)
  IN Noted(afterSite, MarkItems(before, now), now.shows)

\* update_serial_state_log: the first observation is only remembered.
UiFrame ==
  /\ follows = Screen
  /\ observed' = <<Current>>
  /\ log' = IF observed = <<>> THEN log ELSE Diff(log, observed[1], Current)
  /\ UNCHANGED <<vars, follows, heard, waiting, published>>

-----------------------------------------------------------------------------

Unseen == UNCHANGED <<follows, heard, waiting, viewVars>>

\* Chances are granted where they are followed.
WatchedReferee == Referee /\ (follows # "sync" => granted' = 0) /\ Unseen

ViewsNext ==
  \/ WatchedReferee
  \/ SendDecision /\ Unseen
  \/ HearGameState \/ HearDecisionSync \/ HearMarkProcess \/ HearSiteEvent
  \/ \E kind \in Kind : Publish(kind)
  \/ UiFrame

\* The fairness of RadarDecision, for the steps that contain its own.
ViewsFairness ==
  /\ WF_allVars(HearGameState)
  /\ SF_allVars(HearDecisionSync)
  /\ WF_allVars(SendDecision /\ Unseen)
  /\ SF_allVars(SendDecision /\ refCmd' = radar_cmd /\ Unseen)

ViewsSpec == ViewsInit /\ [][ViewsNext]_allVars /\ ViewsFairness

-----------------------------------------------------------------------------
(* Properties.                                                             *)

\* The state is of its type.
ViewsTypeOK ==
  /\ TypeOK
  /\ follows \in Kind \cup {Screen}
  /\ remain \in 0 .. MaxRemain /\ mark \in [Mark -> {0, 1}] /\ site \in 0 .. MaxSite
  /\ waiting \subseteq Kind \cap {follows}
  /\ DOMAIN published = Kind

\* A program that listens to the PUB sockets and has been told all there is to
\* tell knows what SharedData holds, although a notification is sent before the
\* settlement clears the chance and answered at any time after.
HeardIsCurrent ==
  \A k \in Kind : k \in waiting \/ published[k] \in {<<>>, <<Payload[k]>>}

\* None of the lines strictly between the i-th and the j-th shows the item.
Adjacent(lines, item, i, j) == \A k \in i + 1 .. j - 1 : item \notin DOMAIN lines[k]

\* The newest line with an item shows what was observed of it last.
NewestTrue(lines, shows) ==
  \A i \in DOMAIN lines : \A item \in DOMAIN lines[i] :
    Adjacent(lines, item, i, Len(lines) + 1) => lines[i][item] = shows[item]

\* Neither the site nor a label is shown twice running with the same value.  (The
\* time that remains is, when the progress, the type or the timestamp has changed.)
NoRepeat(lines) ==
  \A i, j \in DOMAIN lines :
    i < j => \A item \in (DOMAIN lines[i] \cap DOMAIN lines[j]) \ {"remain"} :
               Adjacent(lines, item, i, j) => lines[i][item] # lines[j][item]

Tells(lines, shows) == NewestTrue(lines, shows) /\ NoRepeat(lines)

\* The log on the screen is bounded and what it shows was observed, the newest of it
\* last, although changes between two screen frames are missed, a line of the marks
\* has only the labels that changed, and the oldest lines go.
LogTells == Len(log) <= MaxLog /\ (observed # <<>> => Tells(log, observed[1].shows))

\* Both who watch the referee's data tell the truth of it.
WatchersTrue == HeardIsCurrent /\ LogTells
=============================================================================
