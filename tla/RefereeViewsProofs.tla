------------------------- MODULE RefereeViewsProofs -------------------------
(***************************************************************************)
(* Proofs about RadarDecision: types, and for a referee whose settlement   *)
(* frames get through, that radar_cmd starts a match at 0 and never falls  *)
(* below what the referee has received.  And about RefereeViews: that it   *)
(* implements RadarDecision, so that these hold of it too, its types, and  *)
(* that who listens to the PUB sockets is told what SharedData holds.      *)
(***************************************************************************)
EXTENDS RefereeViews, TLAPS

-----------------------------------------------------------------------------
(* The request for double weakness.                                        *)

(* The chances granted in a match are those left and those used: this      *)
(* bounds both, and so the field of the 0x020E.                            *)
ChancesAddUp == refChance + used = granted

TypeInv == TypeOK /\ ChancesAddUp

LEMMA TypeInvInit == Init => TypeInv
<1> SUFFICES ASSUME Init PROVE TypeInv
  OBVIOUS
<1>1. settled \in BOOLEAN
  BY DEF Init
<1>2. TypeOK
  BY <1>1, DecisionAssumption DEF Init, TypeOK, Chances
<1>3. ChancesAddUp
  BY DEF Init, ChancesAddUp
<1> QED
  BY <1>2, <1>3 DEF TypeInv

LEMMA TypeInvStep == TypeInv /\ [Next]_vars => TypeInv'
<1> SUFFICES ASSUME TypeInv, [Next]_vars PROVE TypeInv'
  OBVIOUS
<1> USE DecisionAssumption DEF TypeInv, TypeOK, ChancesAddUp, Chances,
        Preparation, Match, Settlement
<1>1. CASE MatchBegins \/ MatchEnds
  BY <1>1 DEF MatchBegins, MatchEnds, shared
<1>2. CASE NextMatch
  BY <1>2 DEF NextMatch, shared
<1>3. CASE GrantChance
  BY <1>3 DEF GrantChance, shared
<1>4. CASE EffectBegins
  BY <1>4 DEF EffectBegins, shared
<1>5. CASE EffectEnds
  BY <1>5 DEF EffectEnds, shared
<1>6. CASE ReceiveGameState
  BY <1>6 DEF ReceiveGameState, referee
<1>7. CASE ReceiveDecisionSync
  BY <1>7 DEF ReceiveDecisionSync, Settle, Raised
<1>8. CASE SendDecision
  BY <1>8 DEF SendDecision, shared
<1>9. CASE UNCHANGED vars
  BY <1>9 DEF vars, referee, shared
<1> QED
  BY <1>1, <1>2, <1>3, <1>4, <1>5, <1>6, <1>7, <1>8, <1>9 DEF Next, Referee

(* Every variable keeps its type: radar_cmd stays within the two requests  *)
(* of a match however many 0x020E frames arrive.                           *)
THEOREM DecisionTypeCorrect == Spec => []TypeOK
<1>1. TypeInv => TypeOK
  BY DEF TypeInv
<1> QED
  BY TypeInvInit, TypeInvStep, <1>1, PTL DEF Spec

-----------------------------------------------------------------------------

(* Until the program has heard of the match it has nothing to ask for.     *)
HeardOfMatch ==
  /\ stage = Preparation => game_progress # Match /\ refCmd = 0
  /\ stage = Match /\ game_progress # Match => radar_cmd = 0

(* After a 0x020E of the settlement radar_cmd stays 0.                     *)
SettledAtZero ==
  stage = Settlement /\ settled => game_progress = Settlement /\ radar_cmd = 0

DecisionInv ==
  /\ TypeInv
  /\ MatchStartsAtZero
  /\ NeverWithdrawn
  /\ HeardOfMatch
  /\ SettledAtZero

LEMMA DecisionInvInit == Init => DecisionInv
  BY TypeInvInit DEF Init, DecisionInv, MatchStartsAtZero, NeverWithdrawn,
     HeardOfMatch, SettledAtZero, Preparation, Match, Settlement

LEMMA DecisionInvStep ==
  ASSUME ~Lossy, DecisionInv, [Next]_vars
  PROVE  DecisionInv'
<1>1. TypeInv'
  BY TypeInvStep DEF DecisionInv
<1> USE DecisionAssumption DEF DecisionInv, TypeInv, TypeOK, Chances,
        MatchStartsAtZero, NeverWithdrawn, HeardOfMatch, SettledAtZero,
        Preparation, Match, Settlement
<1>2. CASE MatchBegins \/ MatchEnds
  BY <1>1, <1>2 DEF MatchBegins, MatchEnds, shared
<1>3. CASE NextMatch
  BY <1>1, <1>3 DEF NextMatch, shared
<1>4. CASE GrantChance \/ EffectBegins \/ EffectEnds
  BY <1>1, <1>4 DEF GrantChance, EffectBegins, EffectEnds, shared
<1>5. CASE ReceiveGameState
  BY <1>1, <1>5 DEF ReceiveGameState, referee
<1>6. CASE ReceiveDecisionSync
  <2>1. radar_cmd' = 0 \/ (game_progress = Match /\ radar_cmd' >= radar_cmd)
                       \/ (game_progress # Match /\ radar_cmd' = radar_cmd)
    BY <1>6 DEF ReceiveDecisionSync, Settle, Raised
  <2>2. game_progress = Settlement => radar_cmd' = 0
    BY <1>6 DEF ReceiveDecisionSync, Settle
  <2>3. radar_cmd' = 0 => radar_cmd = 0 \/ game_progress = Settlement
    BY <1>6 DEF ReceiveDecisionSync, Settle, Raised
  <2>4. UNCHANGED <<stage, refCmd, game_progress>>
    BY <1>6 DEF ReceiveDecisionSync
  <2>5. settled' => settled \/ (stage = Settlement /\ game_progress = Settlement)
    BY <1>6 DEF ReceiveDecisionSync
  <2> QED
    BY <1>1, <2>1, <2>2, <2>3, <2>4, <2>5
<1>7. CASE SendDecision
  BY <1>1, <1>7 DEF SendDecision, shared
<1>8. CASE UNCHANGED vars
  BY <1>1, <1>8 DEF vars, referee, shared
<1> QED
  BY <1>2, <1>3, <1>4, <1>5, <1>6, <1>7, <1>8 DEF Next, Referee

(* If a settlement's frames get through, every match of every length of    *)
(* tournament starts with radar_cmd at 0.                                  *)
THEOREM MatchStartCorrect == ASSUME ~Lossy PROVE Spec => []MatchStartsAtZero
<1>1. DecisionInv /\ [Next]_vars => DecisionInv'
  BY DecisionInvStep
<1>2. DecisionInv => MatchStartsAtZero
  BY DEF DecisionInv
<1> QED
  BY DecisionInvInit, <1>1, <1>2, PTL DEF Spec

(* If a settlement's frames get through, no 0x0121 of a match carries a    *)
(* smaller radar_cmd than one the referee has received.                    *)
THEOREM MonotoneCorrect == ASSUME ~Lossy PROVE Spec => []NeverWithdrawn
<1>1. DecisionInv /\ [Next]_vars => DecisionInv'
  BY DecisionInvStep
<1>2. DecisionInv => NeverWithdrawn
  BY DEF DecisionInv
<1> QED
  BY DecisionInvInit, <1>1, <1>2, PTL DEF Spec

-----------------------------------------------------------------------------
(* Watching changes nothing that is watched.                               *)

LEMMA ViewsStep == [ViewsNext]_allVars => [Next]_vars
<1> SUFFICES ASSUME [ViewsNext]_allVars PROVE [Next]_vars
  OBVIOUS
<1>1. CASE WatchedReferee \/ (SendDecision /\ Unseen)
  BY <1>1 DEF Next, WatchedReferee
<1>2. CASE HearGameState \/ HearDecisionSync
  BY <1>2 DEF HearGameState, HearDecisionSync, Next
<1>3. CASE HearMarkProcess \/ HearSiteEvent \/ UiFrame
  BY <1>3 DEF HearMarkProcess, HearSiteEvent, UiFrame
<1>4. CASE \E kind \in Kind : Publish(kind)
  BY <1>4 DEF Publish
<1>5. CASE UNCHANGED allVars
  BY <1>5 DEF allVars
<1> QED
  BY <1>1, <1>2, <1>3, <1>4, <1>5 DEF ViewsNext

(* The PUB thread and the screen do not disturb the request for double     *)
(* weakness: with them the program does what RadarDecision allows.         *)
THEOREM ViewsImplementDecision == ViewsSpec => Spec
<1>1. ViewsInit => Init
  BY DEF ViewsInit
<1> QED
  BY <1>1, ViewsStep, PTL DEF ViewsSpec, Spec

-----------------------------------------------------------------------------
(* Types.                                                                  *)

ViewsTypeInv == TypeInv /\ ViewsTypeOK

LEMMA ViewsTypeInit == ViewsInit => ViewsTypeInv
<1> SUFFICES ASSUME ViewsInit PROVE ViewsTypeInv
  OBVIOUS
<1>1. TypeInv
  BY TypeInvInit DEF ViewsInit
<1> QED
  BY <1>1, ViewsAssumption DEF ViewsInit, ViewsTypeInv, ViewsTypeOK, TypeInv, Kind

LEMMA ViewsTypeStep == ViewsTypeInv /\ [ViewsNext]_allVars => ViewsTypeInv'
<1> SUFFICES ASSUME ViewsTypeInv, [ViewsNext]_allVars PROVE ViewsTypeInv'
  OBVIOUS
<1>1. TypeInv'
  BY ViewsStep, TypeInvStep DEF ViewsTypeInv
<1> USE ViewsAssumption, <1>1 DEF ViewsTypeInv, ViewsTypeOK, TypeInv
<1>2. CASE WatchedReferee \/ (SendDecision /\ Unseen) \/ UNCHANGED allVars
  BY <1>2 DEF WatchedReferee, Unseen, allVars, heard, viewVars
<1>3. CASE HearGameState
  BY <1>3 DEF HearGameState, Announce, Kind, viewVars
<1>4. CASE HearDecisionSync
  BY <1>4 DEF HearDecisionSync, Announce, Kind, heard, viewVars
<1>5. CASE HearMarkProcess
  BY <1>5 DEF HearMarkProcess, Announce, Kind, viewVars
<1>6. CASE HearSiteEvent
  BY <1>6 DEF HearSiteEvent, viewVars
<1>7. CASE UiFrame
  BY <1>7 DEF UiFrame, heard
<1>8. CASE \E kind \in Kind : Publish(kind)
  BY <1>8 DEF Publish, heard
<1> QED
  BY <1>2, <1>3, <1>4, <1>5, <1>6, <1>7, <1>8 DEF ViewsNext

(* Every variable keeps its type, those of RadarDecision included.         *)
THEOREM ViewsTypeCorrect == ViewsSpec => []ViewsTypeOK
<1>1. ViewsTypeInv => ViewsTypeOK
  BY DEF ViewsTypeInv
<1> QED
  BY ViewsTypeInit, ViewsTypeStep, <1>1, PTL DEF ViewsSpec

-----------------------------------------------------------------------------
(* The PUB thread.  Whatever changes a payload announces its kind, and is  *)
(* not overtaken by the publication, which happens under the lock.         *)

HeardInv ==
  /\ ViewsTypeInv
  /\ HeardIsCurrent
  /\ \A k \in Kind \ {follows} : published[k] = <<>>

LEMMA HeardInit == ViewsInit => HeardInv
  BY ViewsTypeInit DEF ViewsInit, HeardInv, HeardIsCurrent

LEMMA HeardStep == HeardInv /\ [ViewsNext]_allVars => HeardInv'
<1> SUFFICES ASSUME HeardInv, [ViewsNext]_allVars PROVE HeardInv'
  OBVIOUS
<1>1. ViewsTypeInv'
  BY ViewsTypeStep DEF HeardInv
<1> USE <1>1 DEF HeardInv, HeardIsCurrent, ViewsTypeInv, ViewsTypeOK
<1>2. CASE WatchedReferee \/ (SendDecision /\ Unseen) \/ UNCHANGED allVars
  <2>1. Payload' = Payload
    BY <1>2 DEF Payload, WatchedReferee, Unseen, Referee, MatchBegins, MatchEnds, NextMatch,
         GrantChance, EffectBegins, EffectEnds, SendDecision, shared, allVars, vars, heard
  <2> QED
    BY <1>2, <2>1 DEF WatchedReferee, Unseen, allVars, viewVars
<1>3. CASE HearGameState
  <2>1. UNCHANGED <<chance, active, mark>>
    BY <1>3 DEF HearGameState, ReceiveGameState
  <2>2. published' = published /\ follows' = follows /\ waiting \subseteq waiting'
        /\ ("game" = follows => "game" \in waiting')
    BY <1>3 DEF HearGameState, Announce, viewVars
  <2>3. \A k \in Kind \ {"game"} : Payload'[k] = Payload[k]
    BY <2>1 DEF Payload, Kind
  <2> QED
    BY <2>2, <2>3 DEF Kind
<1>4. CASE HearDecisionSync
  <2>1. UNCHANGED <<game_progress, remain, mark>>
    BY <1>4 DEF HearDecisionSync, ReceiveDecisionSync, heard
  <2>2. published' = published /\ follows' = follows /\ waiting \subseteq waiting'
        /\ ("sync" = follows => "sync" \in waiting')
    BY <1>4 DEF HearDecisionSync, Announce, viewVars
  <2>3. \A k \in Kind \ {"sync"} : Payload'[k] = Payload[k]
    BY <2>1 DEF Payload, Kind
  <2> QED
    BY <2>2, <2>3 DEF Kind
<1>5. CASE HearMarkProcess
  <2>1. UNCHANGED <<game_progress, remain, chance, active>>
    BY <1>5 DEF HearMarkProcess, vars, shared
  <2>2. published' = published /\ follows' = follows /\ waiting \subseteq waiting'
        /\ ("mark" = follows => "mark" \in waiting')
    BY <1>5 DEF HearMarkProcess, Announce, viewVars
  <2>3. \A k \in Kind \ {"mark"} : Payload'[k] = Payload[k]
    BY <2>1 DEF Payload, Kind
  <2> QED
    BY <2>2, <2>3 DEF Kind
<1>6. CASE HearSiteEvent \/ UiFrame
  <2>1. Payload' = Payload
    BY <1>6 DEF HearSiteEvent, UiFrame, Payload, vars, shared, heard
  <2> QED
    BY <1>6, <2>1 DEF HearSiteEvent, UiFrame, viewVars
<1>7. ASSUME NEW kind \in Kind, Publish(kind) PROVE HeardInv'
  <2>1. Payload' = Payload
    BY <1>7 DEF Publish, Payload, vars, shared, heard
  <2> QED
    BY <1>7, <2>1 DEF Publish
<1> QED
  BY <1>2, <1>3, <1>4, <1>5, <1>6, <1>7 DEF ViewsNext

(* A listener that has been told all there is to tell knows what           *)
(* SharedData holds, for every number of matches, marks and notifications. *)
THEOREM HeardCorrect == ViewsSpec => []HeardIsCurrent
<1>1. HeardInv => HeardIsCurrent
  BY DEF HeardInv, HeardIsCurrent, ViewsTypeInv, ViewsTypeOK
<1> QED
  BY HeardInit, HeardStep, <1>1, PTL DEF ViewsSpec

-----------------------------------------------------------------------------
(* The log.  A screen frame pushes up to three lines, one after another;   *)
(* after each of them the log tells the observation of the items of that   *)
(* line and what it told before of the others.                             *)

Values == [Item -> Nat]

Line == UNION {[items -> Nat] : items \in SUBSET Item}

\* A bounded log that tells what is in shows.
TellsBounded(lines, shows) == lines \in Seq(Line) /\ Len(lines) <= MaxLog /\ Tells(lines, shows)

(* A line has the items it is made of, with their values.                  *)
LEMMA LineOfItems ==
  ASSUME NEW shows \in Values, NEW items \in SUBSET Item
  PROVE  /\ Restrict(shows, items) \in Line
         /\ DOMAIN Restrict(shows, items) = items
         /\ \A item \in items : Restrict(shows, items)[item] = shows[item]
<1>1. Restrict(shows, items) \in [items -> Nat]
  BY DEF Restrict, Values
<1> QED
  BY <1>1 DEF Restrict, Line

(* A line of what differs from what the log says so far.                   *)
LEMMA AppendTells ==
  ASSUME NEW lines \in Seq(Line), NEW line \in Line, NEW seen, NEW after,
         Tells(lines, seen),
         \A item \in DOMAIN line : line[item] = after[item],
         \A item \in DOMAIN line \ {"remain"} : seen[item] # after[item],
         \A item \in Item \ DOMAIN line : after[item] = seen[item]
  PROVE  Append(lines, line) \in Seq(Line) /\ Tells(Append(lines, line), after)
<1> DEFINE all == Append(lines, line)
<1>1. /\ all \in Seq(Line) /\ Len(all) = Len(lines) + 1 /\ Len(lines) \in Nat
      /\ all[Len(all)] = line
      /\ \A i \in 1 .. Len(lines) : all[i] = lines[i] /\ lines[i] \in Line
      /\ DOMAIN all = 1 .. Len(lines) + 1 /\ DOMAIN lines = 1 .. Len(lines)
  OBVIOUS
<1>2. \A i \in 1 .. Len(lines) : DOMAIN lines[i] \subseteq Item
  <2> TAKE i \in 1 .. Len(lines)
  <2>1. PICK items \in SUBSET Item : lines[i] \in [items -> Nat]
    BY <1>1 DEF Line
  <2> QED
    BY <2>1
<1> HIDE DEF all
<1>3. ASSUME NEW i \in DOMAIN all, NEW item \in DOMAIN all[i],
             Adjacent(all, item, i, Len(all) + 1)
      PROVE  all[i][item] = after[item]
  <2>1. CASE i = Len(all)
    BY <1>1, <2>1
  <2>2. CASE i # Len(all)
    <3>1. i \in 1 .. Len(lines) /\ Len(all) \in i + 1 .. Len(all) + 1 - 1
      BY <1>1, <2>2
    <3>2. item \notin DOMAIN line
      BY <1>1, <1>3, <3>1 DEF Adjacent
    <3>3. Adjacent(lines, item, i, Len(lines) + 1)
      <4> SUFFICES ASSUME NEW k \in i + 1 .. Len(lines) + 1 - 1
                   PROVE  item \notin DOMAIN lines[k]
        BY DEF Adjacent
      <4>1. k \in 1 .. Len(lines) /\ k \in i + 1 .. Len(all) + 1 - 1
        BY <1>1, <3>1
      <4> QED
        BY <1>1, <1>3, <3>1, <4>1 DEF Adjacent
    <3>4. item \in DOMAIN lines[i] /\ lines[i][item] = seen[item]
      BY <1>1, <1>3, <3>1, <3>3 DEF Tells, NewestTrue
    <3> QED
      BY <1>1, <1>2, <3>1, <3>2, <3>4
  <2> QED
    BY <2>1, <2>2
<1>4. ASSUME NEW i \in DOMAIN all, NEW j \in DOMAIN all, i < j,
             NEW item \in (DOMAIN all[i] \cap DOMAIN all[j]) \ {"remain"},
             Adjacent(all, item, i, j)
      PROVE  all[i][item] # all[j][item]
  <2>1. i \in 1 .. Len(lines) /\ item \in DOMAIN lines[i] /\ item \in DOMAIN all[j]
    BY <1>1, <1>4
  <2>2. CASE j = Len(all)
    <3>1. Adjacent(lines, item, i, Len(lines) + 1)
      <4> SUFFICES ASSUME NEW k \in i + 1 .. Len(lines) + 1 - 1
                   PROVE  item \notin DOMAIN lines[k]
        BY DEF Adjacent
      <4>1. k \in 1 .. Len(lines) /\ k \in i + 1 .. j - 1
        BY <1>1, <2>1, <2>2
      <4> QED
        BY <1>1, <1>4, <2>1, <4>1 DEF Adjacent
    <3>2. lines[i][item] = seen[item]
      BY <1>1, <2>1, <3>1 DEF Tells, NewestTrue
    <3>3. item \in DOMAIN line \ {"remain"} /\ all[j] = line
      BY <1>1, <1>4, <2>1, <2>2
    <3> QED
      BY <1>1, <2>1, <3>2, <3>3
  <2>3. CASE j # Len(all)
    <3>1. j \in 1 .. Len(lines) /\ item \in DOMAIN lines[j]
      BY <1>1, <2>1, <2>3
    <3>2. Adjacent(lines, item, i, j)
      <4> SUFFICES ASSUME NEW k \in i + 1 .. j - 1
                   PROVE  item \notin DOMAIN lines[k]
        BY DEF Adjacent
      <4>1. k \in 1 .. Len(lines)
        BY <1>1, <2>1, <3>1
      <4> QED
        BY <1>1, <1>4, <2>1, <4>1 DEF Adjacent
    <3> QED
      BY <1>1, <1>4, <2>1, <3>1, <3>2 DEF Tells, NoRepeat
  <2> QED
    BY <2>2, <2>3
<1>5. NewestTrue(all, after)
  BY <1>3 DEF NewestTrue
<1>6. NoRepeat(all)
  BY <1>4 DEF NoRepeat
<1> QED
  BY <1>1, <1>5, <1>6 DEF Tells, all

(* The oldest line goes.                                                   *)
LEMMA BoundedTells ==
  ASSUME NEW lines \in Seq(Line), NEW shows, Tells(lines, shows), Len(lines) = MaxLog + 1
  PROVE  TellsBounded(Bounded(lines), shows)
<1> DEFINE cut == Bounded(lines)
<1>1. MaxLog \in Nat \ {0}
  BY ViewsAssumption
<1>2. cut = SubSeq(lines, 2, Len(lines))
  BY <1>1 DEF Bounded
<1>3. /\ cut \in Seq(Line) /\ Len(cut) = MaxLog
      /\ DOMAIN cut = 1 .. MaxLog /\ DOMAIN lines = 1 .. MaxLog + 1
      /\ \A i \in 1 .. MaxLog : cut[i] = lines[i + 1]
  BY <1>1, <1>2
<1> HIDE DEF cut
<1>4. ASSUME NEW i \in 1 .. MaxLog, NEW j \in i .. MaxLog + 1, NEW item,
             Adjacent(cut, item, i, j)
      PROVE  Adjacent(lines, item, i + 1, j + 1)
  <2> SUFFICES ASSUME NEW k \in i + 1 + 1 .. j + 1 - 1
               PROVE  item \notin DOMAIN lines[k]
    BY DEF Adjacent
  <2>1. k - 1 \in i + 1 .. j - 1 /\ k - 1 \in 1 .. MaxLog /\ (k - 1) + 1 = k
    BY <1>1
  <2>2. cut[k - 1] = lines[k]
    BY <1>3, <2>1
  <2> QED
    BY <1>4, <2>1, <2>2 DEF Adjacent
<1>5. ASSUME NEW i \in DOMAIN cut, NEW item \in DOMAIN cut[i],
             Adjacent(cut, item, i, Len(cut) + 1)
      PROVE  cut[i][item] = shows[item]
  <2>1. i \in 1 .. MaxLog /\ MaxLog + 1 \in i .. MaxLog + 1 /\ i + 1 \in DOMAIN lines
    BY <1>1, <1>3
  <2>2. Adjacent(lines, item, i + 1, Len(lines) + 1)
    BY <1>3, <1>4, <1>5, <2>1
  <2>3. cut[i] = lines[i + 1]
    BY <1>3, <2>1
  <2> QED
    BY <2>1, <2>2, <2>3 DEF Tells, NewestTrue
<1>6. ASSUME NEW i \in DOMAIN cut, NEW j \in DOMAIN cut, i < j,
             NEW item \in (DOMAIN cut[i] \cap DOMAIN cut[j]) \ {"remain"},
             Adjacent(cut, item, i, j)
      PROVE  cut[i][item] # cut[j][item]
  <2>1. /\ i \in 1 .. MaxLog /\ j \in i .. MaxLog + 1 /\ j \in 1 .. MaxLog
        /\ i + 1 \in DOMAIN lines /\ j + 1 \in DOMAIN lines /\ i + 1 < j + 1
    BY <1>1, <1>3, <1>6
  <2>2. Adjacent(lines, item, i + 1, j + 1)
    BY <1>4, <1>6, <2>1
  <2>3. cut[i] = lines[i + 1] /\ cut[j] = lines[j + 1]
    BY <1>3, <2>1
  <2> QED
    BY <1>6, <2>1, <2>2, <2>3 DEF Tells, NoRepeat
<1>7. NewestTrue(cut, shows)
  BY <1>5 DEF NewestTrue
<1>8. NoRepeat(cut)
  BY <1>6 DEF NoRepeat
<1> QED
  BY <1>1, <1>3, <1>7, <1>8 DEF Tells, TellsBounded, cut

(* One line, or none: the log tells the new values of its items and, as    *)
(* before, the others.                                                     *)
LEMMA NotedTells ==
  ASSUME NEW lines, NEW seen \in Values, NEW after \in Values, NEW now \in Values,
         NEW items \in SUBSET Item, TellsBounded(lines, seen),
         \A item \in items : after[item] = now[item],
         \A item \in items \ {"remain"} : seen[item] # now[item],
         \A item \in Item \ items : after[item] = seen[item]
  PROVE  TellsBounded(Noted(lines, items, now), after)
<1>1. CASE items = {}
  <2>1. after = seen
    BY <1>1 DEF Values
  <2> QED
    BY <1>1, <2>1 DEF Noted
<1>2. CASE items # {}
  <2> DEFINE line == Restrict(now, items)
             all == Append(lines, line)
  <2>1. lines \in Seq(Line) /\ Len(lines) <= MaxLog /\ Tells(lines, seen)
    BY DEF TellsBounded
  <2>2. /\ line \in Line /\ DOMAIN line = items
        /\ \A item \in items : line[item] = now[item]
    BY LineOfItems
  <2>3. Noted(lines, items, now) = IF Len(all) > MaxLog THEN Bounded(all) ELSE all
    BY <1>2 DEF Noted, Pushed
  <2> HIDE DEF line
  <2>4. all \in Seq(Line) /\ Tells(all, after)
    BY <2>1, <2>2, AppendTells
  <2>5. Len(all) = Len(lines) + 1 /\ Len(lines) \in Nat /\ MaxLog \in Nat
    BY <2>1, <2>2, ViewsAssumption
  <2> HIDE DEF all
  <2>6. CASE Len(all) > MaxLog
    <3>1. Len(all) = MaxLog + 1
      BY <2>1, <2>5, <2>6
    <3> QED
      BY <2>3, <2>4, <2>6, <3>1, BoundedTells
  <2>7. CASE ~(Len(all) > MaxLog)
    BY <2>3, <2>4, <2>5, <2>7 DEF TellsBounded
  <2> QED
    BY <2>6, <2>7
<1> QED
  BY <1>1, <1>2

Observation == [progress : Nat, shows : Values]

(* The three of them.                                                      *)
LEMMA DiffTells ==
  ASSUME NEW lines, NEW before \in Observation, NEW now \in Observation,
         TellsBounded(lines, before.shows)
  PROVE  TellsBounded(Diff(lines, before, now), now.shows)
<1> DEFINE game == GameItems(before, now)
           sites == SiteItems(before, now)
           marks == MarkItems(before, now)
           old == before.shows
           new == now.shows
           first == [item \in Item |-> IF item \in game THEN new[item] ELSE old[item]]
           second == [item \in Item |-> IF item \in game \cup sites THEN new[item] ELSE old[item]]
           afterGame == Noted(lines, game, new)
           afterSite == Noted(afterGame, sites, new)
<1>1. /\ game \subseteq {"remain"} /\ sites \subseteq {"site"} /\ marks \subseteq Shown
      /\ \A item \in sites \cup marks : old[item] # new[item]
      /\ \A item \in Item \ (game \cup sites \cup marks) : old[item] = new[item]
  BY DEF GameItems, SiteItems, MarkItems, Item
<1>2. Shown \cap {"remain", "site"} = {} /\ Item = {"remain", "site"} \cup Shown
  BY ViewsAssumption DEF Item
<1>3. old \in Values /\ new \in Values
  BY DEF Observation
<1> HIDE DEF game, sites, marks, old, new
<1>4. /\ first \in Values
      /\ \A item \in game : first[item] = new[item]
      /\ \A item \in Item \ game : first[item] = old[item]
  BY <1>1, <1>2, <1>3 DEF Values
<1>5. /\ second \in Values
      /\ \A item \in game \cup sites : second[item] = new[item]
      /\ \A item \in Item \ (game \cup sites) : second[item] = old[item]
  BY <1>1, <1>2, <1>3 DEF Values
<1> HIDE DEF first, second
<1>6. TellsBounded(afterGame, first)
  <2>1. TellsBounded(lines, old) /\ game \in SUBSET Item
    BY <1>1, <1>2 DEF old
  <2>2. game \ {"remain"} = {}
    BY <1>1
  <2> QED
    BY <1>3, <1>4, <2>1, <2>2, NotedTells
<1> HIDE DEF afterGame
<1>7. TellsBounded(afterSite, second)
  <2>1. sites \in SUBSET Item /\ sites \cap game = {}
    BY <1>1, <1>2
  <2>2. /\ \A item \in sites : first[item] = old[item] /\ first[item] # new[item]
        /\ \A item \in Item \ sites : second[item] = first[item]
    BY <1>1, <1>2, <1>4, <1>5, <2>1
  <2> QED
    BY <1>3, <1>4, <1>5, <1>6, <2>1, <2>2, NotedTells
<1> HIDE DEF afterSite
<1>8. TellsBounded(Noted(afterSite, marks, new), new)
  <2>1. marks \in SUBSET Item /\ marks \cap (game \cup sites) = {}
    BY <1>1, <1>2
  <2>2. /\ \A item \in marks : second[item] = old[item] /\ second[item] # new[item]
        /\ \A item \in Item \ marks : new[item] = second[item]
    BY <1>1, <1>2, <1>5, <2>1
  <2> QED
    BY <1>3, <1>5, <1>7, <2>1, <2>2, NotedTells
<1> QED
  BY <1>8 DEF Diff, afterGame, afterSite, game, sites, marks, new

\* Before the first observation there is no line.
LogInv ==
  /\ ViewsTypeInv
  /\ IF observed = <<>> THEN log = <<>>
     ELSE observed \in Seq(Observation) /\ TellsBounded(log, observed[1].shows)

LEMMA LogInit == ViewsInit => LogInv
  BY ViewsTypeInit DEF ViewsInit, LogInv

(* What a screen frame observes.                                           *)
LEMMA CurrentObserved == ViewsTypeInv => Current \in Observation
<1> SUFFICES ASSUME ViewsTypeInv PROVE Current \in Observation
  OBVIOUS
<1>1. /\ game_progress \in Nat /\ remain \in Nat /\ site \in Nat
      /\ mark \in [Mark -> {0, 1}] /\ Shown \subseteq Mark
  BY ViewsAssumption
     DEF ViewsTypeInv, ViewsTypeOK, TypeOK, Preparation, Match, Settlement
<1>2. Shows \in Values
  BY <1>1 DEF Shows, Values, Item
<1> QED
  BY <1>1, <1>2 DEF Current, Observation

LEMMA LogStep == LogInv /\ [ViewsNext]_allVars => LogInv'
<1> SUFFICES ASSUME LogInv, [ViewsNext]_allVars PROVE LogInv'
  OBVIOUS
<1>1. ViewsTypeInv'
  BY ViewsTypeStep DEF LogInv
<1>2. CASE UNCHANGED <<observed, log>>
  BY <1>1, <1>2 DEF LogInv, TellsBounded, Tells, NewestTrue, NoRepeat, Adjacent
<1>3. CASE UiFrame
  <2>1. Current \in Observation
    BY CurrentObserved DEF LogInv
  <2>2. PICK now \in Observation : now = Current
    BY <2>1
  <2>3. observed' = <<now>> /\ observed'[1] = now /\ observed' # <<>>
        /\ observed' \in Seq(Observation)
    BY <1>3, <2>2 DEF UiFrame
  <2>4. TellsBounded(log', now.shows)
    <3>1. CASE observed = <<>>
      <4>1. log' = <<>>
        BY <1>3, <3>1 DEF UiFrame, LogInv
      <4>2. <<>> \in Seq(Line) /\ Len(<<>>) = 0 /\ DOMAIN <<>> = {} /\ MaxLog \in Nat
        BY ViewsAssumption
      <4> QED
        BY <4>1, <4>2 DEF TellsBounded, Tells, NewestTrue, NoRepeat
    <3>2. CASE observed # <<>>
      <4>1. observed[1] \in Observation /\ TellsBounded(log, observed[1].shows)
        BY <3>2 DEF LogInv
      <4>2. log' = Diff(log, observed[1], now)
        BY <1>3, <2>2, <3>2 DEF UiFrame
      <4> QED
        BY <4>1, <4>2, DiffTells
    <3> QED
      BY <3>1, <3>2
  <2> QED
    BY <1>1, <2>3, <2>4 DEF LogInv, TellsBounded, Tells, NewestTrue, NoRepeat, Adjacent
<1>4. ASSUME ~UiFrame PROVE UNCHANGED <<observed, log>>
  BY <1>4 DEF ViewsNext, WatchedReferee, Unseen, HearGameState, HearDecisionSync,
       HearMarkProcess, HearSiteEvent, Announce, Publish, viewVars, allVars
<1> QED
  BY <1>2, <1>3, <1>4

(* The listener and the log both tell the truth, for every set of marks    *)
(* and of labels and every bound of the log: its newest line with an item  *)
(* shows what the screen last saw of it, and neither the site nor a label  *)
(* is shown twice running with the same value.                             *)
THEOREM WatchersCorrect == ViewsSpec => []WatchersTrue
<1>1. LogInv => LogTells
  <2> SUFFICES ASSUME LogInv PROVE LogTells
    OBVIOUS
  <2>1. CASE observed = <<>>
    <3>1. log = <<>> /\ Len(log) = 0 /\ MaxLog \in Nat
      BY <2>1, ViewsAssumption DEF LogInv
    <3> QED
      BY <2>1, <3>1 DEF LogTells
  <2>2. CASE observed # <<>>
    BY <2>2 DEF LogInv, LogTells, TellsBounded
  <2> QED
    BY <2>1, <2>2
<1>2. LogInv /\ HeardIsCurrent => WatchersTrue
  BY <1>1 DEF WatchersTrue
<1> QED
  BY LogInit, LogStep, HeardCorrect, <1>2, PTL DEF ViewsSpec

(* For a referee whose settlement frames get through, the two theorems     *)
(* about radar_cmd hold of the program that is watched as well.            *)
THEOREM ViewsKeepDecision ==
  ASSUME ~Lossy
  PROVE  ViewsSpec => [](MatchStartsAtZero /\ NeverWithdrawn)
  BY ViewsImplementDecision, MatchStartCorrect, MonotoneCorrect, PTL
=============================================================================
