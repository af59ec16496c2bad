--------------------------- MODULE RadarDecision ---------------------------
(***************************************************************************)
(* The request for double weakness (src/serial/serial_parser.rs, the       *)
(* 0x0001 and 0x020E frames; src/serial/serial.rs, the 0x0121 frame).      *)
(* radar_cmd is raised when a 0x020E shows a chance and is sent to the     *)
(* referee by the transmitter, which reads it when it gets to the          *)
(* notification and not when the notification was sent.                    *)
(*                                                                         *)
(* The referee is external: it goes through the stages of match after      *)
(* match, grants chances, and counts what it is asked for.  It repeats its *)
(* frames at a fixed rate, so what arrives shows its present state; a      *)
(* frame that is lost is one that is not delivered.                        *)
(***************************************************************************)
EXTENDS Integers

CONSTANTS MaxMatches,  \* bound on the matches
          MaxPending,  \* bound on the notifications waiting in the channel
          Lossy        \* the frames of a settlement may all be lost

\* game_progress: preparation and what precedes a match, match, settlement.
Preparation == 1
Match == 4
Settlement == 5

\* The field is a u2; a match grants two chances.
Chances == 0 .. 2

ASSUME DecisionAssumption ==
  MaxMatches \in Nat /\ MaxPending \in Nat \ {0} /\ Lossy \in BOOLEAN

VARIABLES
  \* the referee
  stage, matches, granted,  \* the chances granted in this match
  refChance, refActive,     \* the chances left, an effect in force
  refCmd,                   \* the highest radar_cmd received in this match
  used,                     \* the requests it has carried out
  settled,                  \* the program has had a 0x020E of this settlement
  \* SharedData and the transmitter's channel
  game_progress, chance, active, radar_cmd,
  pending                   \* decision notifications in the channel

referee == <<stage, matches, granted, refChance, refActive, refCmd, used, settled>>
shared == <<game_progress, chance, active, radar_cmd>>
vars == <<referee, shared, pending>>

TypeOK ==
  /\ stage \in {Preparation, Match, Settlement}
  /\ matches \in 0 .. MaxMatches
  /\ granted \in Chances /\ refChance \in Chances /\ used \in Chances
  /\ refActive \in {0, 1}
  /\ refCmd \in 0 .. 2
  /\ settled \in BOOLEAN
  /\ game_progress \in {0, Preparation, Match, Settlement}
  /\ chance \in Chances
  /\ active \in {0, 1}
  /\ radar_cmd \in 0 .. 2
  /\ pending \in 0 .. MaxPending

Init ==
  /\ stage = Preparation /\ matches = 0 /\ granted = 0
  /\ refChance = 0 /\ refActive = 0 /\ refCmd = 0 /\ used = 0
  /\ settled = FALSE
  /\ game_progress = 0 /\ chance = 0 /\ active = 0 /\ radar_cmd = 0
  /\ pending = 0

-----------------------------------------------------------------------------
(* The referee.                                                            *)

MatchBegins ==
  /\ stage = Preparation
  /\ stage' = Match
  /\ UNCHANGED <<matches, granted, refChance, refActive, refCmd, used, settled, shared, pending>>

MatchEnds ==
  /\ stage = Match
  /\ stage' = Settlement
  /\ settled' = FALSE
  /\ UNCHANGED <<matches, granted, refChance, refActive, refCmd, used, shared, pending>>

\* A settlement lasts many periods of 0x0001 and 0x020E: unless Lossy, one of
\* each gets through, in this order.
NextMatch ==
  /\ stage = Settlement
  /\ Lossy \/ settled
  /\ matches < MaxMatches
  /\ stage' = Preparation
  /\ matches' = matches + 1
  /\ granted' = 0 /\ refChance' = 0 /\ refActive' = 0 /\ refCmd' = 0 /\ used' = 0
  /\ UNCHANGED <<settled, shared, pending>>

GrantChance ==
  /\ stage = Match
  /\ granted < 2
  /\ granted' = granted + 1
  /\ refChance' = refChance + 1
  /\ UNCHANGED <<stage, matches, refActive, refCmd, used, settled, shared, pending>>

\* A request is carried out, one at a time, while there is a chance.
EffectBegins ==
  /\ stage = Match
  /\ refActive = 0 /\ refChance > 0 /\ used < refCmd
  /\ refActive' = 1
  /\ refChance' = refChance - 1
  /\ used' = used + 1
  /\ UNCHANGED <<stage, matches, granted, refCmd, settled, shared, pending>>

EffectEnds ==
  /\ refActive = 1
  /\ refActive' = 0
  /\ UNCHANGED <<stage, matches, granted, refChance, refCmd, used, settled, shared, pending>>

Referee == MatchBegins \/ MatchEnds \/ NextMatch \/ GrantChance \/ EffectBegins \/ EffectEnds

-----------------------------------------------------------------------------
(* The parser.                                                             *)

\* 0x0001.
ReceiveGameState ==
  /\ game_progress' = stage
  /\ UNCHANGED <<referee, chance, active, radar_cmd, pending>>

\* Mutant: the limit is one too high.
Raised_OffByOne(c) == IF c > 0 /\ radar_cmd <= 2 THEN radar_cmd + 1 ELSE radar_cmd

\* Mutant: the request follows the chances left.
Raised_Withdraws(c) == IF c > radar_cmd THEN radar_cmd + 1 ELSE c

\* Mutant: the limit is one request.
Raised_Once(c) == IF c > 0 /\ radar_cmd < 1 THEN radar_cmd + 1 ELSE radar_cmd

Raised(c) == IF c > 0 /\ radar_cmd < 2 THEN radar_cmd + 1 ELSE radar_cmd

\* Mutant: the settlement clears the chance only.
Settle_KeepsCmd ==
  /\ game_progress = Settlement
  /\ chance' = 0
  /\ UNCHANGED <<radar_cmd, pending>>

Settle ==
  /\ game_progress = Settlement
  /\ chance' = 0
  /\ radar_cmd' = 0
  /\ UNCHANGED pending

\* 0x020E: it is stored, evaluated by the stage last heard of, and in a match
\* the transmitter is notified, with or without a chance.
ReceiveDecisionSync ==
  /\ active' = refActive
  /\ \/ Settle
     \/ /\ game_progress = Match
        /\ pending < MaxPending
        /\ chance' = refChance
        /\ radar_cmd' = Raised(refChance)
        /\ pending' = pending + 1
     \/ /\ game_progress \notin {Settlement, Match}
        /\ chance' = refChance
        /\ UNCHANGED <<radar_cmd, pending>>
  /\ settled' = (settled \/ (stage = Settlement /\ game_progress = Settlement))
  /\ UNCHANGED <<stage, matches, granted, refChance, refActive, refCmd, used, game_progress>>

-----------------------------------------------------------------------------
(* The transmitter.                                                        *)

\* A 0x0121 with the radar_cmd of this moment; it arrives or it is lost.
SendDecision ==
  /\ pending > 0
  /\ pending' = pending - 1
  /\ refCmd' \in {refCmd} \cup
                 (IF stage = Match /\ radar_cmd > refCmd THEN {radar_cmd} ELSE {})
  /\ UNCHANGED <<stage, matches, granted, refChance, refActive, used, settled, shared>>

-----------------------------------------------------------------------------

Next == Referee \/ ReceiveGameState \/ ReceiveDecisionSync \/ SendDecision

Spec == Init /\ [][Next]_vars

(***************************************************************************)
(* The referee repeats its frames, so one of them arrives at last, and so  *)
(* does a 0x0121, which is sent again for each 0x020E.  The transmitter    *)
(* runs.  The referee grants and carries out what it likes.                *)
(***************************************************************************)
Fairness ==
  /\ WF_vars(ReceiveGameState)
  /\ SF_vars(ReceiveDecisionSync)
  /\ WF_vars(SendDecision)
  /\ SF_vars(SendDecision /\ refCmd' = radar_cmd)

FairSpec == Spec /\ Fairness

-----------------------------------------------------------------------------
(* Properties.                                                             *)

(* radar_cmd is 0 from the start of the preparation to the start of the    *)
(* match: a match begins with no request left over from the one before.    *)
MatchStartsAtZero == stage = Preparation => radar_cmd = 0

(* Within a match the transmitter never sends the referee less than it     *)
(* has received before: radar_cmd rises monotonically, as the protocol     *)
(* asks, in spite of notifications that are answered late.                 *)
NeverWithdrawn == stage = Match => radar_cmd >= refCmd

(* A chance that the referee still holds is asked for with a request it    *)
(* has not carried out yet, or the match ends: neither lost frames nor     *)
(* late notifications waste a chance, the second one included.             *)
ChanceRequested ==
  (stage = Match /\ refChance > 0) ~> (refCmd > used \/ stage # Match)

(* serial_parser.rs, lines 178 and 179: the first request is made with no  *)
(* effect in force, the second one, from 1 to 2, during the effect of the  *)
(* first.                                                                  *)
SecondDuringFirst == [][radar_cmd = 1 /\ radar_cmd' = 2 => active' = 1]_vars
=============================================================================
