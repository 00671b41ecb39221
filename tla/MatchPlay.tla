------------------------------ MODULE MatchPlay ------------------------------
(***************************************************************************)
(* One match, from its start to its result: what typing does under the     *)
(* three rules (applyTypingInput and its helpers), the COM player, the     *)
(* deadline and sudden death, forfeits, and who comes first (scoring.ts).  *)
(* RoomAuthority abstracts all this to messages that decide the match and  *)
(* messages that do not.                                                   *)
(*                                                                         *)
(* A message is a sequence of keys: one completes a character of the       *)
(* prompt, is part of one (a romaji letter), or is a miss.  What only the  *)
(* display needs (WPM, accuracy, times) is left out; where the order of    *)
(* the players rests on these alone, any order is possible.                *)
(***************************************************************************)
EXTENDS Integers, FiniteSets, Sequences

CONSTANTS
  Com,            \* the COM player
  Rooms,          \* the sets of players a match may start with
  PromptLength,   \* characters of the prompt
  TotalLength,    \* characters of all prompts of a time attack
  Duration,       \* from the start to matchEndsAt
  MaxHp,          \* HP_BATTLE_MAX_HP
  GuardStreak,    \* MISTAKE_GUARD_STREAK
  MaxGuards,      \* MAX_MISTAKE_GUARDS
  Burst, Rate,    \* TYPING_INITIAL_BURST_CANONICAL, ..._PER_SECOND
  MaxSpeed,       \* characters of a BOT_TICK_MS at most
  MaxKeys,        \* bound: keys of a message
  MaxTime         \* bound: of the clock

\* a human plays, and MAX_PLAYERS is 2
ASSUME RoomAssumption   == \A room \in Rooms : /\ room \ {Com} # {}
                                               /\ \E g, h \in room : room = {g, h}
ASSUME PromptAssumption == {PromptLength, TotalLength} \subseteq Nat \ {0}
ASSUME RateAssumption   == {Burst, Rate, Duration, MaxTime} \subseteq Nat /\ Duration > 0
ASSUME BattleAssumption == {MaxHp, GuardStreak, MaxSpeed} \subseteq Nat \ {0} /\ {MaxGuards, MaxKeys} \subseteq Nat

VARIABLES
  rule, status, now,
  matchEndsAt,    \* 0 for undefined
  suddenDeath,
  player,         \* room.players
  accepted,       \* characters counted for a player, to compare with the budget
  winner          \* the first of the result, Nobody before

vars == <<rule, status, now, matchEndsAt, suddenDeath, player, accepted, winner>>

Rules    == {"race", "timeAttack", "hpBattle"}
Keys     == {"complete", "part", "miss"}
Nobody   == "nobody"
players  == DOMAIN player
Opponents(g) == players \ {g}
Expired  == matchEndsAt # 0 /\ now >= matchEndsAt
Least(m, n) == IF m <= n THEN m ELSE n

\* resetPlayers; a player who has no hp in this rule keeps MaxHp
NewPlayer == [progress |-> 0, streak |-> 0, guards |-> 0, hp |-> MaxHp,
              finish |-> "undefined", tokens |-> Burst, refilledAt |-> 0]

\* nothing is left to type; an HP battle starts over instead
AtEnd(p) == \/ rule = "race" /\ p.progress = PromptLength
            \/ rule = "timeAttack" /\ p.progress = TotalLength

-----------------------------------------------------------------------------
(* Keys.                                                                   *)

\* n more in a row: each full GuardStreak of them earns a guard.  The streak
\* matters only up to multiples of it.
Extend(p, n) ==
  [p EXCEPT !.streak = (p.streak + n) % GuardStreak,
            !.guards = Least(p.guards + (p.streak + n) \div GuardStreak, MaxGuards)]

\* progress by n, which starts over in an HP battle
Advance(p, n) ==
  [p EXCEPT !.progress = IF rule = "hpBattle" THEN (p.progress + n) % PromptLength
                         ELSE p.progress + n]

\* advanceProgress or advanceRomajiProgress with applyGuardedProgress.  At the
\* end of the prompts a key is ignored (romaji) or a mistake (kana).
Press(e, k) ==
  IF k = "miss"
  THEN IF e.p.guards > 0
       THEN [e EXCEPT !.p.guards = @ - 1]
       ELSE [e EXCEPT !.p.streak = 0, !.missed = @ + 1]
  ELSE IF AtEnd(e.p) THEN e
  ELSE [p |-> Extend(IF k = "complete" THEN Advance(e.p, 1) ELSE e.p, 1),
        done |-> e.done + (IF k = "complete" THEN 1 ELSE 0), missed |-> e.missed]

\* what a message makes of a player, key by key, with the characters it
\* completes and the mistakes that no guard absorbs
Typed(p, keys) ==
  LET after[n \in 0..Len(keys)] ==
        IF n = 0 THEN [p |-> p, done |-> 0, missed |-> 0]
        ELSE Press(after[n - 1], keys[n])
  IN  after[Len(keys)]

\* the typing budget at this time
Refilled(p) == Least(Burst, p.tokens + (now - p.refilledAt) * Rate)

\* applyHpDamage
ApplyHpDamage(p, d) ==
  IF d = 0 \/ p.hp = 0 THEN p
  ELSE LET damage == IF suddenDeath THEN 2 * d ELSE d
           left   == IF damage >= p.hp THEN 0 ELSE p.hp - damage
       IN  [p EXCEPT !.hp = left, !.finish = IF left = 0 THEN "eliminated" ELSE @]

\* the hits of g strike the others and the mistakes g itself
Strike(pl, g, hits, mistakes) ==
  IF rule # "hpBattle" THEN pl
  ELSE [h \in DOMAIN pl |-> ApplyHpDamage(pl[h], IF h = g THEN mistakes ELSE hits)]

\* a race is finished at the end of the prompt
Finish(p) ==
  IF rule = "race" /\ p.progress = PromptLength THEN [p EXCEPT !.finish = "finished"] ELSE p

-----------------------------------------------------------------------------
(* The end of a match.                                                     *)

Forfeited(p) == p.finish = "forfeited"

\* isPlayerFinished
IsFinished(p) ==
  \/ p.finish \in {"finished", "forfeited"}
  \/ p.finish = "undefined" /\ p.progress >= PromptLength

\* Mutant: comparePlayers ranks forfeited players by what they typed
BeatsThoughForfeited(p, q) ==
  CASE rule = "timeAttack" -> p.progress > q.progress
    [] rule = "hpBattle"   -> p.hp > q.hp
    [] rule = "race"       -> p.progress > q.progress

\* comparePlayers as far as it is not a matter of time and accuracy
Beats(p, q) ==
  \/ Forfeited(q) /\ ~Forfeited(p)
  \/ /\ Forfeited(p) <=> Forfeited(q)
     /\ CASE rule = "timeAttack" -> p.progress > q.progress
          [] rule = "hpBattle" ->
               \/ IsFinished(p) /\ ~IsFinished(q)
               \/ /\ IsFinished(p) <=> IsFinished(q)
                  /\ \/ p.hp > q.hp
                     \/ p.hp = q.hp /\ ~IsFinished(p) /\ p.progress > q.progress
          [] rule = "race" ->
               \/ IsFinished(p) /\ ~IsFinished(q)
               \/ ~IsFinished(p) /\ ~IsFinished(q) /\ p.progress > q.progress

\* finalizeRoom with rankPlayers: nobody is ranked before the winner
FinalizeRoom(pl) ==
  /\ status' = "finished"
  /\ player' = pl
  /\ winner' \in {g \in DOMAIN pl : \A h \in DOMAIN pl : ~Beats(pl[h], pl[g])}

FinalizeUnfinishedBots(pl) ==
  [g \in DOMAIN pl |-> IF g = Com /\ pl[g].progress < PromptLength
                       THEN [pl[g] EXCEPT !.finish = "unfinished"] ELSE pl[g]]

FinalizeUnfinishedRacePlayers(pl) ==
  [g \in DOMAIN pl |-> IF pl[g].finish # "finished" /\ pl[g].progress < PromptLength
                       THEN [pl[g] EXCEPT !.finish = "unfinished"] ELSE pl[g]]

AreHumansFinished(pl) ==
  \A g \in DOMAIN pl \ {Com} :
    \/ pl[g].finish \in {"forfeited", "eliminated"}
    \/ rule = "hpBattle" /\ pl[g].hp = 0
    \/ rule = "race" /\ pl[g].progress >= PromptLength

\* maybeFinalizeRoom, with its returns in order
MaybeFinalizeRoom(pl) ==
  IF rule = "hpBattle" /\ (\E g \in DOMAIN pl : pl[g].hp = 0) THEN FinalizeRoom(pl)
  ELSE IF rule = "race" /\ (\E g \in DOMAIN pl : pl[g].finish = "finished")
  THEN FinalizeRoom(FinalizeUnfinishedRacePlayers(pl))
  ELSE IF rule # "timeAttack" /\ AreHumansFinished(pl)
  THEN FinalizeRoom(FinalizeUnfinishedBots(pl))
  ELSE player' = pl /\ UNCHANGED <<status, winner>>

-----------------------------------------------------------------------------
(* Actions.                                                                *)

\* the start of a match: resetPlayers, scheduleMatchStart
Init ==
  /\ rule \in Rules /\ status = "playing" /\ now = 0
  /\ matchEndsAt = IF rule = "race" THEN 0 ELSE Duration
  /\ suddenDeath = FALSE /\ winner = Nobody
  /\ \E room \in Rooms :
       player = [g \in room |-> NewPlayer] /\ accepted = [g \in room |-> 0]

\* Mutant: a rejected message fills up the budget all the same
TypeRefilling(g, keys) ==
  LET typed == Typed(player[g], keys)
      over  == typed.done > Refilled(player[g])
      p     == [IF over THEN player[g] ELSE typed.p
                  EXCEPT !.tokens = IF over THEN Burst ELSE Refilled(player[g]) - typed.done,
                         !.refilledAt = now]
  IN  /\ status = "playing" /\ ~(rule = "timeAttack" /\ Expired)
      /\ MaybeFinalizeRoom(Strike([player EXCEPT ![g] = Finish(p)], g,
                                  IF over THEN 0 ELSE typed.done, typed.missed))
      /\ accepted' = [accepted EXCEPT ![g] = @ + (IF over THEN 0 ELSE typed.done)]
      /\ UNCHANGED <<rule, now, matchEndsAt, suddenDeath>>

\* updateProgress and finishTyping with applyTypingInput: a message above the
\* budget changes nothing, another one strikes and may end the match
Type(g, keys) ==
  LET typed == Typed(player[g], keys)
      p     == [typed.p EXCEPT !.tokens = Refilled(player[g]) - typed.done,
                               !.refilledAt = now]
  IN  /\ status = "playing" /\ ~(rule = "timeAttack" /\ Expired)
      /\ typed.done <= Refilled(player[g])
      /\ MaybeFinalizeRoom(Strike([player EXCEPT ![g] = Finish(p)], g,
                                  typed.done, typed.missed))
      /\ accepted' = [accepted EXCEPT ![g] = @ + typed.done]
      /\ UNCHANGED <<rule, now, matchEndsAt, suddenDeath>>

\* ... after the deadline of a time attack the message ends it instead
TypeTooLate ==
  /\ status = "playing" /\ rule = "timeAttack" /\ Expired
  /\ FinalizeRoom(player)
  /\ UNCHANGED <<rule, now, matchEndsAt, suddenDeath, accepted>>

\* applyBotProgress: what a tick of n characters can still add
BotDelta(n) ==
  CASE rule = "race"       -> Least(n, PromptLength - player[Com].progress)
    [] rule = "timeAttack" -> Least(n, TotalLength - player[Com].progress)
    [] rule = "hpBattle"   -> n

\* Mutant: advanceBot stops when the deadline is gone
BotTickTimed == Com \in players /\ status = "playing" /\ (rule = "race" \/ (matchEndsAt # 0 /\ ~Expired))

\* the interval of scheduleBotProgress fires in time
BotTick == Com \in players /\ status = "playing" /\ ~(rule = "timeAttack" /\ Expired)

\* advanceBot with characters typed correctly
BotHits(n) ==
  LET d == BotDelta(n)
      p == Extend(Advance(player[Com], d), d)
  IN  /\ BotTick
      /\ MaybeFinalizeRoom(Strike([player EXCEPT ![Com] = Finish(p)], Com, d, 0))
      /\ UNCHANGED <<rule, now, matchEndsAt, suddenDeath, accepted>>

\* ... with a mistake, which a guard absorbs as a whole
BotErrs(n) ==
  LET m == IF rule = "timeAttack" THEN BotDelta(n) ELSE n
      guarded == player[Com].guards > 0
      p == IF m = 0 THEN player[Com]
           ELSE IF guarded THEN [player[Com] EXCEPT !.guards = @ - 1]
           ELSE [player[Com] EXCEPT !.streak = 0]
  IN  /\ BotTick
      /\ MaybeFinalizeRoom(Strike([player EXCEPT ![Com] = p], Com, 0,
                                  IF guarded THEN 0 ELSE m))
      /\ UNCHANGED <<rule, now, matchEndsAt, suddenDeath, accepted>>

\* handleForfeits, and leaving a match: those who go forfeit, the match ends
Forfeit(S) ==
  /\ status = "playing" /\ S # {}
  /\ FinalizeRoom(FinalizeUnfinishedBots(
       [g \in players |-> IF g \in S THEN [player[g] EXCEPT !.finish = "forfeited"]
                          ELSE player[g]]))
  /\ UNCHANGED <<rule, now, matchEndsAt, suddenDeath, accepted>>

\* handleTimeAttackExpirations: a battle that is tied goes on without a
\* deadline, otherwise the match ends
HandleExpirations ==
  /\ status = "playing" /\ Expired
  /\ IF rule = "hpBattle" /\ \A g, h \in players : player[g].hp = player[h].hp
     THEN /\ suddenDeath' = TRUE /\ matchEndsAt' = 0
          /\ UNCHANGED <<status, player, winner>>
     ELSE /\ FinalizeRoom(FinalizeUnfinishedBots(player))
          /\ UNCHANGED <<matchEndsAt, suddenDeath>>
  /\ UNCHANGED <<rule, now, accepted>>

\* time goes by
Tick ==
  /\ status = "playing" /\ now < MaxTime
  /\ now' = now + 1
  /\ UNCHANGED <<rule, status, matchEndsAt, suddenDeath, player, accepted, winner>>

Messages == UNION {[1..n -> Keys] : n \in 1..MaxKeys}

Next ==
  \/ \E g \in players \ {Com}, keys \in Messages : Type(g, keys)
  \/ TypeTooLate
  \/ \E n \in 1..MaxSpeed : BotHits(n) \/ BotErrs(n)
  \/ \E S \in SUBSET (players \ {Com}) : Forfeit(S)
  \/ HandleExpirations
  \/ Tick

Spec == Init /\ [][Next]_vars

\* The clock goes on, the alarm comes, the interval of the COM player fires,
\* and by chance it errs only now and then.
Fairness ==
  /\ WF_vars(Tick) /\ WF_vars(HandleExpirations)
  /\ WF_vars(\E n \in 1..MaxSpeed : BotHits(n))

FairSpec == Spec /\ Fairness

-----------------------------------------------------------------------------
Finishes == {"undefined", "finished", "unfinished", "eliminated", "forfeited"}

Furthest == CASE rule = "race" -> PromptLength
              [] rule = "timeAttack" -> TotalLength
              [] rule = "hpBattle" -> PromptLength - 1

PlayerType ==
  [progress : 0..Furthest, streak : 0..(GuardStreak - 1), guards : 0..MaxGuards,
   hp : 0..MaxHp, finish : Finishes, tokens : 0..Burst, refilledAt : 0..now]

\* Every variable holds a value of its kind; hp, guards and the typing budget
\* stay within their bounds, and progress within the prompt.
TypeOK ==
  /\ rule \in Rules /\ status \in {"playing", "finished"} /\ now \in 0..MaxTime
  /\ matchEndsAt \in {0, Duration} /\ suddenDeath \in BOOLEAN
  /\ players \in Rooms /\ player \in [players -> PlayerType]
  /\ accepted \in [players -> Nat] /\ winner \in players \cup {Nobody}

\* However a player cuts their input into messages and whatever is rejected
\* in between, no more characters count than the burst and the time since
\* the start allow.
BudgetHolds == \A g \in players : accepted[g] <= Burst + Rate * now

\* A match that is decided is over: in no match that goes on has a player
\* finished, fallen to zero, or forfeited.
DecidedIsOver ==
  status = "playing" =>
    \A g \in players :
      /\ player[g].finish = "undefined"
      /\ player[g].hp > 0
      /\ (rule = "race") => (player[g].progress < PromptLength)

\* The three together: bounds, the budget, and no decided match goes on.
PlayInv == TypeOK /\ BudgetHolds /\ DecidedIsOver

Stayed == {g \in players : ~Forfeited(player[g])}

\* The winner is who the rule says (docs/game-design.md): never somebody who
\* forfeited when another stayed; in a race whoever completed the prompt, in a
\* time attack whoever got furthest, in a battle whoever has most left, and
\* nobody wins a battle on a tie but when both fell in the same moment.
WinnerIsRight ==
  status = "finished" =>
    /\ Stayed # {} => winner \in Stayed
    /\ \A g \in Stayed \ {winner} :
         CASE rule = "race" -> player[g].finish # "finished"
           [] rule = "timeAttack" -> player[g].progress <= player[winner].progress
           [] rule = "hpBattle" -> player[g].hp < player[winner].hp
                                  \/ {player[g].hp, player[winner].hp} = {0}

\* A match against the COM player ends, whatever the human does or leaves, and
\* so does a time attack, even when nobody types any more.  Two humans may play
\* a race, or an HP battle in sudden death, for ever.
MatchEnds ==
  (status = "playing" /\ (Com \in players \/ rule = "timeAttack")) ~> status = "finished"

=============================================================================
