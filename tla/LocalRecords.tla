---------------------------- MODULE LocalRecords ----------------------------
(***************************************************************************)
(* What the browser keeps for the player in localStorage: coins, owned and *)
(* worn cosmetics and claimed rewards (apps/web/lib/cosmetic-progress.ts), *)
(* the record of each daily challenge (daily-challenge.ts), and the        *)
(* effects of page.tsx that write them.                                    *)
(*                                                                         *)
(* Tabs share the storage but not what they have read from it: a tab loads *)
(* its progress once and from then on stores the whole of it after every   *)
(* change.  The record of a day is read again before each change.          *)
(***************************************************************************)
EXTENDS Integers, FiniteSets, FiniteSetsExt

CONSTANTS
  Tabs,
  Practices, Dailies, Matches,  \* keys of rewards: runs of practice, of a daily
                                \* challenge, and rounds of a match
  Items,                        \* cosmetics that are not owned from the start
  Price,                        \* [Items -> Nat], of the catalogs
  StartCoins,                   \* styleCoins of the first load (points of v1)
  MaxAttempts,                  \* DAILY_CHALLENGE_MAX_ATTEMPTS
  Days,                         \* challenge keys, counted from 1
  Typed, MatchResults,          \* bounds: how well each run and a match is typed
  NoPlay, NoItem                \* no session; the default equipment

\* How well a result was typed, as far as rewards tell results apart.
Qualities == {"plain", "accurate", "perfect"}
Results   == [completed : BOOLEAN, won : BOOLEAN, quality : Qualities]

Plays == Practices \cup Dailies \cup Matches

ASSUME RecordsAssumption ==
  /\ IsFiniteSet(Tabs)
  /\ Price \in [Items -> Nat] /\ StartCoins \in Nat
  /\ MaxAttempts \in Nat \ {0} /\ Days \in Nat \ {0}
  /\ Typed \in [Practices \cup Dailies -> SUBSET Qualities] /\ MatchResults \subseteq Results
  /\ NoPlay \notin Plays /\ NoItem \notin Items
  /\ Practices \cap Dailies = {} /\ Matches \cap (Practices \cup Dailies) = {}

VARIABLES
  stored,    \* the cosmetic progress in localStorage
  progress,  \* ... and in each tab
  session,   \* practiceSession and practiceResult of each tab
  asked,     \* the day on whose record a tab has asked for a daily challenge
             \* that is to start, or 0
  daily,     \* the record of each day in localStorage
  tabDay,    \* dailyChallengeInfo of each tab
  today,     \* the day of the server
  used,      \* runs of practice and daily challenges so far
  played,    \* per day, runs that lasted five seconds or were finished
  unchecked  \* per day, runs let in on the record of an earlier day

vars == <<stored, progress, session, asked, daily, tabDay, today, used, played,
          unchecked>>
dayVars == <<daily, tabDay, today, played, unchecked>>

-----------------------------------------------------------------------------
(* Coins and cosmetics.  `claimed' has what each claimed key was worth,    *)
(* of which the source keeps the key.                                      *)

CalculateStyleCoinReward(play, result) ==
  LET completion == IF play \in Practices THEN 10 ELSE IF play \in Dailies THEN 25 ELSE 20
      victory == IF play \in Matches /\ result.won THEN 10 ELSE 0
      highAccuracy == IF result.quality # "plain" THEN 5 ELSE 0
      perfect == IF result.quality = "perfect" THEN 5 ELSE 0
  IN  IF result.completed THEN completion + victory + highAccuracy + perfect ELSE 0

Claim(claimed, play, total) ==
  [k \in DOMAIN claimed \cup {play} |-> IF k = play THEN total ELSE claimed[k]]

\* Mutant: the key is stored and never asked for
AwardStyleCoinsAgain(p, play, result) ==
  LET total == CalculateStyleCoinReward(play, result) IN
  IF total = 0 THEN p
  ELSE [p EXCEPT !.coins = @ + total, !.claimed = Claim(@, play, total)]

AwardStyleCoins(p, play, result) ==
  LET total == CalculateStyleCoinReward(play, result) IN
  IF total = 0 \/ play \in DOMAIN p.claimed THEN p
  ELSE [p EXCEPT !.coins = @ + total, !.claimed = Claim(@, play, total)]

MayPurchase(p, item) == item \notin p.owned /\ p.coins >= Price[item]

PurchaseCosmetic(p, item) ==
  [p EXCEPT !.coins = @ - Price[item], !.owned = @ \cup {item}]

EquipCosmetic(p, item) == IF item \in p.owned THEN [p EXCEPT !.worn = item] ELSE p

\* setCosmeticProgress, and the effect that persists the progress
Keep(t, p) == progress' = [progress EXCEPT ![t] = p] /\ stored' = p

Purchase(t, item) ==
  /\ MayPurchase(progress[t], item)
  /\ Keep(t, PurchaseCosmetic(progress[t], item))
  /\ UNCHANGED <<session, asked, used, dayVars>>

Equip(t, item) ==
  /\ item \in progress[t].owned
  /\ Keep(t, EquipCosmetic(progress[t], item))
  /\ UNCHANGED <<session, asked, used, dayVars>>

\* the effect on the result of a match, which a reload shows once more
SeeMatchResult(t, m, result) ==
  /\ Keep(t, AwardStyleCoins(progress[t], m, result))
  /\ UNCHANGED <<session, asked, used, dayVars>>

-----------------------------------------------------------------------------
(* Daily challenges.  `best' stands for the four measures of a record,     *)
(* which isBetterAttempt orders.                                           *)

NoRecord == [attempts |-> 0, best |-> 0, points |-> 0,
             perfectAwarded |-> FALSE, completionAwarded |-> FALSE]

Best(quality) == CASE quality = "plain" -> 1 [] quality = "accurate" -> 2
                   [] quality = "perfect" -> 3

\* Mutant: the latest run is the best
BetterLatest(record, quality) == [record EXCEPT !.best = Best(quality)]

Better(record, quality) ==
  IF Best(quality) > record.best THEN [record EXCEPT !.best = Best(quality)] ELSE record

\* consumeDailyChallengeAttempt, when it does not return null
Consumed(record) == [record EXCEPT !.attempts = @ + 1]

UpdateDailyChallengeCompletion(record, quality) ==
  LET perfect == quality = "perfect"
      first == (IF record.completionAwarded THEN 0 ELSE 1)
               + (IF perfect /\ ~record.perfectAwarded THEN 2 ELSE 0) IN
  [Better(record, quality) EXCEPT
     !.points = Min({3, @ + first}),
     !.perfectAwarded = @ \/ perfect, !.completionAwarded = TRUE]

\* updateDailyChallengeRecord, for an attempt that was not consumed before
UpdateDailyChallengeRecord(record, quality) == Consumed(Better(record, quality))

\* recordDailyChallengeAttempt
RecordDailyChallengeAttempt(record, quality, consumed) ==
  IF consumed THEN UpdateDailyChallengeCompletion(record, quality)
  ELSE UpdateDailyChallengeRecord(record, quality)

-----------------------------------------------------------------------------
(* Sessions of a tab.  `consumed' is dailyAttemptConsumedRef.              *)

NoSession == [play |-> NoPlay, day |-> 1, consumed |-> FALSE, finished |-> FALSE,
              lasted |-> FALSE]
Session(play, day) == [NoSession EXCEPT !.play = play, !.day = day]
IsRunning(t) == session[t].play # NoPlay /\ ~session[t].finished
IsDaily(t)   == session[t].play \in Dailies

StartPractice(t, play) ==
  /\ ~IsRunning(t)
  /\ play \in Practices \ used /\ used' = used \cup {play}
  /\ session' = [session EXCEPT ![t] = Session(play, 1)]
  /\ asked' = [asked EXCEPT ![t] = 0]
  /\ UNCHANGED <<stored, progress, dayVars>>

\* startDailyChallenge, from its menu or a result, up to its request
AskForDaily(t) ==
  /\ ~IsRunning(t)
  /\ daily[tabDay[t]].attempts < MaxAttempts
  /\ asked[t] = 0 /\ asked' = [asked EXCEPT ![t] = tabDay[t]]
  /\ UNCHANGED <<stored, progress, session, used, dayVars>>

\* its callback: the server chooses the day
StartDaily(t, play) ==
  /\ asked[t] # 0 /\ asked' = [asked EXCEPT ![t] = 0]
  /\ play \in Dailies \ used /\ used' = used \cup {play}
  /\ session' = [session EXCEPT ![t] = Session(play, today)]
  /\ unchecked' = IF asked[t] = today THEN unchecked
                  ELSE [unchecked EXCEPT ![today] = @ + 1]
  /\ UNCHANGED <<stored, progress, daily, tabDay, today, played>>

MayConsume(t) ==
  ~session[t].consumed /\ daily[session[t].day].attempts < MaxAttempts

\* a run counts when it has lasted five seconds or is finished before
Lasts(t) ==
  played' = IF session[t].lasted THEN played
            ELSE [played EXCEPT ![session[t].day] = @ + 1]

\* the timer of consumeDailyAttempt
FiveSeconds(t) ==
  /\ IsRunning(t) /\ IsDaily(t) /\ MayConsume(t)
  /\ daily' = [daily EXCEPT ![session[t].day] = Consumed(@)]
  /\ session' = [session EXCEPT ![t].consumed = TRUE, ![t].lasted = TRUE]
  /\ Lasts(t) /\ UNCHANGED <<stored, progress, asked, tabDay, today, used, unchecked>>

\* finishPractice, and the effect that rewards the result
FinishPractice(t, quality) ==
  LET play == session[t].play
      day  == session[t].day
      consumed == session[t].consumed \/ MayConsume(t)
      record == IF MayConsume(t) THEN Consumed(daily[day]) ELSE daily[day] IN
  /\ IsRunning(t) /\ quality \in Typed[play]
  /\ session' = [session EXCEPT ![t].finished = TRUE,
                                ![t].consumed = IsDaily(t) /\ consumed,
                                ![t].lasted = IsDaily(t)]
  /\ IF IsDaily(t)
     THEN daily' = [daily EXCEPT
                      ![day] = RecordDailyChallengeAttempt(record, quality, consumed)]
          /\ Lasts(t)
     ELSE UNCHANGED <<daily, played>>
  /\ Keep(t, AwardStyleCoins(progress[t], play,
               [completed |-> TRUE, won |-> FALSE, quality |-> quality]))
  /\ UNCHANGED <<asked, used, tabDay, today, unchecked>>

\* the same practice once more
RepeatPractice(t) ==
  /\ session[t].play \in Practices /\ session[t].finished
  /\ session' = [session EXCEPT ![t].finished = FALSE]
  /\ UNCHANGED <<stored, progress, asked, used, dayVars>>

ReturnToPracticeMenu(t) ==
  /\ session[t] # NoSession
  /\ session' = [session EXCEPT ![t] = NoSession]
  /\ asked' = [asked EXCEPT ![t] = 0]
  /\ UNCHANGED <<stored, progress, used, dayVars>>

\* the page is loaded again: parseProgress, and the day of the clock
Reload(t) ==
  /\ progress' = [progress EXCEPT ![t] =
       [stored EXCEPT !.worn = IF @ \in stored.owned THEN @ ELSE NoItem]]
  /\ session' = [session EXCEPT ![t] = NoSession]
  /\ asked' = [asked EXCEPT ![t] = 0]
  /\ UNCHANGED <<stored, used, dayVars>>

\* the next day begins on the server, and on the page when its timer fires
NextDay == today < Days /\ today' = today + 1
           /\ UNCHANGED <<stored, progress, session, asked, used, daily, tabDay, played,
                          unchecked>>
NextChallenge(t) ==
  /\ tabDay[t] < today /\ tabDay' = [tabDay EXCEPT ![t] = today]
  /\ UNCHANGED <<stored, progress, session, asked, used, daily, today, played, unchecked>>

-----------------------------------------------------------------------------
DefaultProgress ==
  [coins |-> StartCoins, owned |-> {}, worn |-> NoItem, claimed |-> [k \in {} |-> 0]]

Init ==
  /\ stored = DefaultProgress /\ progress = [t \in Tabs |-> DefaultProgress]
  /\ session = [t \in Tabs |-> NoSession] /\ asked = [t \in Tabs |-> 0]
  /\ daily = [d \in 1..Days |-> NoRecord] /\ played = [d \in 1..Days |-> 0]
  /\ unchecked = [d \in 1..Days |-> 0]
  /\ tabDay = [t \in Tabs |-> 1] /\ today = 1 /\ used = {}

Next ==
  \/ \E t \in Tabs :
       \/ \E item \in Items : Purchase(t, item) \/ Equip(t, item)
       \/ \E m \in Matches, result \in MatchResults : SeeMatchResult(t, m, result)
       \/ \E play \in Practices : StartPractice(t, play)
       \/ \E play \in Dailies : StartDaily(t, play)
       \/ \E quality \in Qualities : FinishPractice(t, quality)
       \/ AskForDaily(t) \/ FiveSeconds(t) \/ RepeatPractice(t)
       \/ ReturnToPracticeMenu(t) \/ Reload(t) \/ NextChallenge(t)
  \/ NextDay

Spec == Init /\ [][Next]_vars

-----------------------------------------------------------------------------
Progresses == {stored} \cup {progress[t] : t \in Tabs}
Total(f) == MapThenSumSet(LAMBDA k : f[k], DOMAIN f)
Paid(owned) == MapThenSumSet(LAMBDA item : Price[item], owned)

\* Every variable holds a value of its kind.
TypeOK ==
  /\ \A p \in Progresses :
       /\ p.coins \in Nat /\ p.owned \subseteq Items
       /\ p.worn \in Items \cup {NoItem} /\ DOMAIN p.claimed \subseteq Plays
  /\ \A t \in Tabs :
       /\ session[t].play \in Plays \cup {NoPlay} /\ session[t].day \in 1..Days
       /\ {session[t].consumed, session[t].finished} \subseteq BOOLEAN
       /\ tabDay[t] \in 1..today /\ asked[t] \in 0..tabDay[t]
  /\ today \in 1..Days /\ used \subseteq Plays
  /\ \A d \in 1..Days : daily[d].attempts \in Nat /\ daily[d].best \in 0..3

\* Whatever tabs overwrite for each other, the progress each of them has, and
\* the one in the storage, is one that was earned: the coins are what its
\* claimed rewards gave, each once, less what its cosmetics cost, and only what
\* is owned is worn.
Balanced ==
  \A p \in Progresses :
    /\ p.coins = StartCoins + Total(p.claimed) - Paid(p.owned)
    /\ p.worn \in p.owned \cup {NoItem}

\* The record of a day counts every run of that day once, whether its five
\* seconds were over before it was finished or not, on which day it ended, and
\* in which tab; and its points are those of the first completion and the
\* first perfect one.
DailyRecordIsTrue ==
  \A d \in 1..Days :
    /\ daily[d].attempts = played[d]
    /\ daily[d].points = (IF daily[d].completionAwarded THEN 1 ELSE 0)
                         + (IF daily[d].perfectAwarded THEN 2 ELSE 0)

\* A run that was let in although another tab took the last attempt meanwhile
\* still counts when it is finished: the limit is exceeded by as many runs as
\* other tabs can have under way, and those that a page let in which still went
\* by the day before, and by no more.
AttemptsAreLimited ==
  \A d \in 1..Days :
    daily[d].attempts < MaxAttempts + Cardinality(Tabs) + unchecked[d]

\* The records of the player in every state.
RecordsInv == TypeOK /\ Balanced /\ DailyRecordIsTrue /\ AttemptsAreLimited

\* The best run of a day and its points are never lost to a worse one.
BestIsKept ==
  [][\A d \in 1..Days : /\ daily'[d].best >= daily[d].best
                        /\ daily'[d].points >= daily[d].points]_vars

=============================================================================
