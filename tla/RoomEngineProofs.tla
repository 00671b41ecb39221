-------------------------- MODULE RoomEngineProofs --------------------------
(***************************************************************************)
(* Proofs about RoomEngine, for every set of guests, sockets and codes,    *)
(* every pool of prompts, every length and every bound.                    *)
(*                                                                         *)
(* The functions of the engine are operators from room to room, so the     *)
(* first lemmas are about a room r and what an operator makes of it:       *)
(* RoomOK is kept, Moves says which changes of status are allowed, and     *)
(* SameSeats that the socket index has nothing to notice.  The actions     *)
(* put such a room back into the map.  The index is proved on top of that, *)
(* for the six actions that touch it.                                      *)
(***************************************************************************)
EXTENDS RoomEngine, FiniteSetTheorems, TLAPS

-----------------------------------------------------------------------------
(* The invariant of a room.                                                *)

\* A countdown starts everybody anew, and nothing is typed before it is over.
Fresh(r) ==
  r.status = "countdown" =>
    /\ r.forfeited = {}
    /\ \A i \in Ids : /\ r.finish[i] = "none" /\ r.progress[i] = 0
                      /\ r.hp[i] = IF r.rule = "hpBattle" THEN MaxHp ELSE 0

\* The table: what a room is whatever its match does.
Table(r) == r \in RoomRecord /\ IsFiniteSet(r.players) /\ Seated(r)

RoomOK(r) == Table(r) /\ MatchFits(r) /\ Fresh(r)

\* A match begins with everybody there, a countdown with a prompt that is not
\* in the history if there is one; the history grows by that prompt alone.
Begins(r, q) == r.status # "countdown" /\ q.status = "countdown"
Moves(r, q) ==
  /\ r.status = "countdown" /\ q.status = "playing" => Humans(r) \subseteq r.connected
  /\ Begins(r, q) => q.prompt \notin r.history \/ PromptsIn[r.category] \subseteq r.history
  /\ q.history = IF Begins(r, q) THEN r.history \cup {q.prompt} ELSE r.history

SameSeats(r, q) == q.connected = r.connected /\ q.socket = r.socket

Quiet(r, q) == RoomOK(q) /\ Moves(r, q) /\ SameSeats(r, q)

\* Groups of fields that most operators leave alone.
SamePeople(r, q) ==
  /\ q.players = r.players /\ q.host = r.host /\ q.connected = r.connected
  /\ q.away = r.away /\ q.late \in {r.late, {}} /\ q.socket = r.socket
SameChoice(r, q) ==
  /\ q.rule = r.rule /\ q.category = r.category /\ q.round = r.round
  /\ q.prompt = r.prompt /\ q.history = r.history
SameClock(r, q) == q.ends = r.ends /\ q.sudden = r.sudden
SameScore(r, q) ==
  /\ q.forfeited = r.forfeited /\ q.finish = r.finish
  /\ q.progress = r.progress /\ q.hp = r.hp

-----------------------------------------------------------------------------
(* What the operators make of a room.                                      *)

LEMMA HumansAre ==
  ASSUME NEW r \in RoomRecord
  PROVE  Humans(r) = r.players \cap Guests /\ Humans(r) \subseteq r.players
BY GuestsAssumption DEF Humans, RoomRecord, Ids

\* Only these fields say whether a match is as it should be.
LEMMA MatchOnly ==
  ASSUME NEW r, NEW q, MatchFits(r), Fresh(r), q.players = r.players,
         q.status = r.status, q.result = r.result, q.prompt = r.prompt,
         q.rule = r.rule, SameClock(r, q), SameScore(r, q)
  PROVE  MatchFits(q) /\ Fresh(q)
<1>1. Humans(q) = Humans(r)
  BY DEF Humans
<1>2. HumansDone(q) = HumansDone(r)
  BY <1>1 DEF HumansDone, SameScore
<1> QED  BY <1>1, <1>2 DEF MatchFits, Fresh, SameClock, SameScore

\* resetPlayers
LEMMA ResetIs ==
  ASSUME NEW r \in RoomRecord
  PROVE  LET q == Reset(r)
         IN  /\ q \in RoomRecord /\ SamePeople(r, q) /\ SameChoice(r, q) /\ SameClock(r, q)
             /\ q.status = r.status /\ q.result = r.result /\ q.idle = r.idle
             /\ q.ready = {} /\ q.forfeited = {}
             /\ \A i \in Ids : /\ q.finish[i] = "none" /\ q.progress[i] = 0
                               /\ q.hp[i] = IF r.rule = "hpBattle" THEN MaxHp ELSE 0
<1> DEFINE finish == [i \in Ids |-> "none"]
           progress == [i \in Ids |-> 0]
           hp == [i \in Ids |-> IF r.rule = "hpBattle" THEN MaxHp ELSE 0]
           q == Reset(r)
<1>1. /\ finish \in [Ids -> Finishes] /\ progress \in [Ids -> 0..Length]
      /\ hp \in [Ids -> 0..MaxHp]
  BY EngineBoundsAssumption DEF Finishes
<1>2. \A i \in Ids : /\ finish[i] = "none" /\ progress[i] = 0
                     /\ hp[i] = IF r.rule = "hpBattle" THEN MaxHp ELSE 0
  OBVIOUS
<1>3. q = [r EXCEPT !.ready = {}, !.forfeited = {}, !.finish = finish,
                    !.progress = progress, !.hp = hp]
  BY DEF Reset
<1> HIDE DEF finish, progress, hp, q
<1>4. q \in RoomRecord
  BY <1>1, <1>3 DEF RoomRecord
<1>5. /\ q.ready = {} /\ q.forfeited = {} /\ q.finish = finish
      /\ q.progress = progress /\ q.hp = hp
  BY <1>3 DEF RoomRecord
<1>6. SamePeople(r, q) /\ SameChoice(r, q) /\ SameClock(r, q)
  BY <1>3 DEF RoomRecord, SamePeople, SameChoice, SameClock
<1>7. q.status = r.status /\ q.result = r.result /\ q.idle = r.idle
  BY <1>3 DEF RoomRecord
<1> QED  BY <1>2, <1>4, <1>5, <1>6, <1>7 DEF q

\* abortCountdown
LEMMA AbortedIs ==
  ASSUME NEW r, Table(r)
  PROVE  LET q == Aborted(r)
         IN  /\ RoomOK(q) /\ q.status = "waiting" /\ ~q.idle
             /\ SamePeople(r, q) /\ q.history = r.history
<1> DEFINE p == [r EXCEPT !.status = "waiting", !.prompt = NoPrompt, !.ends = "none",
                          !.sudden = FALSE, !.result = FALSE, !.idle = FALSE]
           q == Aborted(r)
<1>0. r \in RoomRecord
  BY DEF Table
<1>1. q = Reset(p)
  BY DEF Aborted
<1>2. p \in RoomRecord
  BY <1>0 DEF RoomRecord, Statuses
<1>3. /\ p.status = "waiting" /\ p.prompt = NoPrompt /\ p.ends = "none"
      /\ ~p.sudden /\ ~p.result /\ ~p.idle /\ p.history = r.history
  BY <1>0 DEF RoomRecord
<1>4. SamePeople(r, p)
  BY <1>0 DEF RoomRecord, SamePeople
<1> HIDE DEF p
<1>5. /\ q \in RoomRecord /\ SamePeople(p, q) /\ SameChoice(p, q) /\ SameClock(p, q)
      /\ q.status = p.status /\ q.result = p.result /\ q.idle = p.idle
      /\ q.ready = {} /\ q.forfeited = {}
  BY <1>1, <1>2, ResetIs
<1> HIDE DEF q
<1>6. SamePeople(r, q)
  BY <1>4, <1>5 DEF SamePeople
<1>7. Table(q)
  BY <1>3, <1>5, <1>6 DEF Table, Seated, SamePeople, SameChoice, Humans
<1>8. MatchFits(q) /\ Fresh(q)
  BY <1>3, <1>5 DEF MatchFits, Fresh, SameClock
<1> QED  BY <1>3, <1>5, <1>6, <1>7, <1>8 DEF RoomOK, SameChoice, q

\* finalizeRoom
LEMMA FinalizedIs ==
  ASSUME NEW r, Table(r)
  PROVE  LET q == Finalized(r)
         IN  /\ RoomOK(q) /\ q.status = "finished"
             /\ SamePeople(r, q) /\ q.history = r.history
<1> DEFINE q == Finalized(r)
<1>0. r \in RoomRecord
  BY DEF Table
<1>1. q = [r EXCEPT !.status = "finished", !.result = TRUE, !.late = {}]
  BY DEF Finalized
<1> HIDE DEF q
<1>2. q \in RoomRecord
  BY <1>0, <1>1 DEF RoomRecord, Statuses
<1>3. q.status = "finished" /\ q.result
  BY <1>0, <1>1 DEF RoomRecord
<1>4. SamePeople(r, q) /\ SameChoice(r, q)
  BY <1>0, <1>1 DEF RoomRecord, SamePeople, SameChoice
<1>5. q.ready = r.ready /\ q.forfeited = r.forfeited
  BY <1>0, <1>1 DEF RoomRecord
<1>6. Table(q)
  BY <1>2, <1>4, <1>5 DEF Table, Seated, SamePeople, SameChoice, Humans
<1>7. MatchFits(q) /\ Fresh(q)
  BY <1>3 DEF MatchFits, Fresh
<1> QED  BY <1>3, <1>4, <1>6, <1>7 DEF RoomOK, SameChoice, q

\* A room for one more player is a room with one player.
LEMMA BotSitsDown ==
  ASSUME NEW r, Table(r), Humans(r) # {}
  PROVE  LET people == IF Cardinality(r.players) < MaxPlayers
                       THEN r.players \cup {Bot} ELSE r.players
         IN  /\ people \subseteq Ids /\ IsFiniteSet(people) /\ r.players \subseteq people
             /\ Cardinality(people) = MaxPlayers /\ people \ {Bot} = Humans(r)
<1>0. /\ r \in RoomRecord /\ IsFiniteSet(r.players) /\ r.players \subseteq Ids
      /\ Cardinality(r.players) <= 2 /\ MaxPlayers = 2
  BY EngineBoundsAssumption DEF Table, Seated, RoomRecord
<1>1. Cardinality(r.players) \in Nat
  BY <1>0, FS_CardinalityType
<1>2. CASE Cardinality(r.players) < MaxPlayers
  <2>1. PICK g : g \in r.players /\ g # Bot
    BY DEF Humans
  <2>2. /\ IsFiniteSet(r.players \ {g})
        /\ Cardinality(r.players \ {g}) = Cardinality(r.players) - 1
    BY <1>0, <2>1, FS_RemoveElement
  <2>3. Cardinality(r.players \ {g}) \in Nat
    BY <2>2, FS_CardinalityType
  <2>4. Cardinality(r.players \ {g}) = 0
    BY <1>0, <1>1, <1>2, <2>2, <2>3
  <2>5. r.players \ {g} = {}
    BY <2>2, <2>4, FS_EmptySet
  <2>6. Bot \notin r.players
    BY <2>1, <2>5
  <2>7. /\ IsFiniteSet(r.players \cup {Bot})
        /\ Cardinality(r.players \cup {Bot}) = Cardinality(r.players) + 1
    BY <1>0, <2>6, FS_AddElement
  <2>8. Cardinality(r.players \cup {Bot}) = 2
    BY <1>0, <1>1, <2>2, <2>4, <2>7
  <2> QED  BY <1>0, <1>2, <2>7, <2>8 DEF Humans, Ids
<1>3. CASE ~(Cardinality(r.players) < MaxPlayers)
  BY <1>0, <1>1, <1>3 DEF Humans
<1> QED  BY <1>2, <1>3

\* What is left to choose from is part of the pool, and new if anything is.
LEMMA SelectableIs ==
  ASSUME NEW r \in RoomRecord, NEW p \in Selectable(r)
  PROVE  /\ p \in PromptsIn[r.category] /\ p \in Prompts /\ p # NoPrompt
         /\ p \notin r.history \/ PromptsIn[r.category] \subseteq r.history
<1>1. r.category \in Categories
  BY DEF RoomRecord
<1>2. p \in PromptsIn[r.category]
  BY DEF Selectable
<1>3. p \notin r.history \/ PromptsIn[r.category] \subseteq r.history
  BY DEF Selectable
<1> QED  BY <1>1, <1>2, <1>3, PromptsAssumption DEF Prompts

\* Every start ends here: setReady, startMatch and rematch.
LEMMA BegunIs ==
  ASSUME NEW r, Table(r), r.status \in {"waiting", "finished"}, Humans(r) # {},
         NEW n \in 1..MaxRound, NEW p \in Selectable(r)
  PROVE  Quiet(r, Begun(r, n, p))
<1> DEFINE people == IF Cardinality(r.players) < MaxPlayers
                     THEN r.players \cup {Bot} ELSE r.players
           ends == IF r.rule = "race" THEN "none" ELSE "ahead"
           t == [r EXCEPT !.players = people, !.status = "countdown", !.round = n,
                          !.prompt = p, !.history = @ \cup {p}, !.ends = ends,
                          !.sudden = FALSE, !.result = FALSE]
           u == Reset(t)
           q == Begun(r, n, p)
<1>0. r \in RoomRecord
  BY DEF Table
<1>1. /\ people \subseteq Ids /\ IsFiniteSet(people) /\ r.players \subseteq people
      /\ Cardinality(people) = MaxPlayers /\ people \ {Bot} = Humans(r)
  BY BotSitsDown
<1>2. /\ p \in Prompts /\ p # NoPrompt
      /\ p \notin r.history \/ PromptsIn[r.category] \subseteq r.history
  BY <1>0, SelectableIs
<1>3. ends \in {"ahead", "none"} /\ (ends = "none" <=> r.rule = "race")
  OBVIOUS
<1>4. q = [u EXCEPT !.away = {}, !.late = {}]
  BY DEF Begun
<1> HIDE DEF people, ends
<1>5. t \in RoomRecord
  BY <1>0, <1>1, <1>2, <1>3 DEF RoomRecord, Statuses
<1>6. /\ t.players = people /\ t.host = r.host /\ t.connected = r.connected
      /\ t.status = "countdown" /\ t.rule = r.rule /\ t.prompt = p
      /\ t.history = r.history \cup {p} /\ t.ends = ends /\ ~t.sudden /\ ~t.result
      /\ t.socket = r.socket
  BY <1>0 DEF RoomRecord
<1> HIDE DEF t
<1>7. /\ u \in RoomRecord /\ SamePeople(t, u) /\ SameChoice(t, u) /\ SameClock(t, u)
      /\ u.status = t.status /\ u.result = t.result /\ u.ready = {} /\ u.forfeited = {}
      /\ \A i \in Ids : /\ u.finish[i] = "none" /\ u.progress[i] = 0
                        /\ u.hp[i] = IF t.rule = "hpBattle" THEN MaxHp ELSE 0
  BY <1>5, ResetIs
<1> HIDE DEF u, q
<1>8. q \in RoomRecord
  BY <1>4, <1>7 DEF RoomRecord
<1>9. /\ q.players = people /\ q.host = r.host /\ q.connected = r.connected
      /\ q.socket = r.socket /\ q.away = {} /\ q.late = {}
  BY <1>4, <1>6, <1>7 DEF RoomRecord, SamePeople
<1>10. /\ q.rule = r.rule /\ q.prompt = p /\ q.history = r.history \cup {p}
       /\ q.status = "countdown" /\ ~q.result /\ ~q.sudden /\ q.ends = ends
  BY <1>4, <1>6, <1>7 DEF RoomRecord, SameChoice, SameClock
<1>11. /\ q.ready = {} /\ q.forfeited = {}
       /\ \A i \in Ids : /\ q.finish[i] = "none" /\ q.progress[i] = 0
                         /\ q.hp[i] = IF q.rule = "hpBattle" THEN MaxHp ELSE 0
  BY <1>4, <1>6, <1>7, <1>10 DEF RoomRecord, SameChoice
<1>12. Table(q)
  BY <1>1, <1>8, <1>9, <1>10, <1>11, EngineBoundsAssumption DEF Table, Seated, Humans
<1>13. MatchFits(q) /\ Fresh(q)
  BY <1>1, <1>2, <1>3, <1>9, <1>10, <1>11 DEF MatchFits, Fresh, Humans
<1>14. Moves(r, q)
  BY <1>2, <1>10 DEF Moves, Begins
<1> QED  BY <1>9, <1>12, <1>13, <1>14 DEF Quiet, RoomOK, SameSeats, q

-----------------------------------------------------------------------------
(* The match.                                                              *)

\* Typing and its consequences change the score, and nothing else.
Scored(r, q) ==
  /\ q \in RoomRecord /\ SamePeople(r, q) /\ SameChoice(r, q) /\ SameClock(r, q)
  /\ q.status = r.status /\ q.result = r.result
  /\ q.ready = r.ready /\ q.forfeited = r.forfeited

LEMMA ScoredIsTable ==
  ASSUME NEW r, NEW q, Table(r), Scored(r, q)
  PROVE  Table(q) /\ Humans(q) = Humans(r)
BY DEF Table, Scored, Seated, SamePeople, SameChoice, Humans

LEMMA ScoredTwice ==
  ASSUME NEW r, NEW p, NEW q, Scored(r, p), Scored(p, q)
  PROVE  Scored(r, q)
BY DEF Scored, SamePeople, SameChoice, SameClock

\* applyHpDamage
LEMMA DamagedIs ==
  ASSUME NEW r \in RoomRecord, NEW who, NEW n \in Nat
  PROVE  Scored(r, Damaged(r, who, n))
<1> DEFINE left(i) == IF i \in who THEN r.hp[i] - (IF r.sudden THEN 2 * n ELSE n) ELSE r.hp[i]
           hit(i) == i \in who /\ n > 0 /\ r.hp[i] > 0
           hp == [i \in Ids |-> IF left(i) > 0 THEN left(i) ELSE IF hit(i) THEN 0 ELSE r.hp[i]]
           finish == [i \in Ids |-> IF hit(i) /\ left(i) <= 0 THEN "eliminated" ELSE r.finish[i]]
           q == Damaged(r, who, n)
<1>1. q = [r EXCEPT !.hp = hp, !.finish = finish]
  BY DEF Damaged
<1>2. r.hp \in [Ids -> 0..MaxHp] /\ r.finish \in [Ids -> Finishes] /\ MaxHp \in Nat
  BY EngineBoundsAssumption DEF RoomRecord
<1>3. hp \in [Ids -> 0..MaxHp]
  <2>1. ASSUME NEW i \in Ids PROVE hp[i] \in 0..MaxHp
    <3>1. r.hp[i] \in 0..MaxHp
      BY <1>2
    <3>2. left(i) \in Int /\ left(i) <= r.hp[i]
      BY <1>2, <3>1
    <3>3. hp[i] = IF left(i) > 0 THEN left(i) ELSE IF hit(i) THEN 0 ELSE r.hp[i]
      OBVIOUS
    <3> HIDE DEF left, hit, hp
    <3> QED  BY <1>2, <3>1, <3>2, <3>3
  <2> QED  BY <2>1
<1>4. finish \in [Ids -> Finishes]
  <2>1. ASSUME NEW i \in Ids PROVE finish[i] \in Finishes
    BY <1>2 DEF Finishes
  <2> QED  BY <2>1
<1> HIDE DEF hp, finish, q
<1>5. q \in RoomRecord
  BY <1>1, <1>3, <1>4 DEF RoomRecord
<1>6. SamePeople(r, q) /\ SameChoice(r, q) /\ SameClock(r, q)
  BY <1>1 DEF RoomRecord, SamePeople, SameChoice, SameClock
<1>7. /\ q.status = r.status /\ q.result = r.result
      /\ q.ready = r.ready /\ q.forfeited = r.forfeited
  BY <1>1 DEF RoomRecord
<1> QED  BY <1>5, <1>6, <1>7 DEF Scored, q

\* applyProgress and applyBotProgress
LEMMA TypedIs ==
  ASSUME NEW r \in RoomRecord, NEW i \in Ids, NEW d \in Nat, NEW w \in Nat
  PROVE  Scored(r, Typed(r, i, d, w))
<1> DEFINE n == r.progress[i] + d
           most == IF n > Length THEN Length ELSE n
           q == Typed(r, i, d, w)
<1>0. /\ r.progress \in [Ids -> 0..Length] /\ r.finish \in [Ids -> Finishes]
      /\ Length \in Nat \ {0} /\ r.rule \in {"race", "timeAttack", "hpBattle"}
  BY EngineBoundsAssumption, EngineRulesAssumption DEF RoomRecord
<1>1. n \in Nat /\ most \in 0..Length /\ n % Length \in 0..Length
  BY <1>0
<1>2. CASE r.rule = "timeAttack"
  <2>1. q = r
    BY <1>2 DEF Typed
  <2>2. SamePeople(r, r) /\ SameChoice(r, r) /\ SameClock(r, r)
    BY DEF SamePeople, SameChoice, SameClock
  <2> QED  BY <2>1, <2>2 DEF Scored
<1>3. CASE r.rule = "hpBattle"
  <2> DEFINE t == [r EXCEPT !.progress[i] = n % Length]
             u == Damaged(t, r.players \ {i}, d)
  <2>1. q = Damaged(u, {i}, w)
    BY <1>3 DEF Typed
  <2>2. Scored(r, t)
    <3>1. t \in RoomRecord
      BY <1>1 DEF RoomRecord
    <3>2. SamePeople(r, t) /\ SameChoice(r, t) /\ SameClock(r, t)
      BY DEF RoomRecord, SamePeople, SameChoice, SameClock
    <3>3. /\ t.status = r.status /\ t.result = r.result
          /\ t.ready = r.ready /\ t.forfeited = r.forfeited
      BY DEF RoomRecord
    <3> QED  BY <3>1, <3>2, <3>3 DEF Scored
  <2> HIDE DEF t, q
  <2>3. Scored(t, u)
    BY <2>2, DamagedIs DEF Scored
  <2> HIDE DEF u
  <2>4. Scored(u, q)
    BY <2>1, <2>3, DamagedIs DEF Scored
  <2>5. Scored(r, u)
    BY <2>2, <2>3, ScoredTwice
  <2> QED  BY <2>4, <2>5, ScoredTwice DEF q
<1>4. CASE r.rule = "race"
  <2> DEFINE f == IF n >= Length /\ r.finish[i] # "finished" THEN "finished" ELSE r.finish[i]
  <2>1. q = [r EXCEPT !.progress[i] = most, !.finish[i] = f]
    BY <1>4 DEF Typed
  <2>2. f \in Finishes
    BY <1>0 DEF Finishes
  <2> HIDE DEF most, f, q
  <2>3. q \in RoomRecord
    BY <1>1, <2>1, <2>2 DEF RoomRecord
  <2>4. SamePeople(r, q) /\ SameChoice(r, q) /\ SameClock(r, q)
    BY <2>1 DEF RoomRecord, SamePeople, SameChoice, SameClock
  <2>5. /\ q.status = r.status /\ q.result = r.result
        /\ q.ready = r.ready /\ q.forfeited = r.forfeited
    BY <2>1 DEF RoomRecord
  <2> QED  BY <2>3, <2>4, <2>5 DEF Scored, q
<1> QED  BY <1>0, <1>2, <1>3, <1>4

\* A player's end in the table.
LEMMA MarkedIs ==
  ASSUME NEW r \in RoomRecord, NEW finish \in [Ids -> Finishes]
  PROVE  Scored(r, [r EXCEPT !.finish = finish])
<1> DEFINE q == [r EXCEPT !.finish = finish]
<1>1. q \in RoomRecord
  BY DEF RoomRecord
<1>2. SamePeople(r, q) /\ SameChoice(r, q) /\ SameClock(r, q)
  BY DEF RoomRecord, SamePeople, SameChoice, SameClock
<1>3. /\ q.status = r.status /\ q.result = r.result
      /\ q.ready = r.ready /\ q.forfeited = r.forfeited
  BY DEF RoomRecord
<1> QED  BY <1>1, <1>2, <1>3 DEF Scored

\* finalizeUnfinishedBots, finalizeUnfinishedRacePlayers
LEMMA UnfinishedIs ==
  ASSUME NEW r \in RoomRecord, NEW who
  PROVE  Scored(r, Unfinished(r, who))
<1> DEFINE ends(i) == i \in who /\ r.progress[i] < Length
                      /\ (i = Bot \/ r.finish[i] # "finished")
           finish == [i \in Ids |-> IF ends(i) THEN "unfinished" ELSE r.finish[i]]
<1>1. finish \in [Ids -> Finishes]
  <2>1. r.finish \in [Ids -> Finishes]
    BY DEF RoomRecord
  <2> QED  BY <2>1 DEF Finishes
<1>2. Unfinished(r, who) = [r EXCEPT !.finish = finish]
  BY DEF Unfinished
<1> HIDE DEF finish
<1> QED  BY <1>1, <1>2, MarkedIs

\* A match under way, decided or not.
UnderWay(r) ==
  /\ Table(r) /\ r.status = "playing" /\ ~r.result
  /\ r.prompt # NoPrompt /\ Cardinality(r.players) = MaxPlayers /\ Humans(r) # {}
  /\ (r.ends = "none") <=> (r.rule = "race" \/ r.sudden)
  /\ r.sudden => r.rule = "hpBattle"

\* A match goes on or is over.
Played(r, q) ==
  /\ RoomOK(q) /\ SamePeople(r, q) /\ q.history = r.history
  /\ q.status \in {"playing", "finished"}

LEMMA PlayedIsQuiet ==
  ASSUME NEW r, NEW q, r.status = "playing", Played(r, q)
  PROVE  Quiet(r, q)
BY DEF Played, Quiet, Moves, Begins, SameSeats, SamePeople

LEMMA PlayedAfter ==
  ASSUME NEW r, NEW p, NEW q, Scored(r, p), Played(p, q)
  PROVE  Played(r, q)
BY DEF Scored, Played, SamePeople, SameChoice

LEMMA IsUnderWay ==
  ASSUME NEW r, RoomOK(r), r.status = "playing"
  PROVE  UnderWay(r) /\ ~HumansDone(r)
BY DEF RoomOK, MatchFits, UnderWay

LEMMA StaysUnderWay ==
  ASSUME NEW r, NEW q, UnderWay(r), Scored(r, q)
  PROVE  UnderWay(q)
<1>1. Table(q) /\ Humans(q) = Humans(r)
  BY ScoredIsTable DEF UnderWay
<1> QED  BY <1>1 DEF UnderWay, Scored, SamePeople, SameChoice, SameClock

LEMMA MatchOver ==
  ASSUME NEW r, UnderWay(r)
  PROVE  Played(r, Finalized(r))
BY FinalizedIs DEF UnderWay, Played

LEMMA MatchOverUnfinished ==
  ASSUME NEW r, NEW who, UnderWay(r)
  PROVE  Played(r, Finalized(Unfinished(r, who)))
<1> DEFINE t == Unfinished(r, who)
<1>1. Scored(r, t)
  BY UnfinishedIs DEF UnderWay, Table
<1> HIDE DEF t
<1>2. UnderWay(t)
  BY <1>1, StaysUnderWay
<1>3. Played(t, Finalized(t))
  BY <1>2, MatchOver
<1> QED  BY <1>1, <1>3, PlayedAfter DEF t

\* maybeFinalizeRoom: the match goes on only if nobody has won it.
LEMMA SettledIs ==
  ASSUME NEW r, UnderWay(r)
  PROVE  Played(r, Settled(r))
<1>0. r.rule \in {"race", "timeAttack", "hpBattle"} /\ r.hp \in [Ids -> 0..MaxHp]
      /\ r.players \subseteq Ids /\ MaxHp \in Nat
  BY EngineRulesAssumption, EngineBoundsAssumption DEF UnderWay, Table, RoomRecord
<1>1. ASSUME ~HumansDone(r),
             r.rule = "race" => \A i \in r.players : r.finish[i] # "finished",
             r.rule = "hpBattle" => \A i \in r.players : r.hp[i] # 0
      PROVE  Played(r, r)
  <2>1. MatchFits(r)
    BY <1>0, <1>1 DEF UnderWay, MatchFits
  <2>2. Fresh(r)
    BY DEF UnderWay, Fresh
  <2> QED  BY <2>1, <2>2 DEF UnderWay, Played, RoomOK, SamePeople
<1>2. CASE r.rule = "timeAttack"
  <2>1. ~HumansDone(r) /\ Settled(r) = r
    BY <1>2 DEF HumansDone, Settled
  <2> QED  BY <1>1, <1>2, <2>1
<1>3. CASE r.rule = "hpBattle"
  <2>1. CASE \E i \in r.players : r.hp[i] = 0
    BY <1>3, <2>1, MatchOver DEF Settled
  <2>2. CASE ~\E i \in r.players : r.hp[i] = 0
    BY <1>1, <1>3, <2>2, MatchOverUnfinished DEF Settled
  <2> QED  BY <2>1, <2>2
<1>4. CASE r.rule = "race"
  <2>1. CASE \E i \in r.players : r.finish[i] = "finished"
    BY <1>4, <2>1, MatchOverUnfinished DEF Settled
  <2>2. CASE ~\E i \in r.players : r.finish[i] = "finished"
    BY <1>1, <1>4, <2>2, MatchOverUnfinished DEF Settled
  <2> QED  BY <2>1, <2>2
<1> QED  BY <1>0, <1>2, <1>3, <1>4

\* A message of a player or a move of the COM player.
LEMMA TypedIsPlayed ==
  ASSUME NEW r, RoomOK(r), r.status = "playing",
         NEW i \in Ids, NEW d \in Nat, NEW w \in Nat
  PROVE  Quiet(r, IF Expired(r) THEN Finalized(r) ELSE Settled(Typed(r, i, d, w)))
<1> DEFINE t == Typed(r, i, d, w)
<1>1. UnderWay(r)
  BY IsUnderWay
<1>2. Scored(r, t)
  BY <1>1, TypedIs DEF UnderWay, Table
<1> HIDE DEF t
<1>3. Played(r, Settled(t))
  BY <1>1, <1>2, StaysUnderWay, SettledIs, PlayedAfter
<1>4. Played(r, Finalized(r))
  BY <1>1, MatchOver
<1> QED  BY <1>3, <1>4, PlayedIsQuiet DEF t

LEMMA FinishedIsPlayed ==
  ASSUME NEW r, RoomOK(r), r.status = "playing", NEW i \in Ids, NEW d \in Nat
  PROVE  LET t == Typed(r, i, d, 0)
         IN  Quiet(r, IF Expired(r) THEN Finalized(r)
                      ELSE IF r.rule = "timeAttack" \/ t.progress[i] < Length THEN Settled(t)
                      ELSE Settled([t EXCEPT !.finish[i] = "finished"]))
<1> DEFINE t == Typed(r, i, d, 0)
           finish == [t.finish EXCEPT ![i] = "finished"]
           u == [t EXCEPT !.finish = finish]
<1>1. UnderWay(r)
  BY IsUnderWay
<1>2. Scored(r, t)
  BY <1>1, TypedIs DEF UnderWay, Table
<1>3. u = [t EXCEPT !.finish[i] = "finished"]
  OBVIOUS
<1> HIDE DEF t
<1>4. t \in RoomRecord /\ t.finish \in [Ids -> Finishes]
  BY <1>2 DEF Scored, RoomRecord
<1>5. finish \in [Ids -> Finishes]
  BY <1>4 DEF Finishes
<1> HIDE DEF finish
<1>6. Scored(t, u)
  BY <1>4, <1>5, MarkedIs
<1> HIDE DEF u
<1>7. Scored(r, u)
  BY <1>2, <1>6, ScoredTwice
<1>8. Played(r, Settled(t)) /\ Played(r, Settled(u))
  BY <1>1, <1>2, <1>7, StaysUnderWay, SettledIs, PlayedAfter
<1>9. Played(r, Finalized(r))
  BY <1>1, MatchOver
<1> QED  BY <1>3, <1>8, <1>9, PlayedIsQuiet DEF t

\* checkForForfeits: whoever is away too long forfeits, and the last human to
\* do so ends the match.
LEMMA ForfeitIsPlayed ==
  ASSUME NEW r, RoomOK(r), r.status = "playing"
  PROVE  Quiet(r, Forfeit(r))
<1> DEFINE gone == (r.late \cap Humans(r)) \ r.forfeited
           out == r.forfeited \cup gone
           finish == [i \in Ids |-> IF i \in gone THEN "forfeited" ELSE r.finish[i]]
           q == [r EXCEPT !.forfeited = out, !.finish = finish]
<1>0. /\ UnderWay(r) /\ ~HumansDone(r) /\ r \in RoomRecord /\ MatchFits(r)
      /\ r.players \subseteq Ids
  BY IsUnderWay DEF RoomOK, Table, RoomRecord
<1>1. gone \subseteq Humans(r) /\ out \subseteq Humans(r) /\ Humans(r) \subseteq Guests
  BY <1>0, HumansAre DEF UnderWay, Table, Seated
<1>2. finish \in [Ids -> Finishes] /\ \A i \in Ids : finish[i] = "finished" => r.finish[i] = "finished"
  <2>1. r.finish \in [Ids -> Finishes]
    BY <1>0 DEF RoomRecord
  <2> QED  BY <2>1 DEF Finishes
<1>3. gone = {} => out = r.forfeited
  OBVIOUS
<1>4. Forfeit(r) = IF gone # {} /\ HumansDone(q) THEN Finalized(Unfinished(q, {Bot})) ELSE q
  BY DEF Forfeit
<1> HIDE DEF gone, out, finish
<1>5. q \in RoomRecord
  BY <1>0, <1>1, <1>2 DEF RoomRecord
<1>6. /\ SamePeople(r, q) /\ SameChoice(r, q) /\ SameClock(r, q)
      /\ q.forfeited = out /\ q.finish = finish
      /\ q.progress = r.progress /\ q.hp = r.hp
      /\ q.status = r.status /\ q.result = r.result /\ q.ready = r.ready
  BY <1>0 DEF RoomRecord, SamePeople, SameChoice, SameClock
<1> HIDE DEF q
<1>7. Humans(q) = Humans(r)
  BY <1>6 DEF SamePeople, Humans
<1>8. Table(q)
  BY <1>0, <1>1, <1>5, <1>6, <1>7 DEF UnderWay, Table, Seated, SamePeople, SameChoice
<1>9. UnderWay(q)
  BY <1>0, <1>6, <1>7, <1>8 DEF UnderWay, SamePeople, SameChoice, SameClock
<1>10. ASSUME ~HumansDone(q) PROVE Played(r, q)
  <2>1. MatchFits(q)
    BY <1>0, <1>2, <1>6, <1>9, <1>10 DEF UnderWay, MatchFits, SamePeople, SameChoice
  <2> QED  BY <1>6, <1>9, <2>1 DEF Played, RoomOK, UnderWay, Fresh, SameChoice
<1>11. gone = {} => ~HumansDone(q)
  BY <1>0, <1>3, <1>6, <1>7 DEF HumansDone, SameChoice
<1>12. Played(r, Finalized(Unfinished(q, {Bot})))
  <2>1. Played(q, Finalized(Unfinished(q, {Bot})))
    BY <1>9, MatchOverUnfinished
  <2> QED  BY <1>6, <2>1 DEF Played, SamePeople, SameChoice
<1> QED  BY <1>4, <1>10, <1>11, <1>12, PlayedIsQuiet

\* checkExpiredTimeAttackMatches: a tie goes on without a deadline.
LEMMA TimeUpIsPlayed ==
  ASSUME NEW r, RoomOK(r), r.status = "playing"
  PROVE  Quiet(r, TimeUp(r))
<1> DEFINE q == [r EXCEPT !.sudden = TRUE, !.ends = "none"]
<1>0. UnderWay(r) /\ ~HumansDone(r) /\ r \in RoomRecord /\ MatchFits(r)
  BY IsUnderWay DEF RoomOK, Table
<1>1. Played(r, Finalized(Unfinished(r, {Bot})))
  BY <1>0, MatchOverUnfinished
<1>2. ASSUME r.rule = "hpBattle" PROVE Played(r, q)
  <2>1. q \in RoomRecord
    BY <1>0 DEF RoomRecord
  <2>2. /\ SamePeople(r, q) /\ SameChoice(r, q) /\ SameScore(r, q) /\ q.ready = r.ready
        /\ q.status = r.status /\ q.result = r.result /\ q.sudden /\ q.ends = "none"
    BY <1>0 DEF RoomRecord, SamePeople, SameChoice, SameScore
  <2> HIDE DEF q
  <2>3. Humans(q) = Humans(r)
    BY <2>2 DEF SamePeople, Humans
  <2>4. Table(q)
    BY <1>0, <2>1, <2>2, <2>3 DEF UnderWay, Table, Seated, SamePeople, SameChoice, SameScore
  <2>5. ~HumansDone(q)
    BY <1>0, <2>2, <2>3 DEF HumansDone, SameChoice, SameScore
  <2>6. MatchFits(q)
    BY <1>0, <1>2, <2>2, <2>3, <2>5
       DEF UnderWay, MatchFits, SamePeople, SameChoice, SameScore
  <2> QED  BY <1>0, <2>2, <2>4, <2>6 DEF Played, RoomOK, UnderWay, Fresh, SameChoice
<1> QED  BY <1>1, <1>2, PlayedIsQuiet DEF TimeUp

-----------------------------------------------------------------------------
(* The room outside of a match, and who is in it.                          *)

\* setPromptCategory, setMatchRule, setReady: only before or after a match.
LEMMA SettingIs ==
  ASSUME NEW r, NEW q, RoomOK(r), r.status \in {"waiting", "finished"},
         q \in RoomRecord, SamePeople(r, q), q.status = r.status, q.result = r.result,
         q.prompt = r.prompt, q.history = r.history, q.forfeited = r.forfeited,
         q.ready \subseteq Humans(r), q.ends \in {r.ends, "none"}
  PROVE  Quiet(r, q)
<1>1. Humans(q) = Humans(r)
  BY DEF SamePeople, Humans
<1>2. Table(q)
  BY <1>1 DEF RoomOK, Table, Seated, SamePeople
<1>3. MatchFits(q) /\ Fresh(q)
  BY DEF RoomOK, MatchFits, Fresh
<1> QED  BY <1>2, <1>3 DEF Quiet, RoomOK, Moves, Begins, SameSeats, SamePeople

LEMMA CategoryIsSetting ==
  ASSUME NEW r, RoomOK(r), r.status \in {"waiting", "finished"}, NEW k \in Categories
  PROVE  Quiet(r, [r EXCEPT !.category = k, !.ready = {}])
<1> DEFINE q == [r EXCEPT !.category = k, !.ready = {}]
<1>1. r \in RoomRecord
  BY DEF RoomOK, Table
<1>2. q \in RoomRecord
  BY <1>1 DEF RoomRecord
<1>3. /\ SamePeople(r, q) /\ q.status = r.status /\ q.result = r.result
      /\ q.prompt = r.prompt /\ q.history = r.history /\ q.forfeited = r.forfeited
      /\ q.ready = {} /\ q.ends = r.ends
  BY <1>1 DEF RoomRecord, SamePeople
<1> HIDE DEF q
<1> QED  BY <1>2, <1>3, SettingIs DEF q

LEMMA RuleIsSetting ==
  ASSUME NEW r, RoomOK(r), r.status \in {"waiting", "finished"}, NEW k \in Rules
  PROVE  Quiet(r, [r EXCEPT !.rule = k, !.ready = {}, !.ends = "none", !.sudden = FALSE])
<1> DEFINE q == [r EXCEPT !.rule = k, !.ready = {}, !.ends = "none", !.sudden = FALSE]
<1>1. r \in RoomRecord
  BY DEF RoomOK, Table
<1>2. q \in RoomRecord
  BY <1>1 DEF RoomRecord
<1>3. /\ SamePeople(r, q) /\ q.status = r.status /\ q.result = r.result
      /\ q.prompt = r.prompt /\ q.history = r.history /\ q.forfeited = r.forfeited
      /\ q.ready = {} /\ q.ends = "none"
  BY <1>1 DEF RoomRecord, SamePeople
<1> HIDE DEF q
<1> QED  BY <1>2, <1>3, SettingIs DEF q

LEMMA ReadyIsSetting ==
  ASSUME NEW r, RoomOK(r), r.status \in {"waiting", "finished"},
         NEW who \in SUBSET Humans(r)
  PROVE  LET q == [r EXCEPT !.ready = who]
         IN  /\ Quiet(r, q) /\ q.status = r.status /\ q.round = r.round
             /\ q.category = r.category /\ q.history = r.history /\ Humans(q) = Humans(r)
<1> DEFINE q == [r EXCEPT !.ready = who]
<1>1. r \in RoomRecord
  BY DEF RoomOK, Table
<1>2. q \in RoomRecord
  BY <1>1, HumansAre DEF RoomRecord
<1>3. /\ SamePeople(r, q) /\ SameChoice(r, q) /\ q.status = r.status
      /\ q.result = r.result /\ q.forfeited = r.forfeited
      /\ q.ready = who /\ q.ends = r.ends
  BY <1>1 DEF RoomRecord, SamePeople, SameChoice
<1> HIDE DEF q
<1>4. Quiet(r, q)
  BY <1>2, <1>3, SettingIs DEF SameChoice
<1> QED  BY <1>3, <1>4 DEF q, SamePeople, SameChoice, Humans

\* A room in which only who sits there, and since when, has changed.
LEMMA PeopleIs ==
  ASSUME NEW r, NEW q, RoomOK(r), Table(q), q.players = r.players,
         q.status = r.status, q.result = r.result, SameChoice(r, q),
         SameClock(r, q), SameScore(r, q)
  PROVE  RoomOK(q) /\ Moves(r, q)
<1>1. MatchFits(q) /\ Fresh(q)
  BY MatchOnly DEF RoomOK, SameChoice
<1> QED  BY <1>1 DEF RoomOK, Moves, Begins, SameChoice

LEMMA HostIs ==
  ASSUME NEW r, RoomOK(r), NEW h \in r.players
  PROVE  LET q == [r EXCEPT !.host = h]
         IN  /\ RoomOK(q) /\ Moves(r, q) /\ SameSeats(r, q) /\ q.host = h
             /\ q.status = r.status /\ q.players = r.players /\ q.history = r.history
<1> DEFINE q == [r EXCEPT !.host = h]
<1>0. r \in RoomRecord /\ h \in Ids
  BY DEF RoomOK, Table, RoomRecord
<1>1. q \in RoomRecord
  BY <1>0 DEF RoomRecord
<1>2. /\ SameChoice(r, q) /\ SameClock(r, q) /\ SameScore(r, q)
      /\ q.status = r.status /\ q.result = r.result
  BY <1>0 DEF RoomRecord, SameChoice, SameClock, SameScore
<1>3. /\ q.players = r.players /\ q.host = h /\ q.connected = r.connected
      /\ q.away = r.away /\ q.late = r.late /\ q.ready = r.ready /\ q.socket = r.socket
  BY <1>0 DEF RoomRecord
<1> HIDE DEF q
<1>4. Table(q)
  BY <1>1, <1>2, <1>3 DEF RoomOK, Table, Seated, Humans, SameChoice, SameScore
<1> QED  BY <1>2, <1>3, <1>4, PeopleIs DEF SameSeats, SameChoice, q

\* The host ensureConnectedHost names is at the table.
LEMMA EnsuredIsSeated ==
  ASSUME NEW r, Table(r), NEW h \in EnsuredHosts(r)
  PROVE  h \in r.players
BY DEF EnsuredHosts, Table, Seated, Humans

\* Activity, or its absence.
LEMMA IdleIs ==
  ASSUME NEW r, RoomOK(r), NEW b \in BOOLEAN
  PROVE  Quiet(r, [r EXCEPT !.idle = b])
<1> DEFINE q == [r EXCEPT !.idle = b]
<1>0. r \in RoomRecord
  BY DEF RoomOK, Table
<1>1. q \in RoomRecord
  BY <1>0 DEF RoomRecord
<1>2. /\ SamePeople(r, q) /\ SameChoice(r, q) /\ SameClock(r, q) /\ SameScore(r, q)
      /\ q.status = r.status /\ q.result = r.result /\ q.ready = r.ready
  BY <1>0 DEF RoomRecord, SamePeople, SameChoice, SameClock, SameScore
<1> HIDE DEF q
<1>3. Table(q)
  BY <1>1, <1>2 DEF RoomOK, Table, Seated, Humans, SamePeople, SameChoice, SameScore
<1> QED  BY <1>2, <1>3, PeopleIs DEF Quiet, SameSeats, SamePeople, q

\* The grace period of a player who is away runs out.
LEMMA LateIs ==
  ASSUME NEW r, RoomOK(r), NEW g \in r.away
  PROVE  Quiet(r, [r EXCEPT !.late = @ \cup {g}])
<1> DEFINE q == [r EXCEPT !.late = @ \cup {g}]
<1>0. r \in RoomRecord
  BY DEF RoomOK, Table
<1>1. q \in RoomRecord
  BY <1>0 DEF RoomRecord
<1>2. /\ SameChoice(r, q) /\ SameClock(r, q) /\ SameScore(r, q)
      /\ q.status = r.status /\ q.result = r.result /\ q.ready = r.ready
  BY <1>0 DEF RoomRecord, SameChoice, SameClock, SameScore
<1>3. /\ q.players = r.players /\ q.host = r.host /\ q.connected = r.connected
      /\ q.away = r.away /\ q.late = r.late \cup {g} /\ q.socket = r.socket
  BY <1>0 DEF RoomRecord
<1> HIDE DEF q
<1>4. Table(q)
  BY <1>1, <1>2, <1>3 DEF RoomOK, Table, Seated, Humans, SameChoice, SameScore
<1> QED  BY <1>2, <1>3, <1>4, PeopleIs DEF Quiet, SameSeats, q

\* The deadline of a match passes.
LEMMA PassedIs ==
  ASSUME NEW r, RoomOK(r), r.status = "playing", r.ends = "ahead"
  PROVE  Quiet(r, [r EXCEPT !.ends = "passed"])
<1> DEFINE q == [r EXCEPT !.ends = "passed"]
<1>0. r \in RoomRecord
  BY DEF RoomOK, Table
<1>1. q \in RoomRecord
  BY <1>0 DEF RoomRecord
<1>2. /\ SamePeople(r, q) /\ SameChoice(r, q) /\ SameScore(r, q) /\ q.ready = r.ready
      /\ q.status = r.status /\ q.result = r.result
      /\ q.ends = "passed" /\ q.sudden = r.sudden
  BY <1>0 DEF RoomRecord, SamePeople, SameChoice, SameScore
<1> HIDE DEF q
<1>3. Humans(q) = Humans(r)
  BY <1>2 DEF Humans, SamePeople
<1>4. Table(q)
  BY <1>1, <1>2, <1>3 DEF RoomOK, Table, Seated, SamePeople, SameChoice, SameScore
<1>5. HumansDone(q) = HumansDone(r)
  BY <1>2, <1>3 DEF HumansDone, SameChoice, SameScore
<1>6. MatchFits(q) /\ Fresh(q)
  BY <1>2, <1>3, <1>5 DEF RoomOK, MatchFits, Fresh, SamePeople, SameChoice, SameScore
<1> QED  BY <1>2, <1>4, <1>6
     DEF Quiet, RoomOK, Moves, Begins, SameSeats, SamePeople, SameChoice, q

\* markPlaying: the countdown is called off unless everybody is there.
LEMMA PlayingIs ==
  ASSUME NEW r, RoomOK(r), r.status = "countdown"
  PROVE  Quiet(r, IF Humans(r) = {} \/ ~(Humans(r) \subseteq r.connected) THEN Aborted(r)
                  ELSE [r EXCEPT !.status = "playing"])
<1> DEFINE q == [r EXCEPT !.status = "playing"]
<1>0. /\ r \in RoomRecord /\ MaxHp \in Nat \ {0} /\ Length \in Nat \ {0}
      /\ r.rule \in {"race", "timeAttack", "hpBattle"} /\ r.players \subseteq Ids
  BY EngineBoundsAssumption, EngineRulesAssumption DEF RoomOK, Table, RoomRecord
<1>1. Quiet(r, Aborted(r))
  BY AbortedIs DEF RoomOK, Quiet, Moves, Begins, SameSeats, SamePeople
<1>2. ASSUME Humans(r) # {}, Humans(r) \subseteq r.connected PROVE Quiet(r, q)
  <2>1. q \in RoomRecord
    BY <1>0 DEF RoomRecord, Statuses
  <2>2. /\ SamePeople(r, q) /\ SameChoice(r, q) /\ SameScore(r, q) /\ SameClock(r, q)
        /\ q.ready = r.ready /\ q.status = "playing" /\ q.result = r.result
    BY <1>0 DEF RoomRecord, SamePeople, SameChoice, SameScore, SameClock
  <2> HIDE DEF q
  <2>3. Humans(q) = Humans(r) /\ Humans(q) \subseteq Ids
    BY <1>0, <2>2, HumansAre DEF Humans, SamePeople
  <2>4. Table(q)
    BY <2>1, <2>2, <2>3 DEF RoomOK, Table, Seated, SamePeople, SameChoice, SameScore
  <2>5. /\ q.forfeited = {} /\ q.rule = r.rule
        /\ \A i \in Ids : /\ q.finish[i] = "none" /\ q.progress[i] = 0
                          /\ q.hp[i] = IF q.rule = "hpBattle" THEN MaxHp ELSE 0
    BY <2>2 DEF RoomOK, Fresh, SameScore, SameChoice
  <2>6. ~HumansDone(q)
    <3>1. PICK g \in Humans(q) : g \in Ids
      BY <1>2, <2>3
    <3>2. /\ g \notin q.forfeited /\ q.progress[g] = 0
          /\ q.hp[g] = IF q.rule = "hpBattle" THEN MaxHp ELSE 0
      BY <2>5, <3>1
    <3>3. CASE q.rule = "timeAttack"
      BY <3>3 DEF HumansDone
    <3>4. CASE q.rule = "hpBattle"
      BY <1>0, <3>1, <3>2, <3>4 DEF HumansDone
    <3>5. CASE q.rule = "race"
      BY <1>0, <3>1, <3>2, <3>5 DEF HumansDone
    <3> QED  BY <1>0, <2>5, <3>3, <3>4, <3>5
  <2>7. MatchFits(q) /\ Fresh(q)
    BY <1>0, <1>2, <2>2, <2>3, <2>5, <2>6
       DEF RoomOK, MatchFits, Fresh, SamePeople, SameChoice, SameClock
  <2> QED  BY <1>2, <2>2, <2>4, <2>7
       DEF Quiet, RoomOK, Moves, Begins, SameSeats, SamePeople, SameChoice
<1> QED  BY <1>1, <1>2

\* What a restart brings back of a room.
LEMMA PublicIs ==
  ASSUME NEW r, RoomOK(r)
  PROVE  LET q == PublicRoom(r)
         IN  /\ RoomOK(q) /\ q.status = r.status /\ q.history = {q.prompt} \ {NoPrompt}
             /\ \A g \in Guests : q.socket[g] = {}
<1> DEFINE history == {r.prompt} \ {NoPrompt}
           socket == [g \in Guests |-> {}]
           q == PublicRoom(r)
<1>0. r \in RoomRecord /\ 1 \in 1..MaxRound
  BY EngineBoundsAssumption DEF RoomOK, Table
<1>1. /\ history \in SUBSET Prompts /\ r.prompt \in history \cup {NoPrompt}
      /\ socket \in [Guests -> SUBSET Sockets] /\ \A g \in Guests : socket[g] = {}
  BY <1>0 DEF RoomRecord
<1>2. q = [r EXCEPT !.round = 1, !.history = history, !.away = {},
                    !.late = {}, !.idle = FALSE, !.socket = socket]
  BY DEF PublicRoom
<1> HIDE DEF history, socket, q
<1>3. q \in RoomRecord
  BY <1>0, <1>1, <1>2 DEF RoomRecord
<1>4. /\ SameClock(r, q) /\ SameScore(r, q) /\ q.status = r.status /\ q.result = r.result
      /\ q.rule = r.rule /\ q.prompt = r.prompt /\ q.history = history
      /\ q.players = r.players /\ q.host = r.host /\ q.ready = r.ready
      /\ q.connected = r.connected /\ q.away = {} /\ q.late = {} /\ q.socket = socket
  BY <1>0, <1>2 DEF RoomRecord, SameClock, SameScore
<1>5. Table(q)
  BY <1>1, <1>3, <1>4 DEF RoomOK, Table, Seated, Humans, SameScore
<1>6. MatchFits(q) /\ Fresh(q)
  BY <1>4, MatchOnly DEF RoomOK
<1> QED  BY <1>1, <1>4, <1>5, <1>6 DEF RoomOK, q, history

\* leaveBySocket of a player at the table.
LEMMA LeftIs ==
  ASSUME NEW r, RoomOK(r), NEW g \in r.players \cap Guests, NEW q \in Left(r, g)
  PROVE  /\ RoomOK(q) /\ Moves(r, q)
         /\ q.connected = r.connected \ {g} /\ q.socket = r.socket
<1> DEFINE p == [r EXCEPT !.connected = @ \ {g}, !.ready = @ \ {g}, !.away = @ \cup {g},
                          !.late = @ \ {g}, !.idle = FALSE]
           after == IF r.status = "countdown" THEN Aborted(p) ELSE p
           next == IF g # r.host THEN {r.host}
                   ELSE IF p.connected # {} THEN p.connected
                   ELSE IF Bot \in p.players THEN {Bot} ELSE {r.host}
<1>0. r \in RoomRecord /\ Table(r)
  BY DEF RoomOK, Table
<1>1. PICK h \in next : q = [after EXCEPT !.host = h]
  BY DEF Left
<1>2. p \in RoomRecord
  BY <1>0 DEF RoomRecord
<1>3. /\ SameChoice(r, p) /\ SameClock(r, p) /\ SameScore(r, p)
      /\ p.status = r.status /\ p.result = r.result
  BY <1>0 DEF RoomRecord, SameChoice, SameClock, SameScore
<1>4. /\ p.players = r.players /\ p.host = r.host /\ p.connected = r.connected \ {g}
      /\ p.ready = r.ready \ {g} /\ p.away = r.away \cup {g} /\ p.late = r.late \ {g}
      /\ p.socket = r.socket
  BY <1>0 DEF RoomRecord
<1> HIDE DEF p
<1>5. Table(p)
  <2>1. g \in Humans(r)
    BY <1>0, HumansAre
  <2> QED  BY <1>0, <1>2, <1>3, <1>4, <2>1 DEF Table, Seated, Humans, SameChoice, SameScore
<1>6. RoomOK(p)
  BY <1>3, <1>4, <1>5, PeopleIs
<1>7. h \in r.players
  BY <1>0, <1>1, <1>4, <1>5 DEF Table, Seated, Humans
<1>8. /\ RoomOK(after) /\ SamePeople(p, after) /\ after.history = r.history
      /\ after.status = (IF r.status = "countdown" THEN "waiting" ELSE r.status)
  BY <1>3, <1>5, <1>6, AbortedIs DEF SamePeople, SameChoice
<1> HIDE DEF after, next
<1>9. /\ RoomOK(q) /\ SameSeats(after, q) /\ q.status = after.status
      /\ q.history = after.history
  BY <1>1, <1>4, <1>7, <1>8, HostIs DEF SamePeople
<1>10. Moves(r, q)
  BY <1>8, <1>9 DEF Moves, Begins
<1> QED  BY <1>4, <1>8, <1>9, <1>10 DEF SamePeople, SameSeats

\* The entry of a socket may outlive the player it names.
LEMMA LeftBehindIs ==
  ASSUME NEW r, RoomOK(r)
  PROVE  Quiet(r, IF r.status = "countdown" THEN Aborted(r) ELSE [r EXCEPT !.idle = FALSE])
<1>1. r.status = "countdown" => Quiet(r, Aborted(r))
  BY AbortedIs DEF RoomOK, Quiet, Moves, Begins, SameSeats, SamePeople
<1>2. Quiet(r, [r EXCEPT !.idle = FALSE])
  BY IdleIs
<1> QED  BY <1>1, <1>2

\* The rooms that joinRoom and explicitLeaveBySocket make of r.
Rejoined(r, g, s) ==
  [r EXCEPT !.connected = @ \cup {g}, !.away = @ \ {g}, !.late = @ \ {g},
            !.socket[g] = {s}, !.idle = FALSE]
Joined(r, g, s) ==
  [r EXCEPT !.players = @ \cup {g}, !.connected = @ \cup {g},
            !.away = @ \ {g}, !.late = @ \ {g}, !.ready = @ \ {g},
            !.progress[g] = 0, !.finish[g] = "none", !.hp[g] = 0,
            !.socket[g] = {s}, !.idle = FALSE]
GivenUp(r, g, h) ==
  [r EXCEPT !.players = r.players \ {g}, !.host = h, !.idle = FALSE,
            !.connected = @ \ {g}, !.ready = @ \ {g},
            !.away = @ \ {g}, !.late = @ \ {g},
            !.forfeited = @ \ {g}, !.socket[g] = {},
            !.finish[g] = "none", !.progress[g] = 0, !.hp[g] = 0]

\* A player comes back to the seat, with another socket.
LEMMA RejoinedIs ==
  ASSUME NEW r, RoomOK(r), NEW g \in Guests, g \in r.players, NEW s \in Sockets,
         NEW h \in EnsuredHosts(Rejoined(r, g, s))
  PROVE  LET p == [Rejoined(r, g, s) EXCEPT !.host = h]
         IN  /\ RoomOK(p) /\ Moves(r, p) /\ p.connected = r.connected \cup {g}
             /\ p.socket = [r.socket EXCEPT ![g] = {s}]
<1> DEFINE socket == [r.socket EXCEPT ![g] = {s}]
           q == Rejoined(r, g, s)
           p == [q EXCEPT !.host = h]
<1>0. r \in RoomRecord
  BY DEF RoomOK, Table
<1>1. socket \in [Guests -> SUBSET Sockets]
  BY <1>0 DEF RoomRecord
<1>2. q = [r EXCEPT !.connected = @ \cup {g}, !.away = @ \ {g}, !.late = @ \ {g},
                    !.socket = socket, !.idle = FALSE]
  BY DEF Rejoined
<1> HIDE DEF socket, q
<1>3. q \in RoomRecord
  BY <1>0, <1>1, <1>2 DEF RoomRecord
<1>4. /\ SameChoice(r, q) /\ SameClock(r, q) /\ SameScore(r, q)
      /\ q.status = r.status /\ q.result = r.result
  BY <1>0, <1>2 DEF RoomRecord, SameChoice, SameClock, SameScore
<1>5. /\ q.players = r.players /\ q.host = r.host /\ q.connected = r.connected \cup {g}
      /\ q.ready = r.ready /\ q.away = r.away \ {g} /\ q.late = r.late \ {g}
      /\ q.socket = socket
  BY <1>0, <1>2 DEF RoomRecord
<1>6. g \in Humans(r)
  BY <1>0, HumansAre
<1>7. Table(q)
  BY <1>3, <1>4, <1>5, <1>6 DEF RoomOK, Table, Seated, Humans, SameChoice, SameScore
<1>8. RoomOK(q) /\ h \in q.players
  <2>1. h \in EnsuredHosts(q)
    BY DEF q
  <2> QED  BY <1>4, <1>5, <1>7, <2>1, PeopleIs, EnsuredIsSeated
<1>9. RoomOK(p) /\ SameSeats(q, p) /\ p.status = q.status /\ p.history = q.history
  BY <1>8, HostIs
<1>10. Moves(r, p)
  BY <1>4, <1>9 DEF Moves, Begins, SameChoice
<1> QED  BY <1>5, <1>9, <1>10 DEF SameSeats, socket, q

\* A player takes a free seat of a room that waits.
LEMMA JoinedIs ==
  ASSUME NEW r, RoomOK(r), r.status = "waiting", Cardinality(r.players) < MaxPlayers,
         NEW g \in Guests, g \notin r.players, NEW s \in Sockets,
         NEW h \in EnsuredHosts(Joined(r, g, s))
  PROVE  LET p == [Joined(r, g, s) EXCEPT !.host = h]
         IN  /\ RoomOK(p) /\ Moves(r, p) /\ p.connected = r.connected \cup {g}
             /\ p.socket = [r.socket EXCEPT ![g] = {s}]
<1> DEFINE socket == [r.socket EXCEPT ![g] = {s}]
           progress == [r.progress EXCEPT ![g] = 0]
           finish == [r.finish EXCEPT ![g] = "none"]
           hp == [r.hp EXCEPT ![g] = 0]
           q == Joined(r, g, s)
           p == [q EXCEPT !.host = h]
<1>0. /\ r \in RoomRecord /\ Table(r) /\ IsFiniteSet(r.players) /\ MaxPlayers \in Nat
      /\ g \in Ids /\ g # Bot
  BY GuestsAssumption, EngineBoundsAssumption DEF RoomOK, Table, Ids
<1>1. /\ socket \in [Guests -> SUBSET Sockets] /\ progress \in [Ids -> 0..Length]
      /\ finish \in [Ids -> Finishes] /\ hp \in [Ids -> 0..MaxHp]
  BY <1>0, EngineBoundsAssumption DEF RoomRecord, Finishes
<1>2. q = [r EXCEPT !.players = @ \cup {g}, !.connected = @ \cup {g},
                    !.away = @ \ {g}, !.late = @ \ {g}, !.ready = @ \ {g},
                    !.progress = progress, !.finish = finish, !.hp = hp,
                    !.socket = socket, !.idle = FALSE]
  BY DEF Joined
<1> HIDE DEF socket, progress, finish, hp, q
<1>3. q \in RoomRecord
  <2>1. /\ r.players \cup {g} \in SUBSET Ids /\ r.connected \cup {g} \in SUBSET Guests
        /\ r.away \ {g} \in SUBSET Guests /\ r.late \ {g} \in SUBSET Guests
        /\ r.ready \ {g} \in SUBSET Guests
    BY <1>0 DEF RoomRecord
  <2> QED  BY <1>0, <1>1, <1>2, <2>1 DEF RoomRecord
<1>4. /\ SameChoice(r, q) /\ SameClock(r, q) /\ q.forfeited = r.forfeited
      /\ q.status = r.status /\ q.result = r.result
  BY <1>0, <1>2 DEF RoomRecord, SameChoice, SameClock
<1>5. /\ q.players = r.players \cup {g} /\ q.host = r.host
      /\ q.connected = r.connected \cup {g} /\ q.ready = r.ready \ {g}
      /\ q.away = r.away \ {g} /\ q.late = r.late \ {g} /\ q.socket = socket
  BY <1>0, <1>2 DEF RoomRecord
<1>6. IsFiniteSet(q.players) /\ Cardinality(q.players) <= MaxPlayers
  <2>1. Cardinality(r.players) \in Nat
    BY <1>0, FS_CardinalityType
  <2>2. /\ IsFiniteSet(r.players \cup {g})
        /\ Cardinality(r.players \cup {g}) = Cardinality(r.players) + 1
    BY <1>0, FS_AddElement
  <2> QED  BY <1>0, <1>5, <2>1, <2>2
<1>7. Table(q)
  BY <1>0, <1>3, <1>4, <1>5, <1>6 DEF Table, Seated, Humans, SameChoice
<1>8. RoomOK(q)
  <2>1. MatchFits(q) /\ Fresh(q)
    BY <1>4 DEF RoomOK, MatchFits, Fresh, SameClock
  <2> QED  BY <1>7, <2>1 DEF RoomOK
<1>9. RoomOK(p) /\ SameSeats(q, p) /\ p.status = q.status /\ p.history = q.history
  <2>1. h \in EnsuredHosts(q)
    BY DEF q
  <2>2. h \in q.players
    BY <1>7, <2>1, EnsuredIsSeated
  <2> QED  BY <1>8, <2>2, HostIs
<1>10. Moves(r, p)
  BY <1>4, <1>9 DEF Moves, Begins, SameChoice
<1> QED  BY <1>5, <1>9, <1>10 DEF SameSeats, socket, q

\* explicitLeaveBySocket: the seat is given up, and others keep theirs.
LEMMA GivenUpIs ==
  ASSUME NEW r, RoomOK(r), r.status \in {"waiting", "finished"}, NEW g \in Guests,
         r.players \ {g} # {},
         NEW h \in IF g # r.host THEN {r.host}
                   ELSE IF (r.players \ {g}) \ {Bot} # {} THEN (r.players \ {g}) \ {Bot}
                   ELSE {Bot}
  PROVE  LET q == GivenUp(r, g, h)
         IN  /\ RoomOK(q) /\ Moves(r, q) /\ q.connected = r.connected \ {g}
             /\ q.socket = [r.socket EXCEPT ![g] = {}]
<1> DEFINE socket == [r.socket EXCEPT ![g] = {}]
           finish == [r.finish EXCEPT ![g] = "none"]
           progress == [r.progress EXCEPT ![g] = 0]
           hp == [r.hp EXCEPT ![g] = 0]
           q == GivenUp(r, g, h)
<1>0. /\ r \in RoomRecord /\ Table(r) /\ IsFiniteSet(r.players) /\ MaxPlayers \in Nat
      /\ Cardinality(r.players) <= MaxPlayers /\ g \in Ids
  BY EngineBoundsAssumption DEF RoomOK, Table, Seated, Ids
<1>1. /\ socket \in [Guests -> SUBSET Sockets] /\ finish \in [Ids -> Finishes]
      /\ progress \in [Ids -> 0..Length] /\ hp \in [Ids -> 0..MaxHp]
  BY <1>0, EngineBoundsAssumption DEF RoomRecord, Finishes
<1>2. q = [r EXCEPT !.players = r.players \ {g}, !.host = h, !.idle = FALSE,
                    !.connected = @ \ {g}, !.ready = @ \ {g},
                    !.away = @ \ {g}, !.late = @ \ {g},
                    !.forfeited = @ \ {g}, !.socket = socket, !.finish = finish,
                    !.progress = progress, !.hp = hp]
  BY DEF GivenUp
<1>3. h \in r.players \ {g}
  BY <1>0 DEF Table, Seated
<1> HIDE DEF socket, finish, progress, hp, q
<1>4. q \in RoomRecord
  <2> DEFINE players == r.players \ {g}
             connected == r.connected \ {g}
             ready == r.ready \ {g}
             away == r.away \ {g}
             late == r.late \ {g}
             forfeited == r.forfeited \ {g}
  <2>1. /\ h \in Ids /\ players \in SUBSET Ids
        /\ {connected, ready, away, late, forfeited} \subseteq SUBSET Guests
    BY <1>0, <1>3 DEF RoomRecord
  <2>2. q = [r EXCEPT !.players = players, !.host = h, !.idle = FALSE,
                      !.connected = connected, !.ready = ready, !.away = away,
                      !.late = late, !.forfeited = forfeited, !.socket = socket,
                      !.finish = finish, !.progress = progress, !.hp = hp]
    BY <1>0, <1>2 DEF RoomRecord
  <2> HIDE DEF players, connected, ready, away, late, forfeited
  <2> DEFINE k == [r EXCEPT !.players = players, !.host = h, !.idle = FALSE,
                            !.connected = connected, !.ready = ready, !.away = away]
  <2>3. k \in RoomRecord
    BY <1>0, <2>1 DEF RoomRecord
  <2>4. q = [k EXCEPT !.late = late, !.forfeited = forfeited, !.socket = socket,
                      !.finish = finish, !.progress = progress, !.hp = hp]
    BY <1>0, <2>2 DEF RoomRecord
  <2> HIDE DEF k
  <2> QED  BY <1>1, <2>1, <2>3, <2>4 DEF RoomRecord
<1>5. /\ SameChoice(r, q) /\ SameClock(r, q) /\ q.forfeited = r.forfeited \ {g}
      /\ q.status = r.status /\ q.result = r.result
  BY <1>0, <1>2 DEF RoomRecord, SameChoice, SameClock
<1>6. /\ q.players = r.players \ {g} /\ q.host = h
      /\ q.connected = r.connected \ {g} /\ q.ready = r.ready \ {g}
      /\ q.away = r.away \ {g} /\ q.late = r.late \ {g} /\ q.socket = socket
  BY <1>0, <1>2 DEF RoomRecord
<1>7. IsFiniteSet(q.players) /\ Cardinality(q.players) <= MaxPlayers
  <2>1. Cardinality(r.players) \in Nat
    BY <1>0, FS_CardinalityType
  <2>2. /\ IsFiniteSet(r.players \ {g})
        /\ Cardinality(r.players \ {g}) = IF g \in r.players THEN Cardinality(r.players) - 1
                                          ELSE Cardinality(r.players)
    BY <1>0, FS_RemoveElement
  <2> QED  BY <1>0, <1>6, <2>1, <2>2
<1>8. Table(q)
  BY <1>0, <1>3, <1>4, <1>5, <1>6, <1>7 DEF Table, Seated, Humans, SameChoice
<1>9. MatchFits(q) /\ Fresh(q)
  BY <1>5 DEF RoomOK, MatchFits, Fresh, SameClock
<1>10. Moves(r, q)
  BY <1>5 DEF Moves, Begins, SameChoice
<1> QED  BY <1>6, <1>8, <1>9, <1>10 DEF RoomOK, socket, q

-----------------------------------------------------------------------------
(* The rooms of the map.                                                   *)

RoomsInv ==
  /\ room \in [Codes -> RoomRecord \cup {NoRoom}]
  /\ socketIndex \in [Sockets -> (Codes \X Guests) \cup {NoEntry}]
  /\ restarts \in 0..MaxRestarts
  /\ \A c \in Open : RoomOK(room[c])

\* A restart leaves the match of a room as it is, and shortens its history.
Returns(r, q) == q.status = r.status /\ q.history = {q.prompt} \ {NoPrompt}

\* A step keeps the rooms sound, and removes none with a match and its players.
RoomStep ==
  /\ RoomsInv'
  /\ \A c \in Open :
       IF c \notin Open' THEN room[c].status = "playing" => room[c].connected = {}
       ELSE IF restarts' = restarts THEN Moves(room[c], room'[c])
       ELSE Returns(room[c], room'[c])
  /\ \A c \in Open' \ Open : UNCHANGED restarts /\ room'[c].history = {}

\* ... and leaves the index, and what it is about, as they are.
QuietStep ==
  /\ RoomStep /\ UNCHANGED <<socketIndex, restarts, slips>> /\ Open' \subseteq Open
  /\ \A c \in Open' : SameSeats(room[c], room'[c])

LEMMA OpenRoom ==
  ASSUME RoomsInv, NEW c \in Open
  PROVE  c \in Codes /\ room[c] \in RoomRecord /\ RoomOK(room[c])
BY DEF RoomsInv, Open, RoomOK, Table

\* One room of the map is replaced, or is new.
LEMMA PutRoom ==
  ASSUME RoomsInv, NEW c \in Codes, NEW q, RoomOK(q), c \in Open => Moves(room[c], q),
         c \notin Open => q.history = {}, room' = [room EXCEPT ![c] = q],
         socketIndex' \in [Sockets -> (Codes \X Guests) \cup {NoEntry}],
         UNCHANGED restarts
  PROVE  /\ RoomStep /\ Open' = Open \cup {c} /\ room'[c] = q
         /\ \A k \in Open \ {c} : room'[k] = room[k]
<1>1. q \in RoomRecord /\ q # NoRoom
  BY NoneAssumption DEF RoomOK, Table
<1>2. /\ room \in [Codes -> RoomRecord \cup {NoRoom}]
      /\ restarts \in 0..MaxRestarts /\ \A k \in Open : RoomOK(room[k])
  BY DEF RoomsInv
<1>3. /\ room' \in [Codes -> RoomRecord \cup {NoRoom}] /\ room'[c] = q
      /\ \A k \in Codes \ {c} : room'[k] = room[k]
  BY <1>1, <1>2
<1>4. Open' = Open \cup {c}
  BY <1>1, <1>3 DEF Open
<1>5. RoomsInv'
  <2>1. \A k \in Open' : RoomOK(room'[k])
    BY <1>2, <1>3, <1>4 DEF Open
  <2>2. (\A k \in Open : RoomOK(room[k]))'
    BY <2>1
  <2> QED  BY <1>2, <1>3, <1>4, <2>2 DEF RoomsInv
<1>6. \A k \in Open : Moves(room[k], room'[k])
  BY <1>3 DEF Open, Moves, Begins
<1>7. \A k \in Open' \ Open : UNCHANGED restarts /\ room'[k].history = {}
  BY <1>3, <1>4
<1> QED  BY <1>3, <1>4, <1>5, <1>6, <1>7 DEF RoomStep, Open

LEMMA QuietRoom ==
  ASSUME RoomsInv, NEW c \in Open, NEW q, Quiet(room[c], q),
         room' = [room EXCEPT ![c] = q], UNCHANGED <<socketIndex, restarts, slips>>
  PROVE  QuietStep
<1>1. socketIndex' \in [Sockets -> (Codes \X Guests) \cup {NoEntry}] /\ c \in Codes
  BY OpenRoom DEF RoomsInv
<1>2. /\ RoomStep /\ Open' = Open \cup {c} /\ room'[c] = q
      /\ \A k \in Open \ {c} : room'[k] = room[k]
  BY <1>1, PutRoom DEF Quiet
<1>3. \A k \in Open : SameSeats(room[k], room'[k])
  BY <1>2 DEF Quiet, SameSeats
<1> QED  BY <1>2, <1>3 DEF QuietStep

\* All rooms at once: each is kept, or is gone with no match to lose.
LEMMA QuietRooms ==
  ASSUME RoomsInv, NEW f, room' = [c \in Codes |-> f[c]],
         \A c \in Codes \ Open : f[c] = NoRoom,
         \A c \in Open : \/ Quiet(room[c], f[c])
                         \/ f[c] = NoRoom
                            /\ (room[c].status = "playing" => room[c].connected = {}),
         UNCHANGED <<socketIndex, restarts, slips>>
  PROVE  QuietStep
<1>1. \A c \in Codes : room'[c] = f[c]
  OBVIOUS
<1>2. ASSUME NEW c \in Open PROVE Quiet(room[c], room'[c]) \/ room'[c] = NoRoom
  BY <1>1 DEF Open
<1>3. Open' = {c \in Codes : room'[c] # NoRoom}
  BY DEF Open
<1>4. Open' \subseteq Open /\ \A c \in Open' : Quiet(room[c], room'[c])
  BY <1>1, <1>2, <1>3
<1>5. room' \in [Codes -> RoomRecord \cup {NoRoom}]
  <2>1. ASSUME NEW c \in Codes PROVE f[c] \in RoomRecord \cup {NoRoom}
    BY DEF Quiet, RoomOK, Table
  <2> QED  BY <2>1
<1>6. RoomsInv'
  <2>1. \A c \in Open' : RoomOK(room'[c])
    BY <1>4 DEF Quiet
  <2>2. (\A c \in Open : RoomOK(room[c]))'
    BY <2>1
  <2> QED  BY <1>4, <1>5, <2>2 DEF RoomsInv
<1>7. ASSUME NEW c \in Open
      PROVE  IF c \in Open' THEN Moves(room[c], room'[c])
             ELSE room[c].status = "playing" => room[c].connected = {}
  <2>1. c \in Codes /\ room'[c] = f[c]
    BY <1>1 DEF Open
  <2>2. c \in Open' <=> f[c] # NoRoom
    BY <1>3, <2>1
  <2>3. Quiet(room[c], f[c]) => f[c] # NoRoom
    BY NoneAssumption DEF Quiet, RoomOK, Table
  <2> QED  BY <2>1, <2>2, <2>3 DEF Quiet
<1> QED  BY <1>4, <1>6, <1>7 DEF QuietStep, RoomStep, Quiet

LEMMA StutterStep ==
  ASSUME RoomsInv, UNCHANGED vars
  PROVE  QuietStep
<1>1. Open' = Open /\ room' = room /\ socketIndex' = socketIndex /\ slips' = slips
      /\ restarts' = restarts
  BY DEF vars, Open
<1>2. RoomsInv'
  BY <1>1 DEF RoomsInv
<1> QED  BY <1>1, <1>2 DEF QuietStep, RoomStep, Moves, Begins, SameSeats

-----------------------------------------------------------------------------
(* The actions that leave the index alone.                                 *)

LEMMA RefuseJoinStep ==
  ASSUME RoomsInv, NEW s \in Sockets, NEW c \in Codes, RefuseJoin(s, c)
  PROVE  QuietStep
<1> DEFINE q == [room[c] EXCEPT !.idle = FALSE]
<1>1. c \in Open /\ RoomOK(room[c]) /\ room[c] \in RoomRecord
  BY OpenRoom DEF RefuseJoin
<1>2. Quiet(room[c], q)
  BY <1>1, IdleIs
<1>3. room' = [room EXCEPT ![c] = q] /\ UNCHANGED <<socketIndex, restarts, slips>>
  BY <1>1 DEF RefuseJoin
<1> HIDE DEF q
<1> QED  BY <1>1, <1>2, <1>3, QuietRoom

LEMMA SetPromptCategoryStep ==
  ASSUME RoomsInv, NEW s \in Sockets, NEW c \in Codes, SetPromptCategory(s, c)
  PROVE  QuietStep
<1>1. PICK k \in Categories :
        room' = [room EXCEPT ![c].category = k, ![c].ready = {}]
  BY DEF SetPromptCategory
<1> DEFINE q == [room[c] EXCEPT !.category = k, !.ready = {}]
<1>2. /\ c \in Open /\ room[c].status \in {"waiting", "finished"}
      /\ UNCHANGED <<socketIndex, restarts, slips>>
  BY DEF SetPromptCategory, Hosts, Speaks
<1>3. RoomOK(room[c]) /\ room[c] \in RoomRecord
  BY <1>2, OpenRoom
<1>4. Quiet(room[c], q)
  BY <1>2, <1>3, CategoryIsSetting
<1>5. room' = [room EXCEPT ![c] = q]
  BY <1>1 DEF RoomsInv
<1> HIDE DEF q
<1> QED  BY <1>2, <1>4, <1>5, QuietRoom

LEMMA SetMatchRuleStep ==
  ASSUME RoomsInv, NEW s \in Sockets, NEW c \in Codes, SetMatchRule(s, c)
  PROVE  QuietStep
<1>1. PICK k \in Rules :
        room' = [room EXCEPT ![c].rule = k, ![c].ready = {}, ![c].ends = "none",
                             ![c].sudden = FALSE]
  BY DEF SetMatchRule
<1> DEFINE q == [room[c] EXCEPT !.rule = k, !.ready = {}, !.ends = "none", !.sudden = FALSE]
<1>2. /\ c \in Open /\ room[c].status \in {"waiting", "finished"}
      /\ UNCHANGED <<socketIndex, restarts, slips>>
  BY DEF SetMatchRule, Hosts, Speaks
<1>3. RoomOK(room[c]) /\ room[c] \in RoomRecord
  BY <1>2, OpenRoom
<1>4. Quiet(room[c], q)
  BY <1>2, <1>3, RuleIsSetting
<1>5. room' = [room EXCEPT ![c] = q]
  BY <1>1 DEF RoomsInv
<1> HIDE DEF q
<1> QED  BY <1>2, <1>4, <1>5, QuietRoom

\* The last READY starts a match: the player who gives it is a human there.
LEMMA SetReadyStep ==
  ASSUME RoomsInv, NEW s \in Sockets, NEW c \in Codes, SetReady(s, c)
  PROVE  QuietStep
<1> DEFINE r == room[c]
           ready(on) == IF on THEN r.ready \cup {Owner[s]} ELSE r.ready \ {Owner[s]}
           q(on) == [r EXCEPT !.ready = ready(on)]
           begins(on) == q(on).status = "finished" /\ Humans(q(on)) \subseteq q(on).ready \cap q(on).connected
<1>1. /\ c \in Open /\ Owner[s] \in r.players /\ r.status \in {"waiting", "finished"}
      /\ UNCHANGED <<socketIndex, restarts, slips>>
  BY DEF SetReady, Speaks
<1>2. PICK on \in BOOLEAN :
        IF begins(on)
        THEN /\ q(on).round < MaxRound
             /\ \E p \in Selectable(q(on)) :
                  room' = [room EXCEPT ![c] = Begun(q(on), q(on).round + 1, p)]
        ELSE room' = [room EXCEPT ![c] = q(on)]
  BY DEF SetReady
<1>3. RoomOK(r) /\ r \in RoomRecord
  BY <1>1, OpenRoom
<1>4. Owner[s] \in Humans(r) /\ ready(on) \in SUBSET Humans(r)
  <2>1. Owner[s] \in Guests
    BY GuestsAssumption
  <2>2. Owner[s] \in Humans(r) /\ r.ready \subseteq Humans(r)
    BY <1>1, <1>3, <2>1, HumansAre DEF RoomOK, Table, Seated
  <2> QED  BY <2>2
<1> DEFINE who == ready(on)
           t == [r EXCEPT !.ready = who]
<1>5. t = q(on)
  OBVIOUS
<1> HIDE DEF r, ready
<1>6. /\ Quiet(r, t) /\ t.status = r.status /\ t.round = r.round
      /\ t.category = r.category /\ t.history = r.history /\ Humans(t) = Humans(r)
  BY <1>1, <1>3, <1>4, ReadyIsSetting
<1> HIDE DEF t
<1>7. CASE begins(on)
  <2>1. PICK p \in Selectable(t) :
          room' = [room EXCEPT ![c] = Begun(t, t.round + 1, p)]
    BY <1>2, <1>5, <1>7
  <2>2. t.round + 1 \in 1..MaxRound
    <3>1. r.round \in 1..MaxRound /\ t.round < MaxRound /\ MaxRound \in Nat
      BY <1>2, <1>3, <1>5, <1>7, EngineBoundsAssumption DEF RoomRecord
    <3> QED  BY <1>6, <3>1
  <2>3. Table(t) /\ t.status \in {"waiting", "finished"} /\ Humans(t) # {}
    BY <1>1, <1>4, <1>6 DEF Quiet, RoomOK
  <2>4. Quiet(t, Begun(t, t.round + 1, p))
    BY <2>2, <2>3, BegunIs
  <2>5. Quiet(r, Begun(t, t.round + 1, p))
    BY <1>6, <2>3, <2>4 DEF Quiet, Moves, Begins, SameSeats
  <2> QED  BY <1>1, <2>1, <2>5, QuietRoom DEF r
<1>8. CASE ~begins(on)
  <2>1. room' = [room EXCEPT ![c] = t]
    BY <1>2, <1>5, <1>8
  <2> QED  BY <1>1, <1>6, <2>1, QuietRoom DEF r
<1> QED  BY <1>7, <1>8

LEMMA StartMatchStep ==
  ASSUME RoomsInv, NEW s \in Sockets, NEW c \in Codes, StartMatch(s, c)
  PROVE  QuietStep
<1>1. /\ c \in Open /\ Owner[s] \in room[c].players /\ room[c].status = "waiting"
      /\ UNCHANGED <<socketIndex, restarts, slips>>
  BY DEF StartMatch, Hosts, Speaks
<1>2. PICK p \in Selectable(room[c]) :
        room' = [room EXCEPT ![c] = Begun(room[c], room[c].round, p)]
  BY DEF StartMatch
<1>3. RoomOK(room[c]) /\ room[c] \in RoomRecord /\ room[c].round \in 1..MaxRound
  BY <1>1, OpenRoom DEF RoomRecord
<1>4. Humans(room[c]) # {}
  BY <1>1, <1>3, HumansAre, GuestsAssumption
<1>5. Quiet(room[c], Begun(room[c], room[c].round, p))
  BY <1>1, <1>3, <1>4, BegunIs DEF RoomOK
<1> QED  BY <1>1, <1>2, <1>5, QuietRoom

LEMMA RematchStep ==
  ASSUME RoomsInv, NEW s \in Sockets, NEW c \in Codes, Rematch(s, c)
  PROVE  QuietStep
<1>1. /\ c \in Open /\ Owner[s] \in room[c].players /\ room[c].status = "finished"
      /\ room[c].round < MaxRound /\ UNCHANGED <<socketIndex, restarts, slips>>
  BY DEF Rematch, Hosts, Speaks
<1>2. PICK p \in Selectable(room[c]) :
        room' = [room EXCEPT ![c] = Begun(room[c], room[c].round + 1, p)]
  BY DEF Rematch
<1>3. RoomOK(room[c]) /\ room[c] \in RoomRecord /\ room[c].round + 1 \in 1..MaxRound
  BY <1>1, OpenRoom, EngineBoundsAssumption DEF RoomRecord
<1>4. Humans(room[c]) # {}
  BY <1>1, <1>3, HumansAre, GuestsAssumption
<1>5. Quiet(room[c], Begun(room[c], room[c].round + 1, p))
  BY <1>1, <1>3, <1>4, BegunIs DEF RoomOK
<1> QED  BY <1>1, <1>2, <1>5, QuietRoom

LEMMA MarkPlayingStep ==
  ASSUME RoomsInv, NEW c \in Codes, MarkPlaying(c)
  PROVE  QuietStep
<1> DEFINE r == room[c]
           q == IF Humans(r) = {} \/ ~(Humans(r) \subseteq r.connected) THEN Aborted(r)
                ELSE [r EXCEPT !.status = "playing"]
<1>1. /\ c \in Open /\ r.status = "countdown"
      /\ UNCHANGED <<socketIndex, restarts, slips>>
  BY DEF MarkPlaying
<1>2. room' = [room EXCEPT ![c] = q]
  BY DEF MarkPlaying, RoomsInv
<1>3. Quiet(r, q)
  BY <1>1, OpenRoom, PlayingIs
<1> HIDE DEF q
<1> QED  BY <1>1, <1>2, <1>3, QuietRoom

LEMMA UpdateProgressStep ==
  ASSUME RoomsInv, NEW s \in Sockets, NEW c \in Codes, UpdateProgress(s, c)
  PROVE  QuietStep
<1> DEFINE r == room[c]
           q(d, w) == IF Expired(r) THEN Finalized(r) ELSE Settled(Typed(r, Owner[s], d, w))
<1>1. /\ c \in Open /\ r.status = "playing" /\ UNCHANGED <<socketIndex, restarts, slips>>
  BY DEF UpdateProgress, Speaks
<1>2. PICK d \in 0..MaxKeys, w \in 0..MaxKeys : room' = [room EXCEPT ![c] = q(d, w)]
  BY DEF UpdateProgress, RoomsInv
<1>3. d \in Nat /\ w \in Nat /\ Owner[s] \in Ids
  BY GuestsAssumption, EngineBoundsAssumption DEF Ids
<1>4. Quiet(r, q(d, w))
  BY <1>1, <1>3, OpenRoom, TypedIsPlayed
<1> HIDE DEF q
<1> QED  BY <1>1, <1>2, <1>4, QuietRoom

LEMMA FinishTypingStep ==
  ASSUME RoomsInv, NEW s \in Sockets, NEW c \in Codes, FinishTyping(s, c)
  PROVE  QuietStep
<1> DEFINE r == room[c]
           i == Owner[s]
           t(d) == Typed(r, i, d, 0)
           q(d) == IF Expired(r) THEN Finalized(r)
                   ELSE IF r.rule = "timeAttack" \/ t(d).progress[i] < Length THEN Settled(t(d))
                   ELSE Settled([t(d) EXCEPT !.finish[i] = "finished"])
<1>1. /\ c \in Open /\ r.status = "playing" /\ UNCHANGED <<socketIndex, restarts, slips>>
  BY DEF FinishTyping, Speaks
<1>2. PICK d \in 1..MaxKeys : room' = [room EXCEPT ![c] = q(d)]
  BY DEF FinishTyping, RoomsInv
<1>3. d \in Nat /\ i \in Ids
  BY GuestsAssumption, EngineBoundsAssumption DEF Ids
<1>4. Quiet(r, q(d))
  BY <1>1, <1>3, OpenRoom, FinishedIsPlayed
<1> HIDE DEF q
<1> QED  BY <1>1, <1>2, <1>4, QuietRoom

LEMMA AdvanceBotStep ==
  ASSUME RoomsInv, NEW c \in Codes, AdvanceBot(c)
  PROVE  QuietStep
<1> DEFINE r == room[c]
           q(d, w) == IF Expired(r) THEN Finalized(r) ELSE Settled(Typed(r, Bot, d, w))
<1>1. /\ c \in Open /\ r.status = "playing" /\ UNCHANGED <<socketIndex, restarts, slips>>
  BY DEF AdvanceBot
<1>2. PICK d \in 0..MaxKeys, w \in 0..MaxKeys : room' = [room EXCEPT ![c] = q(d, w)]
  BY DEF AdvanceBot, BotTyped, RoomsInv
<1>3. d \in Nat /\ w \in Nat /\ Bot \in Ids
  BY EngineBoundsAssumption DEF Ids
<1>4. Quiet(r, q(d, w))
  BY <1>1, <1>3, OpenRoom, TypedIsPlayed
<1> HIDE DEF q
<1> QED  BY <1>1, <1>2, <1>4, QuietRoom

\* A room as it is.
LEMMA SameRoom ==
  ASSUME RoomsInv, NEW c \in Open
  PROVE  Quiet(room[c], room[c])
BY OpenRoom DEF Quiet, Moves, Begins, SameSeats

LEMMA CheckForForfeitsStep ==
  ASSUME RoomsInv, CheckForForfeits
  PROVE  QuietStep
<1> DEFINE f == [c \in Codes |-> IF c \in Open /\ room[c].status = "playing"
                                 THEN Forfeit(room[c]) ELSE room[c]]
<1>1. room' = [c \in Codes |-> f[c]] /\ UNCHANGED <<socketIndex, restarts, slips>>
  BY DEF CheckForForfeits
<1>2. \A c \in Codes \ Open : f[c] = NoRoom
  BY DEF Open
<1>3. ASSUME NEW c \in Open PROVE Quiet(room[c], f[c])
  <2>1. c \in Codes /\ RoomOK(room[c])
    BY OpenRoom
  <2>2. CASE room[c].status = "playing"
    BY <2>1, <2>2, ForfeitIsPlayed
  <2>3. CASE room[c].status # "playing"
    BY <2>1, <2>3, SameRoom
  <2> QED  BY <2>2, <2>3
<1> HIDE DEF f
<1> QED  BY <1>1, <1>2, <1>3, QuietRooms

LEMMA CheckExpiredStep ==
  ASSUME RoomsInv, CheckExpired
  PROVE  QuietStep
<1> DEFINE due == {c \in Open : room[c].status = "playing" /\ room[c].ends = "passed"}
           f == [c \in Codes |-> IF c \in due THEN TimeUp(room[c]) ELSE room[c]]
<1>1. room' = [c \in Codes |-> f[c]] /\ UNCHANGED <<socketIndex, restarts, slips>>
  BY DEF CheckExpired
<1>2. \A c \in Codes \ Open : f[c] = NoRoom
  BY DEF Open
<1>3. ASSUME NEW c \in Open PROVE Quiet(room[c], f[c])
  <2>1. c \in Codes /\ RoomOK(room[c])
    BY OpenRoom
  <2>2. CASE c \in due
    BY <2>1, <2>2, TimeUpIsPlayed
  <2>3. CASE c \notin due
    BY <2>1, <2>3, SameRoom
  <2> QED  BY <2>2, <2>3
<1> HIDE DEF f
<1> QED  BY <1>1, <1>2, <1>3, QuietRooms

\* Only a room that nobody plays in is disposed of.
LEMMA CleanupStep ==
  ASSUME RoomsInv, CleanupExpiredRooms
  PROVE  QuietStep
<1> DEFINE f == [c \in Codes |-> IF c \in Open /\ Disposable(room[c]) THEN NoRoom ELSE room[c]]
<1>1. room' = [c \in Codes |-> f[c]] /\ UNCHANGED <<socketIndex, restarts, slips>>
  BY DEF CleanupExpiredRooms
<1>2. \A c \in Codes \ Open : f[c] = NoRoom
  BY DEF Open
<1>3. ASSUME NEW c \in Open
      PROVE  \/ Quiet(room[c], f[c])
             \/ f[c] = NoRoom /\ (room[c].status = "playing" => room[c].connected = {})
  <2>1. c \in Codes
    BY OpenRoom
  <2>2. CASE Disposable(room[c])
    BY <2>1, <2>2 DEF Disposable, Abandoned
  <2>3. CASE ~Disposable(room[c])
    BY <2>1, <2>3, SameRoom
  <2> QED  BY <2>2, <2>3
<1> HIDE DEF f
<1> QED  BY <1>1, <1>2, <1>3, QuietRooms

LEMMA GraceElapsesStep ==
  ASSUME RoomsInv, NEW c \in Codes, GraceElapses(c)
  PROVE  QuietStep
<1>1. c \in Open /\ UNCHANGED <<socketIndex, restarts, slips>>
  BY DEF GraceElapses
<1>2. PICK g \in room[c].away \ room[c].late :
        room' = [room EXCEPT ![c].late = @ \cup {g}]
  BY DEF GraceElapses
<1> DEFINE q == [room[c] EXCEPT !.late = @ \cup {g}]
<1>3. Quiet(room[c], q)
  BY <1>1, OpenRoom, LateIs
<1>4. room' = [room EXCEPT ![c] = q]
  BY <1>2 DEF RoomsInv
<1> HIDE DEF q
<1> QED  BY <1>1, <1>3, <1>4, QuietRoom

LEMMA IdleElapsesStep ==
  ASSUME RoomsInv, NEW c \in Codes, IdleElapses(c)
  PROVE  QuietStep
<1> DEFINE q == [room[c] EXCEPT !.idle = TRUE]
<1>1. c \in Open /\ UNCHANGED <<socketIndex, restarts, slips>>
  BY DEF IdleElapses
<1>2. Quiet(room[c], q)
  BY <1>1, OpenRoom, IdleIs
<1>3. room' = [room EXCEPT ![c] = q]
  BY DEF IdleElapses
<1> HIDE DEF q
<1> QED  BY <1>1, <1>2, <1>3, QuietRoom

LEMMA MatchTimeElapsesStep ==
  ASSUME RoomsInv, NEW c \in Codes, MatchTimeElapses(c)
  PROVE  QuietStep
<1> DEFINE q == [room[c] EXCEPT !.ends = "passed"]
<1>1. /\ c \in Open /\ room[c].status = "playing" /\ room[c].ends = "ahead"
      /\ UNCHANGED <<socketIndex, restarts, slips>>
  BY DEF MatchTimeElapses
<1>2. Quiet(room[c], q)
  BY <1>1, OpenRoom, PassedIs
<1>3. room' = [room EXCEPT ![c] = q]
  BY DEF MatchTimeElapses
<1> HIDE DEF q
<1> QED  BY <1>1, <1>2, <1>3, QuietRoom

-----------------------------------------------------------------------------
(* The actions that touch the index.  Each lemma says what becomes of the  *)
(* entries, the connected players and the sockets of the seats.            *)

\* Room c, old or new, has these players connected, on these sockets.
Reseated(c, connected, socket) ==
  /\ RoomStep /\ UNCHANGED restarts /\ Open' = Open \cup {c}
  /\ room'[c].connected = connected /\ room'[c].socket = socket
  /\ \A k \in Open \ {c} : SameSeats(room[k], room'[k])

\* The entry of a socket is free or names a code and a guest.
LEMMA EntryIs ==
  ASSUME RoomsInv, NEW s \in Sockets, socketIndex[s] # NoEntry
  PROVE  /\ socketIndex[s][1] \in Codes /\ socketIndex[s][2] \in Guests
         /\ socketIndex[s] = <<socketIndex[s][1], socketIndex[s][2]>>
BY DEF RoomsInv

\* createRoom
NewRoom(s) ==
  [status |-> "waiting", rule |-> "race", category |-> "standard",
   host |-> Owner[s], round |-> 1, prompt |-> NoPrompt, history |-> {},
   players |-> {Owner[s]}, connected |-> {Owner[s]}, ready |-> {},
   away |-> {}, late |-> {}, forfeited |-> {},
   finish |-> [i \in Ids |-> "none"], progress |-> [i \in Ids |-> 0],
   hp |-> [i \in Ids |-> 0],
   socket |-> [g \in Guests |-> IF g = Owner[s] THEN {s} ELSE {}],
   ends |-> "none", sudden |-> FALSE, result |-> FALSE, idle |-> FALSE]

LEMMA NewRoomIs ==
  ASSUME NEW s \in Sockets
  PROVE  RoomOK(NewRoom(s))
<1> DEFINE q == NewRoom(s)
<1>0. /\ Owner[s] \in Guests /\ Owner[s] # Bot /\ Owner[s] \in Ids
      /\ "race" \in Rules /\ "standard" \in Categories /\ 1 \in 1..MaxRound
      /\ 0 \in 0..Length /\ 0 \in 0..MaxHp
  BY GuestsAssumption, EngineRulesAssumption, PromptsAssumption, EngineBoundsAssumption DEF Ids
<1>1. q \in RoomRecord
  BY <1>0 DEF RoomRecord, NewRoom, Statuses, Finishes
<1>2. /\ q.status = "waiting" /\ q.host = Owner[s] /\ q.players = {Owner[s]}
      /\ q.connected = {Owner[s]} /\ q.ready = {} /\ q.away = {} /\ q.late = {}
      /\ q.forfeited = {} /\ q.prompt = NoPrompt /\ q.ends = "none" /\ ~q.result
  BY DEF NewRoom
<1> HIDE DEF q
<1>3. IsFiniteSet(q.players) /\ Cardinality(q.players) <= MaxPlayers
  <2>1. IsFiniteSet({Owner[s]}) /\ Cardinality({Owner[s]}) = 1
    BY FS_Singleton
  <2> QED  BY <1>2, <2>1, EngineBoundsAssumption
<1>4. Table(q)
  BY <1>0, <1>1, <1>2, <1>3 DEF Table, Seated, Humans
<1>5. MatchFits(q) /\ Fresh(q)
  BY <1>2 DEF MatchFits, Fresh
<1> QED  BY <1>4, <1>5 DEF RoomOK, q

LEMMA CreateRoomStep ==
  ASSUME RoomsInv, NEW s \in Sockets, CreateRoom(s)
  PROVE  \E c \in Codes \ Open :
           /\ Reseated(c, {Owner[s]}, [g \in Guests |-> IF g = Owner[s] THEN {s} ELSE {}])
           /\ slips' = slips \cup (IF StaleCode(s, c) THEN {"staleCode"} ELSE {})
                            \cup (IF SecondRoom(s, c) THEN {"secondRoom"} ELSE {})
           /\ socketIndex' = [socketIndex EXCEPT ![s] = <<c, Owner[s]>>]
<1>1. PICK c \in Codes \ Open :
        /\ slips' = slips \cup (IF StaleCode(s, c) THEN {"staleCode"} ELSE {})
                         \cup (IF SecondRoom(s, c) THEN {"secondRoom"} ELSE {})
        /\ room' = [room EXCEPT ![c] = NewRoom(s)]
        /\ socketIndex' = [socketIndex EXCEPT ![s] = <<c, Owner[s]>>]
        /\ UNCHANGED restarts
  BY DEF CreateRoom, NewRoom
<1>2. Owner[s] \in Guests
  BY GuestsAssumption
<1>3. socketIndex' \in [Sockets -> (Codes \X Guests) \cup {NoEntry}]
  BY <1>1, <1>2 DEF RoomsInv
<1> DEFINE q == NewRoom(s)
<1>4. RoomOK(q)
  BY NewRoomIs
<1>5. /\ q.connected = {Owner[s]} /\ q.history = {}
      /\ q.socket = [g \in Guests |-> IF g = Owner[s] THEN {s} ELSE {}]
  BY DEF NewRoom
<1> HIDE DEF q
<1>6. /\ RoomStep /\ Open' = Open \cup {c} /\ room'[c] = q
      /\ \A k \in Open \ {c} : room'[k] = room[k]
  <2>1. room' = [room EXCEPT ![c] = q]
    BY <1>1 DEF q
  <2> QED  BY <1>1, <1>3, <1>4, <1>5, <2>1, PutRoom
<1>7. Reseated(c, {Owner[s]}, [g \in Guests |-> IF g = Owner[s] THEN {s} ELSE {}])
  BY <1>1, <1>5, <1>6 DEF Reseated, SameSeats
<1> QED  BY <1>1, <1>7

LEMMA RejoinStep ==
  ASSUME RoomsInv, NEW s \in Sockets, NEW c \in Codes, Rejoin(s, c)
  PROVE  LET g == Owner[s]
         IN  /\ c \in Open /\ g \in Guests /\ SitsDown(s, c)
             /\ Reseated(c, room[c].connected \cup {g}, [room[c].socket EXCEPT ![g] = {s}])
             /\ socketIndex' = [t \in Sockets |->
                  IF t = s THEN <<c, g>>
                  ELSE IF t \in room[c].socket[g] THEN NoEntry ELSE socketIndex[t]]
<1> DEFINE g == Owner[s]
           q == Rejoined(room[c], g, s)
<1>1. /\ c \in Open /\ g \in room[c].players /\ SitsDown(s, c) /\ UNCHANGED restarts
      /\ socketIndex' = [t \in Sockets |->
           IF t = s THEN <<c, g>>
           ELSE IF t \in room[c].socket[g] THEN NoEntry ELSE socketIndex[t]]
  BY DEF Rejoin
<1>2. PICK h \in EnsuredHosts(q) : room' = [room EXCEPT ![c] = [q EXCEPT !.host = h]]
  BY DEF Rejoin, Rejoined
<1>3. g \in Guests /\ RoomOK(room[c])
  BY <1>1, GuestsAssumption, OpenRoom
<1> HIDE DEF g
<1> DEFINE p == [q EXCEPT !.host = h]
<1>4. /\ RoomOK(p) /\ Moves(room[c], p) /\ p.connected = room[c].connected \cup {g}
      /\ p.socket = [room[c].socket EXCEPT ![g] = {s}]
  BY <1>1, <1>3, RejoinedIs
<1>5. socketIndex' \in [Sockets -> (Codes \X Guests) \cup {NoEntry}]
  BY <1>1, <1>3 DEF RoomsInv
<1>6. room' = [room EXCEPT ![c] = p]
  BY <1>2
<1> HIDE DEF p, q
<1>7. /\ RoomStep /\ Open' = Open \cup {c} /\ room'[c] = p
      /\ \A k \in Open \ {c} : room'[k] = room[k]
  BY <1>1, <1>4, <1>5, <1>6, PutRoom
<1>8. Reseated(c, room[c].connected \cup {g}, [room[c].socket EXCEPT ![g] = {s}])
  BY <1>1, <1>4, <1>7 DEF Reseated, SameSeats
<1> QED  BY <1>1, <1>3, <1>8 DEF g

LEMMA JoinRoomStep ==
  ASSUME RoomsInv, NEW s \in Sockets, NEW c \in Codes, JoinRoom(s, c)
  PROVE  LET g == Owner[s]
         IN  /\ c \in Open /\ g \in Guests /\ g \notin room[c].players /\ SitsDown(s, c)
             /\ Reseated(c, room[c].connected \cup {g}, [room[c].socket EXCEPT ![g] = {s}])
             /\ socketIndex' = [socketIndex EXCEPT ![s] = <<c, g>>]
<1> DEFINE g == Owner[s]
           q == Joined(room[c], g, s)
<1>1. /\ c \in Open /\ g \notin room[c].players /\ SitsDown(s, c) /\ UNCHANGED restarts
      /\ room[c].status = "waiting" /\ Cardinality(room[c].players) < MaxPlayers
      /\ socketIndex' = [socketIndex EXCEPT ![s] = <<c, g>>]
  BY DEF JoinRoom
<1>2. PICK h \in EnsuredHosts(q) : room' = [room EXCEPT ![c] = [q EXCEPT !.host = h]]
  BY DEF JoinRoom, Joined
<1>3. g \in Guests /\ RoomOK(room[c])
  BY <1>1, GuestsAssumption, OpenRoom
<1> HIDE DEF g
<1> DEFINE p == [q EXCEPT !.host = h]
<1>4. /\ RoomOK(p) /\ Moves(room[c], p) /\ p.connected = room[c].connected \cup {g}
      /\ p.socket = [room[c].socket EXCEPT ![g] = {s}]
  BY <1>1, <1>3, JoinedIs
<1>5. socketIndex' \in [Sockets -> (Codes \X Guests) \cup {NoEntry}]
  BY <1>1, <1>3 DEF RoomsInv
<1>6. room' = [room EXCEPT ![c] = p]
  BY <1>2
<1> HIDE DEF p, q
<1>7. /\ RoomStep /\ Open' = Open \cup {c} /\ room'[c] = p
      /\ \A k \in Open \ {c} : room'[k] = room[k]
  BY <1>1, <1>4, <1>5, <1>6, PutRoom
<1>8. Reseated(c, room[c].connected \cup {g}, [room[c].socket EXCEPT ![g] = {s}])
  BY <1>1, <1>4, <1>7 DEF Reseated, SameSeats
<1> QED  BY <1>1, <1>3, <1>8 DEF g

\* Whether the entry of s names an open room or not.
LEMMA LeaveBySocketStep ==
  ASSUME RoomsInv, NEW s \in Sockets, LeaveBySocket(s)
  PROVE  LET c == socketIndex[s][1]
             g == socketIndex[s][2]
         IN  /\ socketIndex[s] # NoEntry /\ UNCHANGED <<restarts, slips>> /\ RoomStep
             /\ socketIndex' = [socketIndex EXCEPT ![s] = NoEntry]
             /\ IF c \in Open THEN Reseated(c, room[c].connected \ {g}, room[c].socket)
                ELSE UNCHANGED room
<1> DEFINE c == socketIndex[s][1]
           g == socketIndex[s][2]
           r == room[c]
<1>1. /\ socketIndex[s] # NoEntry /\ UNCHANGED <<restarts, slips>>
      /\ socketIndex' = [socketIndex EXCEPT ![s] = NoEntry]
  BY DEF LeaveBySocket
<1>2. IF c \notin Open THEN UNCHANGED room
      ELSE IF g \in r.players THEN \E q \in Left(r, g) : room' = [room EXCEPT ![c] = q]
      ELSE room' = [room EXCEPT ![c] =
             IF r.status = "countdown" THEN Aborted(r) ELSE [r EXCEPT !.idle = FALSE]]
  BY DEF LeaveBySocket, RoomsInv
<1>3. c \in Codes /\ g \in Guests
  BY <1>1, EntryIs
<1> HIDE DEF c, g
<1>4. socketIndex' \in [Sockets -> (Codes \X Guests) \cup {NoEntry}]
  BY <1>1 DEF RoomsInv
<1>5. CASE c \notin Open
  <2>1. room' = room
    BY <1>2, <1>5
  <2>2. Open' = Open
    BY <2>1 DEF Open
  <2>3. RoomsInv'
    BY <1>1, <1>4, <2>1, <2>2 DEF RoomsInv
  <2>4. RoomStep
    BY <1>1, <2>1, <2>2, <2>3 DEF RoomStep, Moves, Begins
  <2> QED  BY <1>1, <1>5, <2>1, <2>4 DEF c
<1>6. CASE c \in Open
  <2>0. RoomOK(r) /\ r \in RoomRecord
    BY <1>4, <1>6, OpenRoom
  <2>1. PICK q : /\ room' = [room EXCEPT ![c] = q] /\ RoomOK(q) /\ Moves(r, q)
                 /\ q.connected = r.connected \ {g} /\ q.socket = r.socket
    <3>1. CASE g \in r.players
      <4>1. PICK q \in Left(r, g) : room' = [room EXCEPT ![c] = q]
        BY <1>2, <1>6, <3>1
      <4>2. /\ RoomOK(q) /\ Moves(r, q)
            /\ q.connected = r.connected \ {g} /\ q.socket = r.socket
        BY <1>3, <2>0, <3>1, LeftIs
      <4> QED  BY <4>1, <4>2
    <3>2. CASE g \notin r.players
      <4> DEFINE q == IF r.status = "countdown" THEN Aborted(r) ELSE [r EXCEPT !.idle = FALSE]
      <4>1. room' = [room EXCEPT ![c] = q]
        BY <1>2, <1>6, <3>2
      <4>2. Quiet(r, q)
        BY <2>0, LeftBehindIs
      <4>3. g \notin r.connected
        BY <2>0, <3>2 DEF RoomOK, Table, Seated, Humans
      <4> HIDE DEF q
      <4> QED  BY <4>1, <4>2, <4>3 DEF Quiet, SameSeats
    <3> QED  BY <3>1, <3>2
  <2>2. /\ RoomStep /\ Open' = Open \cup {c} /\ room'[c] = q
        /\ \A k \in Open \ {c} : room'[k] = room[k]
    BY <1>1, <1>3, <1>4, <1>6, <2>1, PutRoom
  <2>3. Reseated(c, r.connected \ {g}, r.socket)
    BY <1>1, <2>1, <2>2 DEF Reseated, SameSeats
  <2> QED  BY <1>1, <1>6, <2>2, <2>3 DEF c, g
<1> QED  BY <1>5, <1>6

\* The last to leave takes the room along; otherwise the seat is free again.
LEMMA ExplicitLeaveStep ==
  ASSUME RoomsInv, NEW s \in Sockets, ExplicitLeave(s)
  PROVE  LET c == socketIndex[s][1]
             g == socketIndex[s][2]
         IN  /\ socketIndex[s] # NoEntry /\ UNCHANGED <<restarts, slips>> /\ RoomStep /\ c \in Open
             /\ socketIndex' = [socketIndex EXCEPT ![s] = NoEntry]
             /\ \/ Reseated(c, room[c].connected \ {g}, [room[c].socket EXCEPT ![g] = {}])
                \/ Open' = Open \ {c} /\ \A k \in Open' : room'[k] = room[k]
<1> DEFINE c == socketIndex[s][1]
           g == socketIndex[s][2]
           r == room[c]
           left == r.players \ {g}
           heirs == IF g # r.host THEN {r.host}
                    ELSE IF left \ {Bot} # {} THEN left \ {Bot} ELSE {Bot}
<1>1. /\ socketIndex[s] # NoEntry /\ UNCHANGED <<restarts, slips>> /\ c \in Open
      /\ r.status \in {"waiting", "finished"}
      /\ socketIndex' = [socketIndex EXCEPT ![s] = NoEntry]
  BY DEF ExplicitLeave
<1>2. IF left = {} THEN room' = [room EXCEPT ![c] = NoRoom]
      ELSE \E h \in heirs : room' = [room EXCEPT ![c] = GivenUp(r, g, h)]
  BY DEF ExplicitLeave, GivenUp
<1>3. c \in Codes /\ g \in Guests
  BY <1>1, EntryIs
<1> HIDE DEF c, g
<1>4. socketIndex' \in [Sockets -> (Codes \X Guests) \cup {NoEntry}]
  BY <1>1 DEF RoomsInv
<1>5. CASE left = {}
  <2>1. room' = [room EXCEPT ![c] = NoRoom]
    BY <1>2, <1>5
  <2>2. /\ room' \in [Codes -> RoomRecord \cup {NoRoom}] /\ room'[c] = NoRoom
        /\ \A k \in Codes \ {c} : room'[k] = room[k]
    BY <1>3, <2>1 DEF RoomsInv
  <2>3. Open' = Open \ {c}
    BY <2>2 DEF Open
  <2>4. \A k \in Open' : k \in Open /\ room'[k] = room[k]
    BY <2>2, <2>3 DEF Open
  <2>5. RoomsInv'
    <3>1. \A k \in Open' : RoomOK(room'[k])
      BY <2>4 DEF RoomsInv
    <3>2. (\A k \in Open : RoomOK(room[k]))'
      BY <3>1
    <3> QED  BY <1>1, <1>4, <2>2, <2>3, <3>2 DEF RoomsInv
  <2>6. RoomStep
    BY <1>1, <2>3, <2>4, <2>5 DEF RoomStep, Moves, Begins
  <2> QED  BY <1>1, <2>3, <2>4, <2>6 DEF c
<1>6. CASE left # {}
  <2>1. PICK h \in heirs : room' = [room EXCEPT ![c] = GivenUp(r, g, h)]
    BY <1>2, <1>6
  <2> DEFINE q == GivenUp(r, g, h)
  <2>2. RoomOK(r)
    BY <1>1, <1>4, OpenRoom
  <2>3. /\ RoomOK(q) /\ Moves(r, q) /\ q.connected = r.connected \ {g}
        /\ q.socket = [r.socket EXCEPT ![g] = {}]
    BY <1>1, <1>3, <1>6, <2>2, GivenUpIs
  <2> HIDE DEF q
  <2>4. room' = [room EXCEPT ![c] = q]
    BY <2>1 DEF q
  <2>5. /\ RoomStep /\ Open' = Open \cup {c} /\ room'[c] = q
        /\ \A k \in Open \ {c} : room'[k] = room[k]
    BY <1>1, <1>3, <1>4, <2>2, <2>3, <2>4, PutRoom
  <2>6. Reseated(c, r.connected \ {g}, [r.socket EXCEPT ![g] = {}])
    BY <1>1, <2>3, <2>5 DEF Reseated, SameSeats
  <2> QED  BY <1>1, <2>5, <2>6 DEF c, g
<1> QED  BY <1>5, <1>6

\* A restart keeps the rooms and forgets who spoke for whom.
LEMMA RestoreStep ==
  ASSUME RoomsInv, Restore
  PROVE  /\ RoomStep /\ Open' = Open /\ restarts' > 0 /\ slips' = {}
         /\ \A c \in Open, g \in Guests : room'[c].socket[g] = {}
         /\ \A s \in Sockets : socketIndex'[s] = NoEntry
<1>1. /\ room' = [c \in Codes |-> IF c \in Open THEN PublicRoom(room[c]) ELSE NoRoom]
      /\ socketIndex' = [s \in Sockets |-> NoEntry]
      /\ restarts < MaxRestarts /\ restarts' = restarts + 1 /\ slips' = {}
  BY DEF Restore
<1>2. ASSUME NEW c \in Open
      PROVE  /\ c \in Codes /\ room'[c] = PublicRoom(room[c])
             /\ RoomOK(room'[c]) /\ Returns(room[c], room'[c]) /\ room'[c] # NoRoom
             /\ \A g \in Guests : room'[c].socket[g] = {}
  <2>1. c \in Codes /\ RoomOK(room[c])
    BY OpenRoom
  <2>2. room'[c] = PublicRoom(room[c])
    BY <1>1, <2>1
  <2> DEFINE q == PublicRoom(room[c])
  <2>3. /\ RoomOK(q) /\ Returns(room[c], q) /\ \A g \in Guests : q.socket[g] = {}
    BY <2>1, PublicIs DEF Returns
  <2> HIDE DEF q
  <2>4. room'[c] = q
    BY <2>2 DEF q
  <2>5. q # NoRoom
    BY <2>3, NoneAssumption DEF RoomOK, Table
  <2> QED  BY <2>1, <2>2, <2>3, <2>4, <2>5
<1>3. \A c \in Codes \ Open : room'[c] = NoRoom
  BY <1>1
<1>4. Open' = Open
  BY <1>2, <1>3 DEF Open
<1>5. room' \in [Codes -> RoomRecord \cup {NoRoom}]
  <2> DEFINE f == [c \in Codes |-> IF c \in Open THEN PublicRoom(room[c]) ELSE NoRoom]
  <2>1. ASSUME NEW c \in Codes PROVE f[c] \in RoomRecord \cup {NoRoom}
    BY <1>2 DEF RoomOK, Table
  <2> QED  BY <1>1, <2>1
<1>6. RoomsInv'
  <2>1. (\A c \in Open : RoomOK(room[c]))'
    BY <1>2, <1>4
  <2>2. restarts' \in 0..MaxRestarts
    BY <1>1, EngineBoundsAssumption DEF RoomsInv
  <2> QED  BY <1>1, <1>4, <1>5, <2>1, <2>2 DEF RoomsInv
<1>7. restarts' # restarts /\ restarts' > 0
  BY <1>1, EngineBoundsAssumption DEF RoomsInv
<1>8. RoomStep
  BY <1>2, <1>4, <1>6, <1>7 DEF RoomStep
<1> QED  BY <1>1, <1>2, <1>4, <1>7, <1>8

-----------------------------------------------------------------------------
(* The rooms in every behaviour.                                           *)

\* What a step is: one that leaves the index alone, or one of these.
Seating ==
  \/ \E s \in Sockets : CreateRoom(s) \/ LeaveBySocket(s) \/ ExplicitLeave(s)
  \/ \E s \in Sockets, c \in Codes : Rejoin(s, c) \/ JoinRoom(s, c)
  \/ Restore

LEMMA StepIs ==
  ASSUME RoomsInv, [Next]_vars
  PROVE  QuietStep \/ Seating
<1>1. CASE UNCHANGED vars
  BY <1>1, StutterStep
<1>2. ASSUME NEW s \in Sockets, NEW c \in Codes,
             \/ RefuseJoin(s, c) \/ SetPromptCategory(s, c) \/ SetMatchRule(s, c)
             \/ SetReady(s, c) \/ StartMatch(s, c) \/ Rematch(s, c)
             \/ UpdateProgress(s, c) \/ FinishTyping(s, c)
      PROVE  QuietStep
  BY <1>2, RefuseJoinStep, SetPromptCategoryStep, SetMatchRuleStep, SetReadyStep,
     StartMatchStep, RematchStep, UpdateProgressStep, FinishTypingStep
<1>3. ASSUME NEW c \in Codes,
             \/ MarkPlaying(c) \/ AdvanceBot(c) \/ GraceElapses(c)
             \/ IdleElapses(c) \/ MatchTimeElapses(c)
      PROVE  QuietStep
  BY <1>3, MarkPlayingStep, AdvanceBotStep, GraceElapsesStep, IdleElapsesStep,
     MatchTimeElapsesStep
<1>4. CASE CheckForForfeits \/ CheckExpired \/ CleanupExpiredRooms
  BY <1>4, CheckForForfeitsStep, CheckExpiredStep, CleanupStep
<1> QED  BY <1>1, <1>2, <1>3, <1>4 DEF Next, Step, Seating

LEMMA StepKeepsRooms ==
  ASSUME RoomsInv, [Next]_vars
  PROVE  RoomStep
<1>1. ASSUME NEW s \in Sockets, CreateRoom(s) \/ LeaveBySocket(s) \/ ExplicitLeave(s)
      PROVE  RoomStep
  BY <1>1, CreateRoomStep, LeaveBySocketStep, ExplicitLeaveStep DEF Reseated
<1>2. ASSUME NEW s \in Sockets, NEW c \in Codes, Rejoin(s, c) \/ JoinRoom(s, c)
      PROVE  RoomStep
  BY <1>2, RejoinStep, JoinRoomStep DEF Reseated
<1>3. Restore => RoomStep
  BY RestoreStep
<1> QED  BY <1>1, <1>2, <1>3, StepIs DEF Seating, QuietStep

LEMMA RoomsInit == Init => RoomsInv
<1> SUFFICES ASSUME Init PROVE RoomsInv
  OBVIOUS
<1>1. Open = {}
  BY DEF Init, Open
<1> QED  BY <1>1, EngineBoundsAssumption DEF Init, RoomsInv

\* The history variables: what callers may have done, and the prompts of the
\* rooms there are, which are those of the engine's own promptHistory.
Records ==
  /\ slips \subseteq {"staleCode", "secondRoom"}
  /\ played = [c \in Codes |-> IF c \in Open THEN room[c].history ELSE {}]

LEMMA SlipsAre ==
  ASSUME RoomsInv, [Next]_vars
  PROVE  \/ Restore /\ slips' = {}
         \/ slips \subseteq slips' /\ slips' \subseteq slips \cup {"staleCode", "secondRoom"}
<1>1. ASSUME NEW s \in Sockets, CreateRoom(s) \/ LeaveBySocket(s) \/ ExplicitLeave(s)
      PROVE  slips \subseteq slips' /\ slips' \subseteq slips \cup {"staleCode", "secondRoom"}
  BY <1>1 DEF CreateRoom, LeaveBySocket, ExplicitLeave
<1>2. ASSUME NEW s \in Sockets, NEW c \in Codes, Rejoin(s, c) \/ JoinRoom(s, c)
      PROVE  slips \subseteq slips' /\ slips' \subseteq slips \cup {"staleCode", "secondRoom"}
  BY <1>2 DEF Rejoin, JoinRoom, SitsDown
<1>3. Restore => slips' = {}
  BY DEF Restore
<1> QED  BY <1>1, <1>2, <1>3, StepIs DEF Seating, QuietStep

LEMMA RecordsStep ==
  ASSUME RoomsInv, Records, [Next]_vars
  PROVE  Records'
<1>1. RoomStep
  BY StepKeepsRooms
<1>2. slips' \subseteq {"staleCode", "secondRoom"}
  BY SlipsAre DEF Records
<1>3. CASE UNCHANGED vars
  <2>1. Open' = Open /\ room' = room /\ played' = played
    BY <1>3 DEF vars, Open
  <2> QED  BY <1>2, <2>1 DEF Records
<1>4. CASE NotePlayed
  <2>1. ASSUME NEW c \in Codes
        PROVE  (IF room'[c] = NoRoom THEN {}
                ELSE IF restarts' # restarts THEN {room'[c].prompt} \ {NoPrompt}
                ELSE IF /\ room[c] # NoRoom /\ room[c].status # "countdown"
                        /\ room'[c].status = "countdown"
                THEN played[c] \cup {room'[c].prompt} ELSE played[c])
               = IF c \in Open' THEN room'[c].history ELSE {}
    <3>1. /\ c \in Open <=> room[c] # NoRoom
          /\ c \in Open' <=> room'[c] # NoRoom
      BY DEF Open
    <3>2. played[c] = IF c \in Open THEN room[c].history ELSE {}
      BY DEF Records
    <3>3. CASE c \notin Open'
      BY <3>1, <3>3
    <3>4. CASE c \in Open' /\ c \notin Open
      BY <1>1, <3>1, <3>2, <3>4 DEF RoomStep
    <3>5. CASE c \in Open' /\ c \in Open /\ restarts' = restarts
      BY <1>1, <3>1, <3>2, <3>5 DEF RoomStep, Moves, Begins
    <3>6. CASE c \in Open' /\ c \in Open /\ restarts' # restarts
      BY <1>1, <3>1, <3>6 DEF RoomStep, Returns
    <3> QED  BY <3>3, <3>4, <3>5, <3>6
  <2> QED  BY <1>2, <1>4, <2>1 DEF NotePlayed, Records
<1> QED  BY <1>3, <1>4 DEF Next

LEMMA RecordsInit == Init => Records
<1> SUFFICES ASSUME Init PROVE Records
  OBVIOUS
<1>1. Open = {}
  BY DEF Init, Open
<1> QED  BY <1>1 DEF Init, Records

\* In every reachable state the rooms are sound, whatever the sockets do.
THEOREM RoomsAreSound == Spec => [](RoomsInv /\ Records)
<1>1. RoomsInv /\ Records /\ [Next]_vars => RoomsInv' /\ Records'
  BY StepKeepsRooms, RecordsStep DEF RoomStep
<1> QED  BY <1>1, RoomsInit, RecordsInit, PTL DEF Spec

LEMMA RoomsAreTyped ==
  ASSUME RoomsInv, Records
  PROVE  TypeOK
<1>1. ASSUME NEW c \in Codes
      PROVE  (IF c \in Open THEN room[c].history ELSE {}) \in SUBSET Prompts
  BY OpenRoom DEF RoomRecord
<1>2. played \in [Codes -> SUBSET Prompts]
  BY <1>1 DEF Records
<1> QED  BY <1>2 DEF RoomsInv, Records, TypeOK, RoomOK, Table

\* TypeOK: the maps hold what the functions of the engine expect of them.
THEOREM EngineTypeCorrect == Spec => []TypeOK
BY RoomsAreTyped, RoomsAreSound, PTL

\* MatchInv: a match has what it needs to end, and ends as soon as it is decided.
THEOREM MatchesAreSound == Spec => []MatchInv
<1>1. RoomsInv => MatchInv
  BY DEF RoomsInv, MatchInv, RoomOK
<1> QED  BY <1>1, RoomsAreSound, PTL

\* MatchIsHeld: a match starts with all its players there, and an undecided one
\* is given up only when nobody is.
THEOREM MatchesAreHeld == Spec => MatchIsHeld
<1> DEFINE Held ==
      \A c \in Open :
        /\ room[c].status = "countdown" /\ room'[c] # NoRoom /\ room'[c].status = "playing"
             => Humans(room[c]) \subseteq room[c].connected
        /\ room[c].status = "playing" /\ room'[c] = NoRoom => room[c].connected = {}
<1>1. ASSUME RoomsInv, [Next]_vars, NEW c \in Open
      PROVE  IF c \in Open' THEN Moves(room[c], room'[c]) \/ Returns(room[c], room'[c])
             ELSE room[c].status = "playing" => room[c].connected = {}
  BY <1>1, StepKeepsRooms DEF RoomStep
<1>2. ASSUME RoomsInv, [Next]_vars, NEW c \in Open,
             room[c].status = "countdown", room'[c] # NoRoom, room'[c].status = "playing"
      PROVE  Humans(room[c]) \subseteq room[c].connected
  <2>1. c \in Open'
    BY <1>2 DEF Open
  <2> QED  BY <1>1, <1>2, <2>1 DEF Moves, Returns
<1>3. ASSUME RoomsInv, [Next]_vars, NEW c \in Open,
             room[c].status = "playing", room'[c] = NoRoom
      PROVE  room[c].connected = {}
  <2>1. c \notin Open'
    BY <1>3 DEF Open
  <2> QED  BY <1>1, <1>3, <2>1
<1>4. RoomsInv /\ [Next]_vars => Held
  BY <1>2, <1>3
<1> QED  BY <1>4, RoomsAreSound, PTL DEF Spec, MatchIsHeld

\* PromptsAreFresh: no countdown begins with a prompt the room has had one with
\* since it was created or restored, while its category has another.
THEOREM PromptsStayFresh == Spec => PromptsAreFresh
<1> DEFINE Anew ==
      \A c \in Open :
        room[c].status # "countdown" /\ room'[c] # NoRoom /\ room'[c].status = "countdown"
          => \/ room'[c].prompt \notin played[c]
             \/ PromptsIn[room[c].category] \subseteq played[c]
<1>1. RoomsInv /\ Records /\ [Next]_vars => [Anew]_vars
  <2> SUFFICES ASSUME RoomsInv, Records, [Next]_vars, NEW c \in Open, room'[c] # NoRoom,
                      room[c].status # "countdown", room'[c].status = "countdown"
               PROVE  \/ room'[c].prompt \notin played[c]
                      \/ PromptsIn[room[c].category] \subseteq played[c]
    OBVIOUS
  <2>1. c \in Open' /\ c \in Codes
    BY DEF Open
  <2>2. Moves(room[c], room'[c]) \/ Returns(room[c], room'[c])
    BY <2>1, StepKeepsRooms DEF RoomStep
  <2>3. played[c] = room[c].history
    BY <2>1 DEF Records
  <2> QED  BY <2>2, <2>3 DEF Moves, Begins, Returns
<1> QED  BY <1>1, RoomsAreSound, PTL DEF Spec, PromptsAreFresh

-----------------------------------------------------------------------------
(* The index.                                                              *)

\* An entry is for the socket's guest.
Entries == \A s \in Sockets : socketIndex[s] # NoEntry => socketIndex[s][2] = Owner[s]

IndexSound == RoomsInv /\ IndexAgrees /\ Entries

\* The entry of a socket in the words of IndexAgrees.
LEMMA EntryAgrees ==
  ASSUME IndexSound, NEW s \in Sockets, socketIndex[s] # NoEntry, socketIndex[s][1] \in Open
  PROVE  /\ Owner[s] \in room[socketIndex[s][1]].connected
         /\ room[socketIndex[s][1]].socket[Owner[s]] = {s}
         /\ socketIndex[s] = <<socketIndex[s][1], Owner[s]>>
BY EntryIs DEF IndexSound, IndexAgrees, Entries

\* Room c is the only one whose seats change, and no socket speaks for it
\* without the seat.
LEMMA IndexReseated ==
  ASSUME IndexSound, NEW c \in Codes, NEW connected, NEW socket,
         Reseated(c, connected, socket),
         \A s \in Sockets : socketIndex'[s] # NoEntry =>
           \/ socketIndex'[s] = socketIndex[s]
           \/ socketIndex'[s] = <<c, Owner[s]>>,
         \A s \in Sockets : socketIndex'[s] # NoEntry /\ socketIndex'[s][1] = c =>
           Owner[s] \in connected /\ socket[Owner[s]] = {s}
  PROVE  IndexSound'
<1>1. /\ RoomsInv' /\ Open' = Open \cup {c}
      /\ room'[c].connected = connected /\ room'[c].socket = socket
      /\ \A k \in Open \ {c} : SameSeats(room[k], room'[k])
  BY DEF Reseated, RoomStep, RoomsInv
<1>2. ASSUME NEW s \in Sockets, socketIndex'[s] # NoEntry
      PROVE  socketIndex'[s][2] = Owner[s]
  BY <1>1, <1>2 DEF IndexSound, Entries
<1>3. ASSUME NEW k \in Open', NEW s \in Sockets, socketIndex'[s] # NoEntry,
             socketIndex'[s][1] = k
      PROVE  /\ Owner[s] \in room'[k].connected
             /\ room'[k].socket[Owner[s]] = {s}
  <2>1. CASE k = c
    BY <1>1, <1>3, <2>1
  <2>2. CASE k # c
    <3>1. socketIndex'[s] = socketIndex[s] /\ k \in Open
      BY <1>1, <1>3, <2>2
    <3> QED  BY <1>1, <1>3, <2>2, <3>1, EntryAgrees DEF SameSeats
  <2> QED  BY <2>1, <2>2
<1>4. Entries'
  BY <1>2 DEF Entries
<1>5. IndexAgrees'
  BY <1>2, <1>3 DEF IndexAgrees
<1> QED  BY <1>1, <1>4, <1>5 DEF IndexSound

\* Without a room that is new, an entry only ever goes.
LEMMA IndexKept ==
  ASSUME IndexSound, RoomStep, Open' \subseteq Open,
         \A k \in Open' : SameSeats(room[k], room'[k]),
         \A s \in Sockets : socketIndex'[s] \in {NoEntry, socketIndex[s]}
  PROVE  IndexSound'
<1>1. ASSUME NEW s \in Sockets, socketIndex'[s] # NoEntry
      PROVE  socketIndex'[s] = socketIndex[s] /\ socketIndex'[s][2] = Owner[s]
  BY <1>1 DEF IndexSound, Entries
<1>2. ASSUME NEW k \in Open', NEW s \in Sockets, socketIndex'[s] # NoEntry,
             socketIndex'[s][1] = k
      PROVE  /\ Owner[s] \in room'[k].connected
             /\ room'[k].socket[Owner[s]] = {s}
  BY <1>1, <1>2, EntryAgrees DEF SameSeats
<1>3. Entries'
  BY <1>1 DEF Entries
<1>4. IndexAgrees'
  BY <1>1, <1>2 DEF IndexAgrees
<1> QED  BY <1>3, <1>4 DEF IndexSound, RoomStep

LEMMA IndexAfterCreate ==
  ASSUME IndexSound, "staleCode" \notin slips', NEW s \in Sockets, CreateRoom(s)
  PROVE  IndexSound'
<1> DEFINE g == Owner[s]
           seats == [i \in Guests |-> IF i = g THEN {s} ELSE {}]
<1>1. PICK c \in Codes \ Open :
        /\ Reseated(c, {g}, seats) /\ ~StaleCode(s, c)
        /\ socketIndex' = [socketIndex EXCEPT ![s] = <<c, g>>]
  BY CreateRoomStep DEF IndexSound
<1>2. g \in Guests /\ seats[g] = {s}
  BY GuestsAssumption
<1>3. socketIndex'[s] = <<c, g>> /\ \A t \in Sockets \ {s} : socketIndex'[t] = socketIndex[t]
  BY <1>1 DEF IndexSound, RoomsInv
<1>4. \A t \in Sockets \ {s} : socketIndex[t] # NoEntry => socketIndex[t][1] # c
  BY <1>1 DEF StaleCode
<1> HIDE DEF seats
<1>5. \A t \in Sockets : socketIndex'[t] # NoEntry /\ socketIndex'[t][1] = c =>
        Owner[t] \in {g} /\ seats[Owner[t]] = {t}
  BY <1>2, <1>3, <1>4
<1> QED  BY <1>1, <1>3, <1>5, IndexReseated

LEMMA IndexAfterRejoin ==
  ASSUME IndexSound, NEW s \in Sockets, NEW c \in Codes, Rejoin(s, c)
  PROVE  IndexSound'
<1> DEFINE g == Owner[s]
           r == room[c]
           seats == [r.socket EXCEPT ![g] = {s}]
<1>1. /\ c \in Open /\ g \in Guests
      /\ Reseated(c, r.connected \cup {g}, seats)
      /\ socketIndex' = [t \in Sockets |->
           IF t = s THEN <<c, g>>
           ELSE IF t \in r.socket[g] THEN NoEntry ELSE socketIndex[t]]
  BY RejoinStep DEF IndexSound
<1>2. r.socket \in [Guests -> SUBSET Sockets]
  BY <1>1, OpenRoom DEF IndexSound, RoomRecord
<1>3. seats[g] = {s} /\ \A i \in Guests \ {g} : seats[i] = r.socket[i]
  BY <1>1, <1>2
<1> HIDE DEF seats
<1>4. ASSUME NEW t \in Sockets, socketIndex'[t] # NoEntry, socketIndex'[t][1] = c
      PROVE  Owner[t] \in r.connected \cup {g} /\ seats[Owner[t]] = {t}
  <2>1. CASE t = s
    BY <1>3, <2>1
  <2>2. CASE t # s
    <3>1. socketIndex'[t] = socketIndex[t] /\ t \notin r.socket[g]
      BY <1>1, <1>4, <2>2
    <3>2. Owner[t] \in r.connected /\ r.socket[Owner[t]] = {t}
      BY <1>1, <1>4, <3>1, EntryAgrees
    <3>3. Owner[t] \in Guests \ {g}
      BY <3>1, <3>2, GuestsAssumption
    <3> QED  BY <1>3, <3>2, <3>3
  <2> QED  BY <2>1, <2>2
<1>5. \A t \in Sockets : socketIndex'[t] # NoEntry =>
        socketIndex'[t] = socketIndex[t] \/ socketIndex'[t] = <<c, Owner[t]>>
  BY <1>1
<1> QED  BY <1>1, <1>4, <1>5, IndexReseated

LEMMA IndexAfterJoin ==
  ASSUME IndexSound, NEW s \in Sockets, NEW c \in Codes, JoinRoom(s, c)
  PROVE  IndexSound'
<1> DEFINE g == Owner[s]
           r == room[c]
           seats == [r.socket EXCEPT ![g] = {s}]
<1>1. /\ c \in Open /\ g \in Guests /\ g \notin r.players
      /\ Reseated(c, r.connected \cup {g}, seats)
      /\ socketIndex' = [socketIndex EXCEPT ![s] = <<c, g>>]
  BY JoinRoomStep DEF IndexSound
<1>2. r.socket \in [Guests -> SUBSET Sockets] /\ r.connected \subseteq r.players
  BY <1>1, OpenRoom DEF IndexSound, RoomRecord, RoomOK, Table, Seated, Humans
<1>3. seats[g] = {s} /\ \A i \in Guests \ {g} : seats[i] = r.socket[i]
  BY <1>1, <1>2
<1> HIDE DEF seats
<1>4. socketIndex'[s] = <<c, g>> /\ \A t \in Sockets \ {s} : socketIndex'[t] = socketIndex[t]
  BY <1>1 DEF IndexSound, RoomsInv
<1>5. ASSUME NEW t \in Sockets, socketIndex'[t] # NoEntry, socketIndex'[t][1] = c
      PROVE  Owner[t] \in r.connected \cup {g} /\ seats[Owner[t]] = {t}
  <2>1. CASE t = s
    BY <1>3, <2>1
  <2>2. CASE t # s
    <3>1. Owner[t] \in r.connected /\ r.socket[Owner[t]] = {t}
      BY <1>1, <1>4, <1>5, <2>2, EntryAgrees
    <3>2. Owner[t] \in Guests \ {g}
      BY <1>1, <1>2, <3>1, GuestsAssumption
    <3> QED  BY <1>3, <3>1, <3>2
  <2> QED  BY <2>1, <2>2
<1> QED  BY <1>1, <1>4, <1>5, IndexReseated

\* Nobody else speaks for the seat of whoever leaves.
LEMMA OthersStay ==
  ASSUME IndexSound, NEW s \in Sockets, socketIndex[s] # NoEntry,
         socketIndex[s][1] \in Open, NEW t \in Sockets \ {s},
         socketIndex[t] # NoEntry, socketIndex[t][1] = socketIndex[s][1]
  PROVE  Owner[t] # Owner[s]
BY EntryAgrees

LEMMA IndexAfterLeave ==
  ASSUME IndexSound, NEW s \in Sockets, LeaveBySocket(s) \/ ExplicitLeave(s)
  PROVE  IndexSound'
<1> DEFINE c == socketIndex[s][1]
           g == socketIndex[s][2]
           r == room[c]
<1>1. /\ socketIndex[s] # NoEntry /\ RoomStep
      /\ socketIndex' = [socketIndex EXCEPT ![s] = NoEntry]
      /\ \/ c \notin Open /\ UNCHANGED room
         \/ c \in Open /\ Reseated(c, r.connected \ {g}, r.socket)
         \/ c \in Open /\ Reseated(c, r.connected \ {g}, [r.socket EXCEPT ![g] = {}])
         \/ Open' = Open \ {c} /\ \A k \in Open' : room'[k] = room[k]
  BY LeaveBySocketStep, ExplicitLeaveStep DEF IndexSound
<1>2. c \in Codes /\ g \in Guests /\ g = Owner[s]
  BY <1>1, EntryIs DEF IndexSound, Entries
<1>3. socketIndex'[s] = NoEntry /\ \A t \in Sockets \ {s} : socketIndex'[t] = socketIndex[t]
  BY <1>1 DEF IndexSound, RoomsInv
<1>4. CASE c \notin Open /\ UNCHANGED room
  <2>1. Open' = Open
    BY <1>4 DEF Open
  <2>2. \A k \in Open' : SameSeats(room[k], room'[k])
    BY <1>4 DEF SameSeats
  <2> QED  BY <1>1, <1>3, <2>1, <2>2, IndexKept
<1>5. CASE Open' = Open \ {c} /\ \A k \in Open' : room'[k] = room[k]
  <2>1. \A k \in Open' : SameSeats(room[k], room'[k])
    BY <1>5 DEF SameSeats
  <2> QED  BY <1>1, <1>3, <1>5, <2>1, IndexKept
<1>6. ASSUME NEW seats, c \in Open, Reseated(c, r.connected \ {g}, seats),
             \A i \in Guests \ {g} : seats[i] = r.socket[i]
      PROVE  IndexSound'
  <2>1. ASSUME NEW t \in Sockets, socketIndex'[t] # NoEntry, socketIndex'[t][1] = c
        PROVE  Owner[t] \in r.connected \ {g} /\ seats[Owner[t]] = {t}
    <3>1. t # s /\ socketIndex'[t] = socketIndex[t]
      BY <1>3, <2>1
    <3>2. Owner[t] # g
      BY <1>1, <1>2, <1>6, <2>1, <3>1, OthersStay
    <3>3. Owner[t] \in r.connected /\ r.socket[Owner[t]] = {t}
      BY <1>6, <2>1, <3>1, EntryAgrees
    <3>4. Owner[t] \in Guests \ {g}
      BY <3>2, GuestsAssumption
    <3> QED  BY <1>6, <3>3, <3>4
  <2> HIDE DEF c, g
  <2> QED  BY <1>1, <1>2, <1>3, <1>6, <2>1, IndexReseated
<1>7. c \in Open => r.socket \in [Guests -> SUBSET Sockets]
  BY OpenRoom DEF IndexSound, RoomRecord
<1>8. c \in Open => \A i \in Guests \ {g} : [r.socket EXCEPT ![g] = {}][i] = r.socket[i]
  BY <1>7
<1> HIDE DEF c, g
<1> QED  BY <1>1, <1>4, <1>5, <1>6, <1>8

LEMMA IndexAfterRestore ==
  ASSUME RoomsInv, Restore
  PROVE  IndexSound'
<1>1. /\ RoomStep /\ Open' = Open /\ \A s \in Sockets : socketIndex'[s] = NoEntry
  BY RestoreStep
<1> QED  BY <1>1 DEF IndexSound, IndexAgrees, Entries, RoomStep

LEMMA IndexStep ==
  ASSUME IndexSound, "staleCode" \notin slips', [Next]_vars
  PROVE  IndexSound'
<1>1. CASE QuietStep
  BY <1>1, IndexKept DEF QuietStep
<1>2. ASSUME NEW s \in Sockets, CreateRoom(s) \/ LeaveBySocket(s) \/ ExplicitLeave(s)
      PROVE  IndexSound'
  BY <1>2, IndexAfterCreate, IndexAfterLeave
<1>3. ASSUME NEW s \in Sockets, NEW c \in Codes, Rejoin(s, c) \/ JoinRoom(s, c)
      PROVE  IndexSound'
  BY <1>3, IndexAfterRejoin, IndexAfterJoin
<1>4. RoomsInv /\ (QuietStep \/ Seating)
  BY StepIs DEF IndexSound
<1> QED  BY <1>1, <1>2, <1>3, <1>4, IndexAfterRestore DEF Seating

LEMMA IndexInit == Init => IndexSound
BY RoomsInit DEF Init, IndexSound, IndexAgrees, Entries

-----------------------------------------------------------------------------
(* Who can be reached, as long as no caller slips.                         *)

\* A socket that speaks for a room is in no seat of another.
OneRoomEach ==
  \A c \in Open, g \in Guests : \A s \in room[c].socket[g] :
    socketIndex[s] # NoEntry => socketIndex[s][1] = c

\* The sockets of a seat belong to its player.
Owned(socket) == \A g \in Guests : \A s \in socket[g] : Owner[s] = g
SeatsOwned == \A c \in Open : Owned(room[c].socket)

Reach == ConnectedIsReachable /\ SeatsOwned /\ OneRoomEach
EngineSound == IndexSound /\ Reach

LEMMA SeatSockets ==
  ASSUME RoomsInv, NEW c \in Open
  PROVE  /\ room[c].connected \subseteq Guests
         /\ \A g \in Guests : room[c].socket[g] \subseteq Sockets
BY OpenRoom DEF RoomRecord

\* What a step must see to when only the seats of room c change: those
\* connected there can be reached, its sockets speak for no other room, and the
\* sockets of the other rooms keep their entries.
SpokenFor(c, connected, socket) ==
  \A g \in connected :
    \/ \E s \in Sockets : socket[g] = {s} /\ socketIndex'[s] = <<c, g>>
    \/ socket[g] = {} /\ restarts > 0
OnlyFor(c, socket) ==
  \A g \in Guests : \A s \in socket[g] : socketIndex'[s] # NoEntry => socketIndex'[s][1] = c
OthersKept(c) ==
  \A k \in Open \ {c}, g \in Guests : \A s \in room[k].socket[g] :
    /\ socketIndex'[s] \in {NoEntry, socketIndex[s]}
    /\ socketIndex[s] = <<k, g>> => socketIndex'[s] = socketIndex[s]

LEMMA ReachReseated ==
  ASSUME EngineSound, NEW c \in Codes, NEW connected, NEW socket,
         Reseated(c, connected, socket), SpokenFor(c, connected, socket),
         OnlyFor(c, socket), Owned(socket), OthersKept(c)
  PROVE  Reach'
<1>1. /\ Open' = Open \cup {c} /\ restarts' = restarts
      /\ room'[c].connected = connected /\ room'[c].socket = socket
      /\ \A k \in Open \ {c} : SameSeats(room[k], room'[k])
  BY DEF Reseated
<1>2. ASSUME NEW k \in Open', NEW g \in room'[k].connected
      PROVE  \/ \E s \in Sockets : room'[k].socket[g] = {s} /\ socketIndex'[s] = <<k, g>>
             \/ room'[k].socket[g] = {} /\ restarts' > 0
  <2>1. CASE k = c
    BY <1>1, <1>2, <2>1 DEF SpokenFor
  <2>2. CASE k # c
    <3>1. k \in Open \ {c} /\ g \in room[k].connected /\ room'[k].socket = room[k].socket
      BY <1>1, <1>2, <2>2 DEF SameSeats
    <3>2. g \in Guests
      BY <3>1, SeatSockets DEF EngineSound, IndexSound
    <3>3. CASE room[k].socket[g] = {} /\ restarts > 0
      BY <1>1, <3>1, <3>3
    <3>4. ASSUME NEW s \in Sockets, room[k].socket[g] = {s}, socketIndex[s] = <<k, g>>
          PROVE  room'[k].socket[g] = {s} /\ socketIndex'[s] = <<k, g>>
      BY <3>1, <3>2, <3>4 DEF OthersKept
    <3> QED  BY <3>1, <3>3, <3>4 DEF EngineSound, Reach, ConnectedIsReachable
  <2> QED  BY <2>1, <2>2
<1>3. ASSUME NEW k \in Open', NEW g \in Guests, NEW s \in room'[k].socket[g]
      PROVE  Owner[s] = g
  BY <1>1, <1>3 DEF EngineSound, Reach, SeatsOwned, SameSeats, Owned
<1>4. ASSUME NEW k \in Open', NEW g \in Guests, NEW s \in room'[k].socket[g],
             socketIndex'[s] # NoEntry
      PROVE  socketIndex'[s][1] = k
  <2>1. CASE k = c
    BY <1>1, <1>4, <2>1 DEF OnlyFor
  <2>2. CASE k # c
    <3>1. k \in Open \ {c} /\ s \in room[k].socket[g]
      BY <1>1, <1>4, <2>2 DEF SameSeats
    <3>2. socketIndex'[s] = socketIndex[s]
      BY <1>4, <3>1 DEF OthersKept
    <3> QED  BY <1>4, <3>1, <3>2 DEF EngineSound, Reach, OneRoomEach
  <2> QED  BY <2>1, <2>2
<1>5. ConnectedIsReachable'
  BY <1>2 DEF ConnectedIsReachable
<1>6. SeatsOwned'
  BY <1>3 DEF SeatsOwned, Owned
<1>7. OneRoomEach'
  BY <1>4 DEF OneRoomEach
<1> QED  BY <1>5, <1>6, <1>7 DEF Reach

\* No room is new, and the entries of the seats stay as they are.
LEMMA ReachKept ==
  ASSUME EngineSound, Open' \subseteq Open, restarts' = restarts,
         \A k \in Open' : SameSeats(room[k], room'[k]),
         \A k \in Open', g \in Guests : \A s \in room[k].socket[g] :
           /\ socketIndex'[s] \in {NoEntry, socketIndex[s]}
           /\ socketIndex[s] = <<k, g>> => socketIndex'[s] = socketIndex[s]
  PROVE  Reach'
<1>1. ASSUME NEW k \in Open', NEW g \in room'[k].connected
      PROVE  \/ \E s \in Sockets : room'[k].socket[g] = {s} /\ socketIndex'[s] = <<k, g>>
             \/ room'[k].socket[g] = {} /\ restarts' > 0
  <2>1. k \in Open /\ g \in room[k].connected /\ room'[k].socket = room[k].socket
    BY <1>1 DEF SameSeats
  <2>2. g \in Guests
    BY <2>1, SeatSockets DEF EngineSound, IndexSound
  <2>3. ASSUME NEW s \in Sockets, room[k].socket[g] = {s}, socketIndex[s] = <<k, g>>
        PROVE  room'[k].socket[g] = {s} /\ socketIndex'[s] = <<k, g>>
    BY <2>1, <2>2, <2>3
  <2> QED  BY <2>1, <2>3 DEF EngineSound, Reach, ConnectedIsReachable
<1>2. ASSUME NEW k \in Open', NEW g \in Guests, NEW s \in room'[k].socket[g]
      PROVE  Owner[s] = g
  BY <1>2 DEF EngineSound, Reach, SeatsOwned, Owned, SameSeats
<1>3. ASSUME NEW k \in Open', NEW g \in Guests, NEW s \in room'[k].socket[g],
             socketIndex'[s] # NoEntry
      PROVE  socketIndex'[s][1] = k
  <2>1. k \in Open /\ s \in room[k].socket[g]
    BY <1>3 DEF SameSeats
  <2>2. socketIndex'[s] = socketIndex[s]
    BY <1>3, <2>1
  <2> QED  BY <1>3, <2>1, <2>2 DEF EngineSound, Reach, OneRoomEach
<1>4. ConnectedIsReachable'
  BY <1>1 DEF ConnectedIsReachable
<1>5. SeatsOwned'
  BY <1>2 DEF SeatsOwned, Owned
<1>6. OneRoomEach'
  BY <1>3 DEF OneRoomEach
<1> QED  BY <1>4, <1>5, <1>6 DEF Reach

LEMMA ReachAfterCreate ==
  ASSUME EngineSound, slips' = {}, NEW s \in Sockets, CreateRoom(s)
  PROVE  Reach'
<1> DEFINE g == Owner[s]
           seats == [i \in Guests |-> IF i = g THEN {s} ELSE {}]
<1>0. RoomsInv
  BY DEF EngineSound, IndexSound
<1>1. PICK c \in Codes \ Open :
        /\ Reseated(c, {g}, seats) /\ ~SecondRoom(s, c)
        /\ socketIndex' = [socketIndex EXCEPT ![s] = <<c, g>>]
  BY <1>0, CreateRoomStep
<1>2. g \in Guests
  BY GuestsAssumption
<1>3. socketIndex'[s] = <<c, g>> /\ \A t \in Sockets \ {s} : socketIndex'[t] = socketIndex[t]
  BY <1>0, <1>1 DEF RoomsInv
<1>4. seats[g] = {s} /\ Owned(seats) /\ OnlyFor(c, seats)
  BY <1>2, <1>3 DEF Owned, OnlyFor
<1> HIDE DEF seats
<1>5. ASSUME NEW k \in Open \ {c}, NEW i \in Guests, NEW t \in room[k].socket[i]
      PROVE  socketIndex'[t] = socketIndex[t]
  <2>1. t # s
    BY <1>1, <1>5 DEF SecondRoom
  <2> QED  BY <1>0, <1>3, <1>5, <2>1, SeatSockets
<1>6. SpokenFor(c, {g}, seats) /\ OthersKept(c)
  BY <1>3, <1>4, <1>5 DEF SpokenFor, OthersKept
<1> QED  BY <1>1, <1>4, <1>6, ReachReseated

\* A room whose player g sits down on socket s.
LEMMA ReachAfterSeat ==
  ASSUME EngineSound, NEW s \in Sockets, NEW c \in Open, ~SecondRoom(s, c),
         NEW seats, seats[Owner[s]] = {s},
         \A i \in Guests \ {Owner[s]} : seats[i] = room[c].socket[i],
         Reseated(c, room[c].connected \cup {Owner[s]}, seats),
         socketIndex'[s] = <<c, Owner[s]>>,
         \A t \in Sockets \ {s} :
           \/ socketIndex'[t] = socketIndex[t]
           \/ socketIndex'[t] = NoEntry /\ t \in room[c].socket[Owner[s]]
  PROVE  Reach'
<1> DEFINE g == Owner[s]
           r == room[c]
<1>0. RoomsInv /\ c \in Codes /\ g \in Guests
  BY OpenRoom, GuestsAssumption DEF EngineSound, IndexSound
<1>1. r.connected \subseteq Guests /\ \A i \in Guests : r.socket[i] \subseteq Sockets
  BY <1>0, SeatSockets
<1>2. seats[g] = {s} /\ \A i \in Guests \ {g} : seats[i] = r.socket[i]
  OBVIOUS
<1>3. \A i \in Guests : \A t \in r.socket[i] : Owner[t] = i
  BY DEF EngineSound, Reach, SeatsOwned, Owned
<1>4. ASSUME NEW i \in r.connected \cup {g}
      PROVE  \/ \E t \in Sockets : seats[i] = {t} /\ socketIndex'[t] = <<c, i>>
             \/ seats[i] = {} /\ restarts > 0
  <2>1. CASE i = g
    BY <1>2, <2>1
  <2>2. CASE i # g
    <3>1. i \in r.connected /\ i \in Guests \ {g} /\ seats[i] = r.socket[i]
      BY <1>1, <1>2, <1>4, <2>2
    <3>2. ASSUME NEW t \in Sockets, r.socket[i] = {t}, socketIndex[t] = <<c, i>>
          PROVE  socketIndex'[t] = <<c, i>>
      <4>1. t # s /\ t \notin r.socket[g]
        BY <1>0, <1>3, <3>1, <3>2
      <4> QED  BY <3>2, <4>1
    <3> QED  BY <3>1, <3>2 DEF EngineSound, Reach, ConnectedIsReachable
  <2> QED  BY <2>1, <2>2
<1>5. Owned(seats)
  BY <1>2, <1>3 DEF Owned
<1>6. ASSUME NEW i \in Guests, NEW t \in seats[i], socketIndex'[t] # NoEntry
      PROVE  socketIndex'[t][1] = c
  <2>1. CASE t = s
    BY <2>1
  <2>2. CASE t # s
    <3>1. i # g /\ t \in r.socket[i] /\ t \in Sockets
      BY <1>1, <1>2, <1>6, <2>2
    <3>2. socketIndex'[t] = socketIndex[t]
      BY <1>6, <2>2, <3>1
    <3> QED  BY <1>6, <3>1, <3>2 DEF EngineSound, Reach, OneRoomEach
  <2> QED  BY <2>1, <2>2
<1>7. ASSUME NEW k \in Open \ {c}, NEW i \in Guests, NEW t \in room[k].socket[i]
      PROVE  /\ socketIndex'[t] \in {NoEntry, socketIndex[t]}
             /\ socketIndex[t] = <<k, i>> => socketIndex'[t] = socketIndex[t]
  <2>1. t \in Sockets
    BY <1>0, <1>7, SeatSockets
  <2>2. t # s
    BY <1>7 DEF SecondRoom
  <2>3. socketIndex[t] = <<k, i>> => socketIndex[t] # NoEntry /\ socketIndex[t][1] = k
    BY <1>0, <1>7, NoneAssumption, OpenRoom
  <2>4. socketIndex[t] = <<k, i>> => t \notin r.socket[g]
    <3>1. OneRoomEach
      BY DEF EngineSound, Reach
    <3>2. \A u \in r.socket[g] : socketIndex[u] # NoEntry => socketIndex[u][1] = c
      BY <1>0, <3>1 DEF OneRoomEach
    <3>3. k # c
      BY <1>7
    <3> QED  BY <2>3, <3>2, <3>3
  <2> QED  BY <2>1, <2>2, <2>4
<1>8. SpokenFor(c, r.connected \cup {g}, seats) /\ OnlyFor(c, seats) /\ OthersKept(c)
  BY <1>4, <1>6, <1>7 DEF SpokenFor, OnlyFor, OthersKept
<1> QED  BY <1>0, <1>5, <1>8, ReachReseated

LEMMA ReachAfterJoin ==
  ASSUME EngineSound, slips' = {}, NEW s \in Sockets, NEW c \in Codes,
         Rejoin(s, c) \/ JoinRoom(s, c)
  PROVE  Reach'
<1> DEFINE seats == [room[c].socket EXCEPT ![Owner[s]] = {s}]
<1>0. RoomsInv
  BY DEF EngineSound, IndexSound
<1>1. c \in Open => /\ seats[Owner[s]] = {s}
                    /\ \A i \in Guests \ {Owner[s]} : seats[i] = room[c].socket[i]
  <2>1. c \in Open => room[c].socket \in [Guests -> SUBSET Sockets]
    BY <1>0, OpenRoom DEF RoomRecord
  <2> QED  BY <2>1, GuestsAssumption
<1>2. CASE Rejoin(s, c)
  <2>1. /\ c \in Open /\ SitsDown(s, c)
        /\ Reseated(c, room[c].connected \cup {Owner[s]}, seats)
        /\ socketIndex' = [t \in Sockets |->
             IF t = s THEN <<c, Owner[s]>>
             ELSE IF t \in room[c].socket[Owner[s]] THEN NoEntry ELSE socketIndex[t]]
    BY <1>0, <1>2, RejoinStep
  <2>2. /\ socketIndex'[s] = <<c, Owner[s]>>
        /\ \A t \in Sockets \ {s} :
             \/ socketIndex'[t] = socketIndex[t]
             \/ socketIndex'[t] = NoEntry /\ t \in room[c].socket[Owner[s]]
    BY <2>1
  <2>3. ~SecondRoom(s, c)
    BY <2>1 DEF SitsDown
  <2> HIDE DEF seats
  <2> QED  BY <1>1, <2>1, <2>2, <2>3, ReachAfterSeat
<1>3. CASE JoinRoom(s, c)
  <2>1. /\ c \in Open /\ SitsDown(s, c)
        /\ Reseated(c, room[c].connected \cup {Owner[s]}, seats)
        /\ socketIndex' = [socketIndex EXCEPT ![s] = <<c, Owner[s]>>]
    BY <1>0, <1>3, JoinRoomStep
  <2>2. /\ socketIndex'[s] = <<c, Owner[s]>>
        /\ \A t \in Sockets \ {s} : socketIndex'[t] = socketIndex[t]
    BY <1>0, <2>1 DEF RoomsInv
  <2>3. ~SecondRoom(s, c)
    BY <2>1 DEF SitsDown
  <2> HIDE DEF seats
  <2> QED  BY <1>1, <2>1, <2>2, <2>3, ReachAfterSeat
<1> QED  BY <1>2, <1>3

LEMMA ReachAfterLeave ==
  ASSUME EngineSound, NEW s \in Sockets, LeaveBySocket(s) \/ ExplicitLeave(s)
  PROVE  Reach'
<1> DEFINE c == socketIndex[s][1]
           g == socketIndex[s][2]
           r == room[c]
<1>0. IndexSound /\ RoomsInv
  BY DEF EngineSound, IndexSound
<1>1. /\ socketIndex[s] # NoEntry /\ restarts' = restarts
      /\ socketIndex' = [socketIndex EXCEPT ![s] = NoEntry]
      /\ \/ c \notin Open /\ UNCHANGED room
         \/ c \in Open /\ Reseated(c, r.connected \ {g}, r.socket)
         \/ c \in Open /\ Reseated(c, r.connected \ {g}, [r.socket EXCEPT ![g] = {}])
         \/ Open' = Open \ {c} /\ \A k \in Open' : room'[k] = room[k]
  BY <1>0, LeaveBySocketStep, ExplicitLeaveStep
<1>2. c \in Codes /\ g \in Guests /\ g = Owner[s] /\ socketIndex[s] = <<c, g>>
  BY <1>0, <1>1, EntryIs DEF IndexSound, Entries
<1>3. socketIndex'[s] = NoEntry /\ \A t \in Sockets \ {s} : socketIndex'[t] = socketIndex[t]
  BY <1>0, <1>1 DEF RoomsInv
<1>4. ASSUME NEW k \in Open \ {c}, NEW i \in Guests, NEW t \in room[k].socket[i]
      PROVE  /\ socketIndex'[t] \in {NoEntry, socketIndex[t]}
             /\ socketIndex[t] = <<k, i>> => socketIndex'[t] = socketIndex[t]
  <2>1. t \in Sockets
    BY <1>0, <1>4, SeatSockets
  <2> QED  BY <1>2, <1>3, <1>4, <2>1
<1> HIDE DEF c, g
<1>5. CASE c \notin Open /\ UNCHANGED room
  <2>1. Open' = Open
    BY <1>5 DEF Open
  <2>2. \A k \in Open' : SameSeats(room[k], room'[k])
    BY <1>5 DEF SameSeats
  <2> QED  BY <1>1, <1>4, <1>5, <2>1, <2>2, ReachKept
<1>6. CASE Open' = Open \ {c} /\ \A k \in Open' : room'[k] = room[k]
  <2>1. \A k \in Open' : SameSeats(room[k], room'[k])
    BY <1>6 DEF SameSeats
  <2> QED  BY <1>1, <1>4, <1>6, <2>1, ReachKept
<1>7. ASSUME NEW seats, c \in Open, Reseated(c, r.connected \ {g}, seats),
             \A i \in Guests \ {g} : seats[i] = r.socket[i],
             seats[g] \subseteq r.socket[g]
      PROVE  Reach'
  <2>1. ASSUME NEW i \in r.connected \ {g}
        PROVE  \/ \E t \in Sockets : seats[i] = {t} /\ socketIndex'[t] = <<c, i>>
               \/ seats[i] = {} /\ restarts > 0
    <3>1. i \in Guests /\ seats[i] = r.socket[i]
      BY <1>0, <1>7, <2>1, SeatSockets
    <3>2. ASSUME NEW t \in Sockets, socketIndex[t] = <<c, i>>
          PROVE  socketIndex'[t] = <<c, i>>
      BY <1>2, <1>3, <2>1, <3>2
    <3> QED  BY <1>7, <2>1, <3>1, <3>2 DEF EngineSound, Reach, ConnectedIsReachable
  <2>2. \A i \in Guests : \A t \in seats[i] : t \in r.socket[i]
    BY <1>7
  <2>3. Owned(seats)
    BY <1>7, <2>2 DEF EngineSound, Reach, SeatsOwned, Owned
  <2>4. ASSUME NEW i \in Guests, NEW t \in seats[i], socketIndex'[t] # NoEntry
        PROVE  socketIndex'[t][1] = c
    <3>1. t \in r.socket[i] /\ t \in Sockets
      BY <1>0, <1>7, <2>2, <2>4, SeatSockets
    <3>2. socketIndex'[t] = socketIndex[t]
      BY <1>3, <2>4, <3>1
    <3> QED  BY <1>7, <2>4, <3>1, <3>2 DEF EngineSound, Reach, OneRoomEach
  <2>5. SpokenFor(c, r.connected \ {g}, seats) /\ OnlyFor(c, seats) /\ OthersKept(c)
    BY <1>4, <2>1, <2>4 DEF SpokenFor, OnlyFor, OthersKept
  <2> QED  BY <1>2, <1>7, <2>3, <2>5, ReachReseated
<1>8. c \in Open => r.socket \in [Guests -> SUBSET Sockets]
  BY <1>0, OpenRoom DEF RoomRecord
<1>9. c \in Open => LET seats == [r.socket EXCEPT ![g] = {}]
                    IN  /\ \A i \in Guests \ {g} : seats[i] = r.socket[i]
                        /\ seats[g] \subseteq r.socket[g]
  BY <1>2, <1>8
<1> QED  BY <1>1, <1>5, <1>6, <1>7, <1>9

\* A restored room has nobody on a socket: whoever was connected is waited for.
LEMMA ReachAfterRestore ==
  ASSUME RoomsInv, Restore
  PROVE  EngineSound'
<1>1. /\ RoomStep /\ Open' = Open /\ restarts' > 0
      /\ \A c \in Open, g \in Guests : room'[c].socket[g] = {}
  BY RestoreStep
<1>2. RoomsInv' /\ IndexSound'
  BY <1>1, IndexAfterRestore DEF RoomStep
<1>3. \A c \in Open' : room'[c].connected \subseteq Guests
  BY <1>2 DEF RoomsInv, RoomOK, Table, RoomRecord
<1>4. ConnectedIsReachable'
  BY <1>1, <1>3 DEF ConnectedIsReachable
<1>5. SeatsOwned' /\ OneRoomEach'
  BY <1>1 DEF SeatsOwned, Owned, OneRoomEach
<1> QED  BY <1>2, <1>4, <1>5 DEF EngineSound, Reach

LEMMA EngineStep ==
  ASSUME EngineSound, slips' = {}, [Next]_vars
  PROVE  EngineSound'
<1>1. IndexSound'
  BY IndexStep DEF EngineSound
<1>2. CASE QuietStep
  <2>1. Reach'
    BY <1>2, ReachKept DEF QuietStep
  <2> QED  BY <1>1, <2>1 DEF EngineSound
<1>3. ASSUME NEW s \in Sockets, CreateRoom(s) \/ LeaveBySocket(s) \/ ExplicitLeave(s)
      PROVE  Reach'
  BY <1>3, ReachAfterCreate, ReachAfterLeave
<1>4. ASSUME NEW s \in Sockets, NEW c \in Codes, Rejoin(s, c) \/ JoinRoom(s, c)
      PROVE  Reach'
  BY <1>4, ReachAfterJoin
<1>5. RoomsInv /\ (QuietStep \/ Seating)
  BY StepIs DEF EngineSound, IndexSound
<1> QED  BY <1>1, <1>2, <1>3, <1>4, <1>5, ReachAfterRestore DEF Seating, EngineSound

LEMMA EngineInit == Init => EngineSound
<1> SUFFICES ASSUME Init PROVE EngineSound
  OBVIOUS
<1>1. Open = {}
  BY DEF Init, Open
<1> QED
  BY <1>1, IndexInit
  DEF EngineSound, Reach, ConnectedIsReachable, SeatsOwned, Owned, OneRoomEach

\* The inductive invariant: what holds whatever callers do, what holds until a
\* leftover entry is taken for one of a new room, and what holds until a caller
\* slips in either way.
EngineIInv ==
  /\ RoomsInv /\ Records
  /\ "staleCode" \notin slips => IndexSound
  /\ slips = {} => EngineSound

LEMMA EngineIStep ==
  ASSUME EngineIInv, [Next]_vars
  PROVE  EngineIInv'
<1>1. RoomsInv' /\ Records'
  BY StepKeepsRooms, RecordsStep DEF RoomStep, EngineIInv
<1>2. CASE Restore
  <2>1. EngineSound' /\ IndexSound'
    BY <1>2, ReachAfterRestore DEF EngineSound, EngineIInv
  <2> QED  BY <1>1, <2>1 DEF EngineIInv
<1>3. CASE slips \subseteq slips'
  <2>1. "staleCode" \notin slips' => IndexSound'
    BY <1>3, IndexStep DEF EngineIInv
  <2>2. slips' = {} => EngineSound'
    <3>1. slips' = {} => slips = {}
      BY <1>3
    <3> QED  BY <3>1, EngineStep DEF EngineIInv
  <2> QED  BY <1>1, <2>1, <2>2 DEF EngineIInv
<1> QED  BY <1>2, <1>3, SlipsAre DEF EngineIInv

LEMMA EngineIsInv == EngineIInv => EngineInv
<1>1. RoomsInv /\ Records => TypeOK
  BY RoomsAreTyped
<1>2. RoomsInv => MatchInv
  BY DEF RoomsInv, MatchInv, RoomOK
<1> QED  BY <1>1, <1>2 DEF EngineIInv, EngineSound, Reach, IndexSound, EngineInv, IndexInv

\* EngineInv: the maps are well formed and a match has what it needs to end,
\* whatever callers do; the maps agree on who can be reached, unless since the
\* last restart a caller had a code drawn that an entry still named or seated a
\* socket in two rooms.  Rooms come back from a restart with their players
\* connected, as restoreRoomState leaves them.
THEOREM EngineIsSound == Spec => []EngineInv
<1>1. Init => EngineIInv
  BY RoomsInit, RecordsInit, IndexInit, EngineInit DEF EngineIInv
<1>2. EngineIInv /\ [Next]_vars => EngineIInv'
  BY EngineIStep
<1> QED  BY <1>1, <1>2, EngineIsInv, PTL DEF Spec

=============================================================================
