--------------------------- MODULE MatchPlayProofs ---------------------------
(***************************************************************************)
(* Proofs about MatchPlay, for every prompt, speed, budget and length of a *)
(* message: PlayInv and WinnerIsRight.                                     *)
(*                                                                         *)
(* A message is typed key by key, so what it makes of a player is shown by *)
(* induction over its keys.  Every change of the players, by a human or    *)
(* the COM player, ends in maybeFinalizeRoom: the lemmas follow a table of *)
(* players from the keys through the hits to that decision.                *)
(***************************************************************************)
EXTENDS MatchPlay, WellFoundedInduction, TLAPS

-----------------------------------------------------------------------------
(* Induction over a set of naturals, so that it can be cited.              *)

\* A set of naturals with zero and all successors has them all.
LEMMA InductionOnNat ==
  ASSUME NEW S \in SUBSET Nat, 0 \in S, \A n \in S : n + 1 \in S
  PROVE  S = Nat
<1> DEFINE R == OpToRel(<, Nat)
           T == Nat \ S
<1>0. IsWellFoundedOn(R, Nat)
  BY NatLessThanWellFounded
<1>1. ASSUME T # {} PROVE FALSE
  <2>0. T \subseteq Nat
    OBVIOUS
  <2> HIDE DEF T
  <2>1. PICK x \in T : \A y \in T : ~(<<y, x>> \in R)
    BY <1>0, <1>1, <2>0, WFMin
  <2> USE DEF T
  <2>2. x \in Nat /\ x # 0
    OBVIOUS
  <2>3. x - 1 \in Nat /\ x - 1 \notin S
    BY <2>2
  <2>4. <<x - 1, x>> \in R
    BY <2>2, <2>3 DEF OpToRel
  <2> QED  BY <2>1, <2>3, <2>4
<1> QED  BY <1>1

-----------------------------------------------------------------------------
(* The definition of Typed as a recursion over the keys.                   *)

\* f[n] is the player p after the first n of the keys, for n up to m.
IsRun(f, m, p, keys) ==
  f = [n \in 0..m |-> IF n = 0 THEN [p |-> p, done |-> 0, missed |-> 0]
                      ELSE Press(f[n - 1], keys[n])]

LEMMA RunExists ==
  ASSUME NEW p, NEW keys, NEW len \in Nat
  PROVE  \E f : IsRun(f, len, p, keys)
<1> DEFINE S == {m \in Nat : \E f : IsRun(f, m, p, keys)}
<1>1. 0 \in S
  <2> DEFINE f == [n \in 0..0 |-> [p |-> p, done |-> 0, missed |-> 0]]
  <2>1. IsRun(f, 0, p, keys)
    BY DEF IsRun
  <2> QED  BY <2>1
<1>2. ASSUME NEW m \in S PROVE m + 1 \in S
  <2>1. PICK f : IsRun(f, m, p, keys)
    OBVIOUS
  <2> DEFINE g == [n \in 0..(m + 1) |-> IF n <= m THEN f[n]
                                         ELSE Press(f[m], keys[m + 1])]
  <2>2. \A n \in 0..(m + 1) :
          g[n] = IF n = 0 THEN [p |-> p, done |-> 0, missed |-> 0]
                 ELSE Press(g[n - 1], keys[n])
    BY <2>1 DEF IsRun
  <2>3. IsRun(g, m + 1, p, keys)
    BY <2>2 DEF IsRun
  <2> QED  BY <2>3
<1>3. S = Nat
  <2> HIDE DEF S
  <2>1. S \in SUBSET Nat
    BY DEF S
  <2> QED  BY <1>1, <1>2, <2>1, InductionOnNat
<1> QED  BY <1>3

\* Typed is what such a run ends in.
LEMMA TypedIsRun ==
  ASSUME NEW p, NEW keys, Len(keys) \in Nat
  PROVE  \E f : IsRun(f, Len(keys), p, keys) /\ Typed(p, keys) = f[Len(keys)]
<1> DEFINE after == CHOOSE f : IsRun(f, Len(keys), p, keys)
<1>1. IsRun(after, Len(keys), p, keys)
  BY RunExists
<1>2. Typed(p, keys) = after[Len(keys)]
  BY DEF Typed, IsRun
<1> QED  BY <1>1, <1>2

-----------------------------------------------------------------------------
(* Keys.                                                                   *)

USE RoomAssumption, PromptAssumption, RateAssumption, BattleAssumption

\* Of the values a player has, a key press changes three.
SameFate(p, q) == q.hp = p.hp /\ q.finish = p.finish
SameBudget(p, q) == q.tokens = p.tokens /\ q.refilledAt = p.refilledAt

RuleOK == rule \in Rules /\ now \in Nat

LEMMA FurthestIs ==
  ASSUME RuleOK
  PROVE  /\ Furthest \in Nat
         /\ rule = "race" => Furthest = PromptLength
         /\ rule = "timeAttack" => Furthest = TotalLength
         /\ rule = "hpBattle" => Furthest = PromptLength - 1
  BY DEF RuleOK, Rules, Furthest

LEMMA QuotientIsNatural ==
  ASSUME NEW m \in Nat, NEW d \in Nat \ {0}
  PROVE  m \div d \in Nat /\ m % d \in 0..(d - 1)
  OBVIOUS

LEMMA ExtendTyped ==
  ASSUME RuleOK, NEW p \in PlayerType, NEW n \in Nat
  PROVE  /\ Extend(p, n) \in PlayerType /\ Extend(p, n).progress = p.progress
         /\ SameFate(p, Extend(p, n)) /\ SameBudget(p, Extend(p, n))
<1> DEFINE x == p.streak + n
<1>1. x \in Nat /\ p.guards \in 0..MaxGuards
  BY DEF PlayerType
<1>2. x \div GuardStreak \in Nat /\ x % GuardStreak \in 0..(GuardStreak - 1)
  BY <1>1, QuotientIsNatural
<1>3. Least(p.guards + x \div GuardStreak, MaxGuards) \in 0..MaxGuards
  BY <1>1, <1>2 DEF Least
<1> QED  BY <1>2, <1>3 DEF Extend, PlayerType, SameFate, SameBudget

LEMMA AdvanceTyped ==
  ASSUME RuleOK, NEW p \in PlayerType, NEW n \in Nat,
         rule # "hpBattle" => p.progress + n <= Furthest
  PROVE  /\ Advance(p, n) \in PlayerType
         /\ SameFate(p, Advance(p, n)) /\ SameBudget(p, Advance(p, n))
<1>1. Furthest \in Nat /\ p.progress \in 0..Furthest
  BY FurthestIs DEF PlayerType
<1>2. CASE rule = "hpBattle"
  <2>1. (p.progress + n) % PromptLength \in 0..Furthest
    <3>1. Furthest = PromptLength - 1
      BY <1>2, FurthestIs
    <3>2. p.progress + n \in Nat
      BY <1>1
    <3> QED  BY <3>1, <3>2, QuotientIsNatural
  <2> QED  BY <1>2, <2>1 DEF Advance, PlayerType, SameFate, SameBudget
<1>3. CASE rule # "hpBattle"
  <2>1. p.progress + n \in 0..Furthest
    BY <1>1, <1>3
  <2> QED  BY <1>3, <2>1 DEF Advance, PlayerType, SameFate, SameBudget
<1> QED  BY <1>2, <1>3

RunType == [p : PlayerType, done : Nat, missed : Nat]

LEMMA PressTyped ==
  ASSUME RuleOK, NEW e \in RunType, NEW k \in Keys
  PROVE  /\ Press(e, k) \in RunType
         /\ SameFate(e.p, Press(e, k).p) /\ SameBudget(e.p, Press(e, k).p)
<1>0. e.p \in PlayerType /\ e.done \in Nat /\ e.missed \in Nat
  BY DEF RunType
<1>1. CASE k = "miss"
  <2>1. CASE e.p.guards > 0
    <3> DEFINE q == [e.p EXCEPT !.guards = @ - 1]
    <3>1. Press(e, k) = [p |-> q, done |-> e.done, missed |-> e.missed]
      BY <1>1, <2>1 DEF Press, RunType
    <3>2. q \in PlayerType /\ SameFate(e.p, q) /\ SameBudget(e.p, q)
      BY <1>0, <2>1 DEF PlayerType, SameFate, SameBudget
    <3> HIDE DEF q
    <3> QED  BY <1>0, <3>1, <3>2 DEF RunType
  <2>2. CASE ~(e.p.guards > 0)
    <3> DEFINE q == [e.p EXCEPT !.streak = 0]
    <3>1. Press(e, k) = [p |-> q, done |-> e.done, missed |-> e.missed + 1]
      BY <1>1, <2>2 DEF Press, RunType
    <3>2. q \in PlayerType /\ SameFate(e.p, q) /\ SameBudget(e.p, q)
      BY <1>0 DEF PlayerType, SameFate, SameBudget
    <3> HIDE DEF q
    <3> QED  BY <1>0, <3>1, <3>2 DEF RunType
  <2> QED  BY <2>1, <2>2
<1>2. CASE k # "miss" /\ AtEnd(e.p)
  BY <1>2 DEF Press, SameFate, SameBudget
<1>3. CASE k # "miss" /\ ~AtEnd(e.p)
  <2> DEFINE q == IF k = "complete" THEN Advance(e.p, 1) ELSE e.p
  <2>1. rule # "hpBattle" => e.p.progress + 1 <= Furthest
    BY <1>0, <1>3, FurthestIs DEF AtEnd, PlayerType, RuleOK, Rules
  <2>2. q \in PlayerType /\ SameFate(e.p, q) /\ SameBudget(e.p, q)
    BY <1>0, <2>1, AdvanceTyped DEF SameFate, SameBudget
  <2>3. /\ Extend(q, 1) \in PlayerType
        /\ SameFate(q, Extend(q, 1)) /\ SameBudget(q, Extend(q, 1))
    BY <2>2, ExtendTyped
  <2>4. Press(e, k) = [p |-> Extend(q, 1),
                       done |-> e.done + (IF k = "complete" THEN 1 ELSE 0),
                       missed |-> e.missed]
    BY <1>3 DEF Press
  <2> HIDE DEF q
  <2> QED  BY <1>0, <2>2, <2>3, <2>4 DEF RunType, SameFate, SameBudget
<1> QED  BY <1>1, <1>2, <1>3

\* A whole message keeps a player within bounds, and only their progress,
\* streak and guards change.
LEMMA TypedTyped ==
  ASSUME RuleOK, NEW p \in PlayerType, NEW keys \in Seq(Keys)
  PROVE  /\ Typed(p, keys) \in RunType
         /\ SameFate(p, Typed(p, keys).p) /\ SameBudget(p, Typed(p, keys).p)
<1>0. Len(keys) \in Nat /\ \A n \in 1..Len(keys) : keys[n] \in Keys
  OBVIOUS
<1>1. PICK f : IsRun(f, Len(keys), p, keys) /\ Typed(p, keys) = f[Len(keys)]
  BY <1>0, TypedIsRun
<1> DEFINE Good(e) == e \in RunType /\ SameFate(p, e.p) /\ SameBudget(p, e.p)
           S == {n \in Nat : n <= Len(keys) => Good(f[n])}
<1>2. 0 \in S
  <2>1. f[0] = [p |-> p, done |-> 0, missed |-> 0]
    BY <1>0, <1>1 DEF IsRun
  <2> QED  BY <2>1 DEF RunType, SameFate, SameBudget
<1>3. ASSUME NEW n \in S PROVE n + 1 \in S
  <2> SUFFICES ASSUME n + 1 <= Len(keys) PROVE Good(f[n + 1])
    OBVIOUS
  <2> DEFINE k == keys[n + 1]
  <2>1. Good(f[n]) /\ k \in Keys
    <3>1. n <= Len(keys) /\ n + 1 \in 1..Len(keys)
      BY <1>0
    <3> QED  BY <1>0, <3>1
  <2>2. n + 1 \in 0..Len(keys) /\ n + 1 # 0 /\ (n + 1) - 1 = n
    <3>1. n \in Nat /\ n + 1 <= Len(keys) /\ Len(keys) \in Nat
      BY <1>0
    <3> HIDE DEF S, k, Good
    <3> QED  BY <3>1
  <2>3. f[n + 1] = Press(f[n], k)
    BY <1>1, <2>2 DEF IsRun
  <2> HIDE DEF k
  <2>4. /\ f[n + 1] \in RunType
        /\ SameFate(f[n].p, f[n + 1].p) /\ SameBudget(f[n].p, f[n + 1].p)
    <3> DEFINE e == f[n]
    <3>1. e \in RunType /\ f[n + 1] = Press(e, k)
      BY <2>1, <2>3
    <3> HIDE DEF e
    <3>2. /\ f[n + 1] \in RunType
          /\ SameFate(e.p, f[n + 1].p) /\ SameBudget(e.p, f[n + 1].p)
      BY <2>1, <3>1, PressTyped
    <3> QED  BY <3>2 DEF e
  <2> QED  BY <2>1, <2>4 DEF SameFate, SameBudget
<1>4. S = Nat
  <2> HIDE DEF S
  <2>1. S \in SUBSET Nat
    BY DEF S
  <2> QED  BY <1>2, <1>3, <2>1, InductionOnNat
<1> QED  BY <1>0, <1>1, <1>4

-----------------------------------------------------------------------------
(* Whatever changes the players ends in a decision of maybeFinalizeRoom.   *)

Table == players \in Rooms /\ player \in [players -> PlayerType]

LEMMA TwoAtATable ==
  ASSUME Table
  PROVE  /\ \E g \in players : g # Com
         /\ \A f, g, h \in players : f = g \/ g = h \/ f = h
  BY DEF Table

\* A player of a match that goes on, or that is decided by this step.
InPlay(p) ==
  /\ rule = "race" =>
       /\ p.hp > 0
       /\ \/ p.finish = "finished" /\ p.progress = PromptLength
          \/ p.finish = "undefined" /\ p.progress < PromptLength
  /\ rule = "timeAttack" => p.hp > 0 /\ p.finish = "undefined"
  /\ rule = "hpBattle" => \/ p.hp = 0 /\ p.finish = "eliminated"
                          \/ p.hp > 0 /\ p.finish = "undefined"

OneFinisher(pl) ==
  \A g, h \in players : pl[g].finish = "finished" /\ pl[h].finish = "finished" => g = h

\* What the ranking needs to find the right winner.
Rankable(pl) ==
  /\ pl \in [players -> PlayerType]
  /\ rule = "race" =>
       /\ OneFinisher(pl)
       /\ \A g \in players : pl[g].finish = "undefined" => pl[g].progress < PromptLength
  /\ rule = "hpBattle" =>
       /\ \A g \in players : pl[g].finish # "finished"
       /\ \A g, h \in players :
            g # h /\ ~Forfeited(pl[g]) /\ ~Forfeited(pl[h])
              => pl[g].hp # pl[h].hp \/ pl[g].hp = 0

\* rankPlayers finds the right winner.
LEMMA FinalizeRight ==
  ASSUME RuleOK, Table, NEW pl, Rankable(pl), FinalizeRoom(pl), rule' = rule
  PROVE  /\ status' = "finished" /\ player' = pl /\ winner' \in players
         /\ WinnerIsRight'
<1>1. DOMAIN pl = players /\ \A g \in players : pl[g] \in PlayerType
  BY DEF Rankable
<1>2. /\ status' = "finished" /\ player' = pl /\ winner' \in players
      /\ players' = players
      /\ \A h \in players : ~Beats(pl[h], pl[winner'])
  BY <1>1 DEF FinalizeRoom, players
<1> DEFINE w == winner'
           Here == {g \in players : ~Forfeited(pl[g])}
<1>3. Stayed' = Here
  BY <1>2 DEF Stayed, Forfeited
<1> HIDE DEF w
<1>4. w \in players /\ \A h \in players : ~Beats(pl[h], pl[w])
  BY <1>2 DEF w
<1>5. Here # {} => w \in Here
  BY <1>4 DEF Beats
<1>6. ASSUME NEW g \in Here \ {w}
      PROVE  CASE rule = "race" -> pl[g].finish # "finished"
               [] rule = "timeAttack" -> pl[g].progress <= pl[w].progress
               [] rule = "hpBattle" -> pl[g].hp < pl[w].hp
                                       \/ {pl[g].hp, pl[w].hp} = {0}
  <2>1. /\ g \in players /\ ~Forfeited(pl[g]) /\ ~Forfeited(pl[w]) /\ g # w
        /\ ~Beats(pl[g], pl[w]) /\ pl[g] \in PlayerType /\ pl[w] \in PlayerType
    BY <1>1, <1>4, <1>5, <1>6
  <2>2. CASE rule = "race"
    <3>1. ASSUME pl[g].finish = "finished" PROVE FALSE
      <4>1. IsFinished(pl[g])
        BY <3>1 DEF IsFinished
      <4>2. IsFinished(pl[w])
        BY <2>1, <2>2, <4>1 DEF Beats, Rules
      <4>3. pl[w].finish = "finished"
        BY <1>4, <2>1, <2>2, <4>2, FurthestIs
           DEF IsFinished, Forfeited, Rankable, PlayerType
      <4> QED  BY <1>4, <2>1, <2>2, <3>1, <4>3 DEF Rankable, OneFinisher
    <3> QED  BY <2>2, <3>1
  <2>3. CASE rule = "timeAttack"
    <3>1. pl[g].progress \in Int /\ pl[w].progress \in Int
      BY <2>1, FurthestIs DEF PlayerType
    <3> QED  BY <2>1, <2>3, <3>1 DEF Beats
  <2>4. CASE rule = "hpBattle"
    <3>1. /\ pl[g].progress < PromptLength /\ pl[w].progress < PromptLength
          /\ pl[g].hp \in Nat /\ pl[w].hp \in Nat
      BY <2>1, <2>4, FurthestIs DEF PlayerType
    <3>2. ~IsFinished(pl[g]) /\ ~IsFinished(pl[w])
      BY <1>4, <2>1, <2>4, <3>1, FurthestIs
         DEF IsFinished, Forfeited, Rankable, PlayerType
    <3>3. pl[g].hp <= pl[w].hp
      BY <2>1, <2>4, <3>1, <3>2 DEF Beats
    <3>4. pl[g].hp # pl[w].hp \/ pl[g].hp = 0
      BY <1>4, <2>1, <2>4 DEF Rankable
    <3> QED  BY <2>4, <3>1, <3>3, <3>4
  <2> QED  BY <2>2, <2>3, <2>4 DEF RuleOK, Rules
<1> QED  BY <1>2, <1>3, <1>5, <1>6 DEF WinnerIsRight, w

\* maybeFinalizeRoom leaves a match that goes on, or a decided one with the
\* right winner; who forfeits is not decided here.
LEMMA MaybeFinalizeRight ==
  ASSUME RuleOK, Table, status = "playing", winner \in players \cup {Nobody},
         rule' = rule,
         NEW pl \in [players -> PlayerType], OneFinisher(pl),
         \A g \in players : InPlay(pl[g]),
         MaybeFinalizeRoom(pl)
  PROVE  /\ player' \in [players -> PlayerType] /\ players' = players
         /\ status' \in {"playing", "finished"} /\ winner' \in players \cup {Nobody}
         /\ DecidedIsOver' /\ WinnerIsRight'
         /\ \A g \in players : SameBudget(pl[g], player'[g])
<1>0. DOMAIN pl = players /\ \A g \in players : pl[g] \in PlayerType
  OBVIOUS
<1> DEFINE A == rule = "hpBattle" /\ \E g \in players : pl[g].hp = 0
           B == rule = "race" /\ \E g \in players : pl[g].finish = "finished"
<1>1. CASE A
  <2>1. Rankable(pl)
    BY <1>1, TwoAtATable DEF Rankable, InPlay
  <2>2. FinalizeRoom(pl)
    BY <1>0, <1>1 DEF MaybeFinalizeRoom
  <2> QED  BY <1>0, <2>1, <2>2, FinalizeRight DEF DecidedIsOver, SameBudget, players
<1>2. CASE ~A /\ B
  <2> DEFINE end == FinalizeUnfinishedRacePlayers(pl)
  <2>1. /\ end \in [players -> PlayerType]
        /\ \A g \in players :
             /\ SameBudget(pl[g], end[g])
             /\ end[g].finish = "finished" => pl[g].finish = "finished"
             /\ end[g].finish # "undefined"
    BY <1>0, <1>2
       DEF FinalizeUnfinishedRacePlayers, PlayerType, Finishes, SameBudget, InPlay
  <2>2. Rankable(end)
    BY <1>2, <2>1 DEF Rankable, OneFinisher
  <2>3. FinalizeRoom(end)
    BY <1>0, <1>2 DEF MaybeFinalizeRoom
  <2> HIDE DEF end
  <2> QED  BY <2>1, <2>2, <2>3, FinalizeRight DEF DecidedIsOver, players
<1>3. CASE ~A /\ ~B
  <2>1. ~(rule # "timeAttack" /\ AreHumansFinished(pl))
    <3>1. PICK g \in players : g # Com
      BY TwoAtATable
    <3>2. g \in DOMAIN pl \ {Com} /\ pl[g] \in PlayerType
      BY <1>0, <3>1
    <3>3. ASSUME rule # "timeAttack", AreHumansFinished(pl) PROVE FALSE
      <4>1. \/ pl[g].finish \in {"forfeited", "eliminated"}
            \/ rule = "hpBattle" /\ pl[g].hp = 0
            \/ rule = "race" /\ pl[g].progress >= PromptLength
        BY <3>2, <3>3 DEF AreHumansFinished
      <4>2. rule = "race" => pl[g].progress \in 0..PromptLength
        BY <3>2, FurthestIs DEF PlayerType
      <4> QED  BY <1>3, <3>1, <3>3, <4>1, <4>2 DEF InPlay, RuleOK, Rules
    <3> QED  BY <3>3
  <2>2. player' = pl /\ status' = status /\ winner' = winner
    BY <1>0, <1>3, <2>1 DEF MaybeFinalizeRoom
  <2>3. players' = players
    BY <1>0, <2>2 DEF players
  <2>4. DecidedIsOver'
    <3>1. \A g \in players : /\ pl[g].finish = "undefined" /\ pl[g].hp > 0
                             /\ rule = "race" => pl[g].progress < PromptLength
      BY <1>0, <1>3 DEF InPlay, RuleOK, Rules, PlayerType
    <3> QED  BY <2>2, <2>3, <3>1 DEF DecidedIsOver
  <2> QED  BY <2>2, <2>3, <2>4 DEF WinnerIsRight, SameBudget
<1> QED  BY <1>1, <1>2, <1>3

\* A hit eliminates exactly the player it leaves without hp.
LEMMA DamageInPlay ==
  ASSUME RuleOK, rule = "hpBattle", NEW p \in PlayerType, NEW d \in Nat,
         p.finish = "undefined", p.hp > 0
  PROVE  /\ ApplyHpDamage(p, d) \in PlayerType /\ InPlay(ApplyHpDamage(p, d))
         /\ SameBudget(p, ApplyHpDamage(p, d))
<1> DEFINE damage == IF suddenDeath THEN 2 * d ELSE d
           left == IF damage >= p.hp THEN 0 ELSE p.hp - damage
<1>1. p.hp \in 1..MaxHp
  BY DEF PlayerType
<1>2. left \in 0..MaxHp
  BY <1>1
<1> HIDE DEF left
<1>3. CASE d = 0
  BY <1>1, <1>3 DEF ApplyHpDamage, InPlay, SameBudget
<1>4. CASE d # 0
  <2>1. ApplyHpDamage(p, d)
          = [p EXCEPT !.hp = left, !.finish = IF left = 0 THEN "eliminated" ELSE @]
    BY <1>1, <1>4 DEF ApplyHpDamage, left
  <2> DEFINE hit == ApplyHpDamage(p, d)
             fate == IF left = 0 THEN "eliminated" ELSE "undefined"
  <2>2. hit \in PlayerType /\ SameBudget(p, hit)
    <3>1. hit = [p EXCEPT !.hp = left, !.finish = fate]
      BY <2>1
    <3>2. fate \in Finishes
      BY DEF Finishes
    <3> HIDE DEF hit, fate
    <3>3. hit \in PlayerType
      BY <1>2, <3>1, <3>2 DEF PlayerType
    <3>4. SameBudget(p, hit)
      BY <3>1 DEF SameBudget, PlayerType
    <3> QED  BY <3>3, <3>4
  <2>3. hit.hp = left /\ hit.finish = IF left = 0 THEN "eliminated" ELSE "undefined"
    BY <2>1 DEF PlayerType
  <2> HIDE DEF hit
  <2>4. InPlay(hit)
    BY <1>2, <2>3 DEF InPlay
  <2> QED  BY <2>2, <2>4 DEF hit
<1> QED  BY <1>3, <1>4

\* Whoever is hit: the match is ready for maybeFinalizeRoom.
LEMMA StrikeInPlay ==
  ASSUME RuleOK, Table, NEW g \in players, NEW hits \in Nat, NEW mistakes \in Nat,
         NEW pl \in [players -> PlayerType], OneFinisher(pl),
         \A h \in players : InPlay(pl[h]),
         rule = "hpBattle" => \A h \in players : pl[h].hp > 0
  PROVE  /\ Strike(pl, g, hits, mistakes) \in [players -> PlayerType]
         /\ OneFinisher(Strike(pl, g, hits, mistakes))
         /\ \A h \in players : /\ InPlay(Strike(pl, g, hits, mistakes)[h])
                               /\ SameBudget(pl[h], Strike(pl, g, hits, mistakes)[h])
<1>1. CASE rule # "hpBattle"
  BY <1>1 DEF Strike, SameBudget
<1>2. CASE rule = "hpBattle"
  <2> DEFINE struck == [h \in players |->
                         ApplyHpDamage(pl[h], IF h = g THEN mistakes ELSE hits)]
  <2>1. Strike(pl, g, hits, mistakes) = struck
    BY <1>2 DEF Strike
  <2>2. ASSUME NEW h \in players
        PROVE  /\ struck[h] \in PlayerType /\ InPlay(struck[h])
               /\ SameBudget(pl[h], struck[h])
    BY <1>2, DamageInPlay DEF InPlay
  <2>3. OneFinisher(struck)
    BY <1>2, <2>2 DEF OneFinisher, InPlay
  <2>4. struck \in [players -> PlayerType]
    BY <2>2
  <2> HIDE DEF struck
  <2> QED  BY <2>1, <2>2, <2>3, <2>4
<1> QED  BY <1>1, <1>2

LEMMA FinishInPlay ==
  ASSUME RuleOK, NEW p \in PlayerType, p.finish = "undefined", p.hp > 0
  PROVE  /\ Finish(p) \in PlayerType /\ InPlay(Finish(p))
         /\ SameBudget(p, Finish(p)) /\ Finish(p).hp = p.hp
  BY FurthestIs DEF Finish, InPlay, PlayerType, Finishes, SameBudget

\* What typing, human or not, makes of a match.
LEMMA MoveRight ==
  ASSUME RuleOK, Table, status = "playing", winner \in players \cup {Nobody},
         DecidedIsOver, rule' = rule,
         NEW g \in players, NEW p \in PlayerType, p.finish = "undefined", p.hp > 0,
         NEW hits \in Nat, NEW mistakes \in Nat,
         MaybeFinalizeRoom(Strike([player EXCEPT ![g] = Finish(p)], g, hits, mistakes))
  PROVE  /\ player' \in [players -> PlayerType] /\ players' = players
         /\ status' \in {"playing", "finished"} /\ winner' \in players \cup {Nobody}
         /\ DecidedIsOver' /\ WinnerIsRight'
         /\ \A h \in players : SameBudget(IF h = g THEN p ELSE player[h], player'[h])
<1> DEFINE pl == [player EXCEPT ![g] = Finish(p)]
           struck == Strike(pl, g, hits, mistakes)
<1>1. /\ Finish(p) \in PlayerType /\ InPlay(Finish(p)) /\ SameBudget(p, Finish(p))
      /\ Finish(p).hp > 0
  BY FinishInPlay
<1>2. player \in [players -> PlayerType]
  BY DEF Table
<1>3. pl \in [players -> PlayerType]
  BY <1>1, <1>2
<1>4. ASSUME NEW h \in players
      PROVE  /\ InPlay(pl[h]) /\ pl[h].hp > 0
             /\ SameBudget(IF h = g THEN p ELSE player[h], pl[h])
             /\ h # g => pl[h].finish = "undefined"
  <2>1. CASE h = g
    BY <1>1, <1>2, <2>1
  <2>2. CASE h # g
    <3>1. pl[h] = player[h]
      BY <1>2, <2>2
    <3> QED  BY <2>2, <3>1 DEF DecidedIsOver, InPlay, SameBudget
  <2> QED  BY <2>1, <2>2
<1>5. OneFinisher(pl)
  BY <1>4 DEF OneFinisher
<1> HIDE DEF pl
<1>6. /\ struck \in [players -> PlayerType] /\ OneFinisher(struck)
      /\ \A h \in players : InPlay(struck[h]) /\ SameBudget(pl[h], struck[h])
  BY <1>3, <1>4, <1>5, StrikeInPlay
<1>7. MaybeFinalizeRoom(struck)
  BY DEF pl
<1> HIDE DEF struck
<1>8. /\ player' \in [players -> PlayerType] /\ players' = players
      /\ status' \in {"playing", "finished"} /\ winner' \in players \cup {Nobody}
      /\ DecidedIsOver' /\ WinnerIsRight'
      /\ \A h \in players : SameBudget(struck[h], player'[h])
  BY <1>6, <1>7, MaybeFinalizeRight
<1> QED  BY <1>4, <1>6, <1>8 DEF SameBudget

-----------------------------------------------------------------------------
(* The inductive invariant.  The budget of a player is what is left of the *)
(* burst and the time until the last refill.                               *)

Ledger ==
  \A g \in players :
    accepted[g] + player[g].tokens <= Burst + Rate * player[g].refilledAt

PlayProofInv == TypeOK /\ Ledger /\ DecidedIsOver /\ WinnerIsRight

LEMMA TypeFacts ==
  ASSUME TypeOK
  PROVE  /\ RuleOK /\ Table /\ winner \in players \cup {Nobody}
         /\ \A g \in players : accepted[g] \in Nat /\ player[g] \in PlayerType
  BY DEF TypeOK, RuleOK, Table

LEMMA TypeOfSameTime ==
  ASSUME UNCHANGED <<rule, now>>
  PROVE  PlayerType' = PlayerType
  BY DEF PlayerType, Furthest

\* The budget at this time is within the burst and within what the clock allows.
LEMMA RefilledBounds ==
  ASSUME TypeOK, Ledger, NEW g \in players
  PROVE  /\ Refilled(player[g]) \in 0..Burst
         /\ accepted[g] + Refilled(player[g]) <= Burst + Rate * now
<1> DEFINE p == player[g]
           r == p.refilledAt
<1>1. p.tokens \in Nat /\ p.tokens <= Burst /\ r \in 0..now /\ now \in Nat
      /\ accepted[g] \in Nat /\ Rate \in Nat /\ Burst \in Nat
  BY TypeFacts DEF PlayerType, RuleOK
<1>2. accepted[g] + p.tokens <= Burst + Rate * r
  BY DEF Ledger
<1>3. /\ (now - r) * Rate \in Nat /\ Rate * r \in Nat /\ Rate * now \in Nat
      /\ (now - r) * Rate + Rate * r = Rate * now
  BY <1>1
<1> QED  BY <1>1, <1>2, <1>3 DEF Refilled, Least

-----------------------------------------------------------------------------
(* One lemma for each action.                                              *)

LEMMA TypeStep ==
  ASSUME PlayProofInv, NEW g \in players \ {Com}, NEW keys \in Messages, Type(g, keys)
  PROVE  PlayProofInv'
<1> DEFINE typed == Typed(player[g], keys)
           p == [typed.p EXCEPT !.tokens = Refilled(player[g]) - typed.done,
                                !.refilledAt = now]
<1>1. /\ RuleOK /\ Table /\ winner \in players \cup {Nobody} /\ status = "playing"
      /\ player[g] \in PlayerType /\ keys \in Seq(Keys)
      /\ player[g].finish = "undefined" /\ player[g].hp > 0
  <2>1. keys \in Seq(Keys)
    BY DEF Messages
  <2> QED  BY <2>1, TypeFacts DEF PlayProofInv, DecidedIsOver, Type
<1>2. /\ typed \in RunType /\ typed.p \in PlayerType /\ typed.done \in Nat
      /\ typed.missed \in Nat
      /\ typed.p.finish = "undefined" /\ typed.p.hp > 0
  BY <1>1, TypedTyped DEF RunType, SameFate
<1> HIDE DEF typed
<1>3. Refilled(player[g]) \in 0..Burst /\ typed.done <= Refilled(player[g])
      /\ accepted[g] + Refilled(player[g]) <= Burst + Rate * now
  BY RefilledBounds DEF PlayProofInv, Type, typed
<1>4. /\ p \in PlayerType /\ p.finish = "undefined" /\ p.hp > 0
      /\ p.tokens = Refilled(player[g]) - typed.done /\ p.refilledAt = now
  <2> DEFINE full == Refilled(player[g])
             done == typed.done
             left == full - done
  <2>1. full \in 0..Burst /\ done \in Nat /\ done <= full
    BY <1>2, <1>3
  <2>2. now \in Nat
    BY <1>1 DEF RuleOK
  <2>3. now \in 0..now
    BY <2>2
  <2>4. p = [typed.p EXCEPT !.tokens = left, !.refilledAt = now]
    OBVIOUS
  <2> HIDE DEF p, full, done
  <2>5. left \in 0..Burst
    BY <2>1
  <2> HIDE DEF left
  <2>6. /\ p \in PlayerType /\ p.finish = "undefined" /\ p.hp > 0
        /\ p.tokens = left /\ p.refilledAt = now
    BY <1>2, <2>3, <2>4, <2>5 DEF PlayerType
  <2> QED  BY <2>6 DEF left, full, done
<1> HIDE DEF p
<1>5. /\ MaybeFinalizeRoom(Strike([player EXCEPT ![g] = Finish(p)], g,
                                  typed.done, typed.missed))
      /\ accepted' = [accepted EXCEPT ![g] = @ + typed.done]
      /\ UNCHANGED <<rule, now, matchEndsAt, suddenDeath>>
  BY DEF Type, typed, p
<1>6. /\ player' \in [players -> PlayerType] /\ players' = players
      /\ status' \in {"playing", "finished"} /\ winner' \in players \cup {Nobody}
      /\ DecidedIsOver' /\ WinnerIsRight'
      /\ \A h \in players : SameBudget(IF h = g THEN p ELSE player[h], player'[h])
  BY <1>1, <1>2, <1>4, <1>5, MoveRight DEF PlayProofInv
<1>7. accepted' \in [players -> Nat]
  BY <1>2, <1>5 DEF PlayProofInv, TypeOK
<1>8. TypeOK'
  BY <1>5, <1>6, <1>7, TypeOfSameTime DEF PlayProofInv, TypeOK
<1>9. Ledger'
  <2> SUFFICES ASSUME NEW h \in players
               PROVE  accepted'[h] + player'[h].tokens
                        <= Burst + Rate * player'[h].refilledAt
    BY <1>5, <1>6 DEF Ledger
  <2>1. accepted \in [players -> Nat]
    BY DEF PlayProofInv, TypeOK
  <2>2. CASE h = g
    <3>1. player'[h].tokens = Refilled(player[g]) - typed.done
          /\ player'[h].refilledAt = now
      BY <1>4, <1>6, <2>2 DEF SameBudget
    <3>2. accepted'[h] = accepted[g] + typed.done
      BY <1>5, <2>1, <2>2
    <3>3. accepted[g] \in Nat
      BY <2>1
    <3> QED  BY <1>2, <1>3, <3>1, <3>2, <3>3
  <2>3. CASE h # g
    BY <1>5, <1>6, <2>1, <2>3 DEF PlayProofInv, Ledger, SameBudget
  <2> QED  BY <2>2, <2>3
<1> QED  BY <1>6, <1>8, <1>9 DEF PlayProofInv

\* A tick of the COM player, with p for what it makes of it.
LEMMA BotStep ==
  ASSUME PlayProofInv, BotTick,
         NEW p \in PlayerType, p.finish = "undefined", p.hp > 0,
         SameBudget(player[Com], p), NEW hits \in Nat, NEW mistakes \in Nat,
         MaybeFinalizeRoom(Strike([player EXCEPT ![Com] = Finish(p)], Com,
                                  hits, mistakes)),
         UNCHANGED <<rule, now, matchEndsAt, suddenDeath, accepted>>
  PROVE  PlayProofInv'
<1>1. /\ RuleOK /\ Table /\ winner \in players \cup {Nobody} /\ status = "playing"
      /\ Com \in players
  BY TypeFacts DEF PlayProofInv, BotTick
<1>2. /\ player' \in [players -> PlayerType] /\ players' = players
      /\ status' \in {"playing", "finished"} /\ winner' \in players \cup {Nobody}
      /\ DecidedIsOver' /\ WinnerIsRight'
      /\ \A h \in players : SameBudget(IF h = Com THEN p ELSE player[h], player'[h])
  BY <1>1, MoveRight DEF PlayProofInv
<1>3. TypeOK'
  BY <1>2, TypeOfSameTime DEF PlayProofInv, TypeOK
<1>4. \A h \in players : SameBudget(player[h], player'[h])
  BY <1>2 DEF SameBudget
<1>5. Ledger'
  BY <1>2, <1>4 DEF PlayProofInv, Ledger, SameBudget
<1> QED  BY <1>2, <1>3, <1>5 DEF PlayProofInv

LEMMA ComInPlay ==
  ASSUME PlayProofInv, BotTick
  PROVE  /\ RuleOK /\ player[Com] \in PlayerType
         /\ player[Com].finish = "undefined" /\ player[Com].hp > 0
         /\ rule = "race" => player[Com].progress < PromptLength
  BY TypeFacts DEF PlayProofInv, DecidedIsOver, BotTick

LEMMA BotDeltaFits ==
  ASSUME PlayProofInv, BotTick, NEW n \in 1..MaxSpeed
  PROVE  /\ BotDelta(n) \in Nat
         /\ rule # "hpBattle" => player[Com].progress + BotDelta(n) <= Furthest
<1>1. player[Com].progress \in 0..Furthest /\ Furthest \in Nat /\ n \in Nat
  BY ComInPlay, FurthestIs DEF PlayerType
<1> QED  BY <1>1, ComInPlay, FurthestIs DEF BotDelta, Least, RuleOK, Rules

LEMMA BotHitsStep ==
  ASSUME PlayProofInv, NEW n \in 1..MaxSpeed, BotHits(n)
  PROVE  PlayProofInv'
<1> DEFINE d == BotDelta(n)
           p == Extend(Advance(player[Com], d), d)
<1>1. /\ BotTick /\ d \in Nat
      /\ rule # "hpBattle" => player[Com].progress + d <= Furthest
  BY BotDeltaFits DEF BotHits
<1>2. /\ MaybeFinalizeRoom(Strike([player EXCEPT ![Com] = Finish(p)], Com, d, 0))
      /\ UNCHANGED <<rule, now, matchEndsAt, suddenDeath, accepted>>
  BY DEF BotHits
<1> HIDE DEF d
<1>3. /\ RuleOK /\ player[Com] \in PlayerType
      /\ player[Com].finish = "undefined" /\ player[Com].hp > 0
  BY <1>1, ComInPlay
<1>4. /\ Advance(player[Com], d) \in PlayerType
      /\ SameFate(player[Com], Advance(player[Com], d))
      /\ SameBudget(player[Com], Advance(player[Com], d))
  BY <1>1, <1>3, AdvanceTyped
<1>5. /\ p \in PlayerType /\ SameFate(Advance(player[Com], d), p)
      /\ SameBudget(Advance(player[Com], d), p)
  BY <1>1, <1>3, <1>4, ExtendTyped
<1>6. p.finish = "undefined" /\ p.hp > 0 /\ SameBudget(player[Com], p)
  BY <1>3, <1>4, <1>5 DEF SameFate, SameBudget
<1> HIDE DEF p
<1> QED  BY <1>1, <1>5, <1>6, <1>2, BotStep

LEMMA BotErrsStep ==
  ASSUME PlayProofInv, NEW n \in 1..MaxSpeed, BotErrs(n)
  PROVE  PlayProofInv'
<1> DEFINE m == IF rule = "timeAttack" THEN BotDelta(n) ELSE n
           guarded == player[Com].guards > 0
           p == IF m = 0 THEN player[Com]
                ELSE IF guarded THEN [player[Com] EXCEPT !.guards = @ - 1]
                ELSE [player[Com] EXCEPT !.streak = 0]
           mistakes == IF guarded THEN 0 ELSE m
<1>1. BotTick
  BY DEF BotErrs
<1>2. /\ RuleOK /\ player[Com] \in PlayerType
      /\ player[Com].finish = "undefined" /\ player[Com].hp > 0
      /\ rule = "race" => player[Com].progress < PromptLength
  BY <1>1, ComInPlay
<1>3. m \in Nat
  BY <1>1, BotDeltaFits
<1>4. mistakes \in Nat
  BY <1>3
<1> HIDE DEF m
<1>5. p \in PlayerType /\ SameBudget(player[Com], p) /\ SameFate(player[Com], p)
      /\ p.progress = player[Com].progress
  BY <1>2 DEF PlayerType, SameBudget, SameFate
<1>6. Finish(p) = p
  BY <1>2, <1>5, FurthestIs DEF Finish, PlayerType
<1>7. /\ MaybeFinalizeRoom(Strike([player EXCEPT ![Com] = p], Com, 0, mistakes))
      /\ UNCHANGED <<rule, now, matchEndsAt, suddenDeath, accepted>>
  BY DEF BotErrs, m
<1> HIDE DEF p, mistakes
<1>8. MaybeFinalizeRoom(Strike([player EXCEPT ![Com] = Finish(p)], Com, 0, mistakes))
  BY <1>6, <1>7
<1> QED  BY <1>1, <1>2, <1>4, <1>5, <1>7, <1>8, BotStep DEF SameFate

\* What ends a match without another key: the players are as they were, but
\* for those who forfeit and for the COM player, who has not finished.
LEMMA EndStep ==
  ASSUME PlayProofInv, NEW pl, Rankable(pl), FinalizeRoom(pl),
         \A g \in players : SameBudget(player[g], pl[g]),
         UNCHANGED <<rule, now, matchEndsAt, suddenDeath, accepted>>
  PROVE  PlayProofInv'
<1>1. RuleOK /\ Table
  BY TypeFacts DEF PlayProofInv
<1>2. /\ status' = "finished" /\ player' = pl /\ winner' \in players
      /\ WinnerIsRight' /\ pl \in [players -> PlayerType]
  BY <1>1, FinalizeRight DEF Rankable
<1>3. players' = players
  BY <1>2 DEF players
<1>4. TypeOK'
  BY <1>2, <1>3, TypeOfSameTime DEF PlayProofInv, TypeOK
<1>5. Ledger'
  BY <1>2, <1>3 DEF PlayProofInv, Ledger, SameBudget
<1>6. DecidedIsOver'
  BY <1>2 DEF DecidedIsOver
<1> QED  BY <1>2, <1>4, <1>5, <1>6 DEF PlayProofInv

LEMMA TypeTooLateStep ==
  ASSUME PlayProofInv, TypeTooLate
  PROVE  PlayProofInv'
<1>1. Rankable(player)
  BY TypeFacts DEF PlayProofInv, TypeTooLate, Rankable, Table
<1> QED  BY <1>1, EndStep DEF TypeTooLate, SameBudget

LEMMA ForfeitStep ==
  ASSUME PlayProofInv, NEW S \in SUBSET (players \ {Com}), Forfeit(S)
  PROVE  PlayProofInv'
<1> DEFINE gone == [g \in players |->
                      IF g \in S THEN [player[g] EXCEPT !.finish = "forfeited"]
                      ELSE player[g]]
           pl == FinalizeUnfinishedBots(gone)
<1>1. Table /\ RuleOK /\ DecidedIsOver /\ status = "playing" /\ S # {}
  BY TypeFacts DEF PlayProofInv, Forfeit
<1>2. ASSUME NEW g \in players
      PROVE  /\ pl[g] \in PlayerType /\ SameBudget(player[g], pl[g])
             /\ g \in S => pl[g].finish = "forfeited"
             /\ pl[g].finish # "finished"
             /\ pl[g].progress = player[g].progress
  <2>1. player[g] \in PlayerType /\ player[g].finish = "undefined"
    BY <1>1 DEF Table, DecidedIsOver
  <2>2. /\ gone[g] \in PlayerType /\ SameBudget(player[g], gone[g])
        /\ gone[g].finish = (IF g \in S THEN "forfeited" ELSE "undefined")
        /\ gone[g].progress = player[g].progress
    BY <2>1 DEF PlayerType, Finishes, SameBudget
  <2>3. DOMAIN gone = players
    OBVIOUS
  <2> HIDE DEF gone
  <2>4. pl[g] = IF g = Com /\ gone[g].progress < PromptLength
                THEN [gone[g] EXCEPT !.finish = "unfinished"] ELSE gone[g]
    BY <2>3 DEF FinalizeUnfinishedBots
  <2> QED  BY <2>2, <2>4 DEF PlayerType, Finishes, SameBudget
<1>3. pl \in [players -> PlayerType]
  BY <1>2 DEF FinalizeUnfinishedBots
<1> HIDE DEF pl
<1>4. Rankable(pl)
  <2>1. \A g, h \in players :
          g # h /\ ~Forfeited(pl[g]) /\ ~Forfeited(pl[h]) => FALSE
    BY <1>1, <1>2, TwoAtATable DEF Forfeited
  <2> QED  BY <1>1, <1>2, <1>3, <2>1 DEF Rankable, OneFinisher, DecidedIsOver
<1> QED  BY <1>2, <1>4, EndStep DEF Forfeit, pl

LEMMA HandleExpirationsStep ==
  ASSUME PlayProofInv, HandleExpirations
  PROVE  PlayProofInv'
<1>1. Table /\ RuleOK /\ DecidedIsOver /\ status = "playing"
  BY TypeFacts DEF PlayProofInv, HandleExpirations
<1> DEFINE tied == rule = "hpBattle" /\ \A g, h \in players : player[g].hp = player[h].hp
<1>2. CASE tied
  <2>1. UNCHANGED <<rule, status, now, player, winner, accepted, players>>
        /\ suddenDeath' = TRUE /\ matchEndsAt' = 0
    BY <1>2 DEF HandleExpirations, players
  <2>2. TypeOK'
    BY <2>1, TypeOfSameTime DEF PlayProofInv, TypeOK
  <2>3. Ledger' /\ DecidedIsOver' /\ WinnerIsRight'
    BY <2>1, <1>1 DEF PlayProofInv, Ledger, DecidedIsOver, WinnerIsRight
  <2> QED  BY <2>2, <2>3 DEF PlayProofInv
<1>3. CASE ~tied
  <2> DEFINE pl == FinalizeUnfinishedBots(player)
  <2>1. ASSUME NEW g \in players
        PROVE  /\ pl[g] \in PlayerType /\ SameBudget(player[g], pl[g])
               /\ pl[g].finish # "finished"
               /\ pl[g].progress = player[g].progress /\ pl[g].hp = player[g].hp
    <3>1. player[g] \in PlayerType /\ player[g].finish = "undefined"
      BY <1>1 DEF Table, DecidedIsOver
    <3>2. pl[g] = IF g = Com /\ player[g].progress < PromptLength
                  THEN [player[g] EXCEPT !.finish = "unfinished"] ELSE player[g]
      BY DEF FinalizeUnfinishedBots, players
    <3> HIDE DEF pl
    <3> QED  BY <3>1, <3>2 DEF PlayerType, Finishes, SameBudget
  <2>2. pl \in [players -> PlayerType]
    BY <2>1 DEF FinalizeUnfinishedBots, players
  <2> HIDE DEF pl
  <2>3. Rankable(pl)
    <3>1. rule = "hpBattle" => \A g, h \in players : g # h => pl[g].hp # pl[h].hp
      BY <1>3, <2>1, <1>1, TwoAtATable
    <3> QED  BY <1>1, <2>1, <2>2, <3>1 DEF Rankable, OneFinisher, DecidedIsOver
  <2>4. FinalizeRoom(pl) /\ UNCHANGED <<rule, now, matchEndsAt, suddenDeath, accepted>>
    BY <1>3 DEF HandleExpirations, pl
  <2> QED  BY <2>1, <2>3, <2>4, EndStep
<1> QED  BY <1>2, <1>3

LEMMA TickStep ==
  ASSUME PlayProofInv, Tick
  PROVE  PlayProofInv'
<1>1. PlayerType \subseteq PlayerType'
  <2>1. Furthest' = Furthest /\ 0..now \subseteq 0..now'
    BY TypeFacts DEF PlayProofInv, Tick, Furthest, RuleOK
  <2> QED  BY <2>1 DEF PlayerType
<1>2. players' = players /\ UNCHANGED <<rule, status, matchEndsAt, suddenDeath,
                                        player, accepted, winner>>
  BY DEF Tick, players
<1>3. now' \in 0..MaxTime
  BY DEF Tick, PlayProofInv, TypeOK
<1>4. TypeOK'
  BY <1>1, <1>2, <1>3 DEF PlayProofInv, TypeOK
<1>5. Ledger' /\ DecidedIsOver' /\ WinnerIsRight'
  BY <1>2 DEF PlayProofInv, Ledger, DecidedIsOver, WinnerIsRight, Tick
<1> QED  BY <1>4, <1>5 DEF PlayProofInv

LEMMA PlayInit == Init => PlayProofInv
<1> SUFFICES ASSUME Init PROVE PlayProofInv
  OBVIOUS
<1>1. PICK room \in Rooms :
        player = [g \in room |-> NewPlayer] /\ accepted = [g \in room |-> 0]
  BY DEF Init
<1>2. players = room
  BY <1>1 DEF players
<1>3. NewPlayer \in PlayerType /\ NewPlayer.tokens = Burst
      /\ NewPlayer.refilledAt = 0 /\ NewPlayer.finish = "undefined"
      /\ NewPlayer.hp = MaxHp /\ NewPlayer.progress = 0
  BY FurthestIs DEF Init, NewPlayer, PlayerType, Finishes, RuleOK
<1>4. TypeOK
  <2>1. player \in [players -> PlayerType] /\ accepted \in [players -> Nat]
    BY <1>1, <1>2, <1>3
  <2>2. now \in 0..MaxTime /\ matchEndsAt \in {0, Duration}
    BY DEF Init
  <2> QED  BY <1>2, <2>1, <2>2 DEF Init, TypeOK
<1>5. Ledger
  BY <1>1, <1>2, <1>3 DEF Ledger
<1>6. DecidedIsOver /\ WinnerIsRight
  BY <1>1, <1>2, <1>3 DEF Init, DecidedIsOver, WinnerIsRight
<1> QED  BY <1>4, <1>5, <1>6 DEF PlayProofInv

LEMMA PlayNext == PlayProofInv /\ [Next]_vars => PlayProofInv'
<1> SUFFICES ASSUME PlayProofInv, [Next]_vars PROVE PlayProofInv'
  OBVIOUS
<1>1. CASE UNCHANGED vars
  <2>1. UNCHANGED <<players, PlayerType>>
    BY <1>1 DEF vars, players, PlayerType, Furthest
  <2> QED  BY <1>1, <2>1 DEF vars, PlayProofInv, TypeOK, Ledger, DecidedIsOver,
                WinnerIsRight, Stayed
<1> QED  BY <1>1, TypeStep, TypeTooLateStep, BotHitsStep, BotErrsStep, ForfeitStep,
            HandleExpirationsStep, TickStep DEF Next

LEMMA PlayInvariant == Spec => []PlayProofInv
  BY PlayInit, PlayNext, PTL DEF Spec

\* Whatever is typed, however fast and in however many messages: every value
\* stays within its bounds, the typing budget holds, and a decided match is over.
THEOREM PlayIsSound == Spec => []PlayInv
<1>1. PlayProofInv => PlayInv
  <2> SUFFICES ASSUME PlayProofInv PROVE BudgetHolds
    BY DEF PlayProofInv, PlayInv
  <2> SUFFICES ASSUME NEW g \in players PROVE accepted[g] <= Burst + Rate * now
    BY DEF BudgetHolds
  <2>1. Refilled(player[g]) \in Nat
        /\ accepted[g] + Refilled(player[g]) <= Burst + Rate * now
    BY RefilledBounds DEF PlayProofInv
  <2>2. accepted[g] \in Nat /\ now \in Nat
    BY TypeFacts DEF PlayProofInv, RuleOK
  <2> QED  BY <2>1, <2>2
<1> QED  BY <1>1, PlayInvariant, PTL

\* The winner is the one the rule names, in a match of two with any prompt,
\* any hp and any speed.
THEOREM WinnerIsAlwaysRight == Spec => []WinnerIsRight
<1>1. PlayProofInv => WinnerIsRight
  BY DEF PlayProofInv
<1> QED  BY <1>1, PlayInvariant, PTL

=============================================================================
