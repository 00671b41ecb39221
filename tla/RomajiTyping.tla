---------------------------- MODULE RomajiTyping ----------------------------
(***************************************************************************)
(* What a keystroke does to a player's position, computed twice: by the    *)
(* room authority (applyTypingInput, applyTimeAttackTyping) and, ahead of  *)
(* it, by the browser (advanceTypingProgress).  A text is typed as kana or *)
(* as romaji, and the player may change over while typing.  The authority  *)
(* keeps a position in the kana and one in the romaji guide; the browser   *)
(* keeps one number, in the coordinate of the current input mode, which    *)
(* it converts when the mode changes.                                      *)
(*                                                                         *)
(* A kana is a string, a spelling a sequence of letters.  The tables hold  *)
(* one entry of every kind the source's tables have.  Delivery is left to  *)
(* TypingSync: here every message arrives.                                 *)
(***************************************************************************)
EXTENDS Integers, Sequences, SequencesExt, FiniteSets

CONSTANTS
  Matches,        \* <<match rule, texts>>: one text, several in a time attack
  MaxText,        \* bound: characters in one message
  MaxCounted,     \* bound: kana a player gets through in a looping match
  SwitchAnywhere  \* the input mode may change to kana inside a digraph

ASSUME RomajiAssumption ==
  /\ \A m \in Matches : m[1] \in {"race", "timeAttack", "hpBattle"}
                        /\ m[2] # <<>> /\ \A i \in DOMAIN m[2] : m[2][i] # <<>>
  /\ MaxText \in Nat \ {0} /\ MaxCounted \in Nat
  /\ SwitchAnywhere \in BOOLEAN

VARIABLES
  match,   \* the rule and the romaji plans of the texts of the match
  server,  \* progressIndex, typingProgressIndex, pendingInput, inputMode of
           \* the player, and the kana counted for them so far
  client   \* localProgress and inputModeRef of the page

vars == <<match, server, client>>

-----------------------------------------------------------------------------
(* The romaji plan of a text.                                              *)

\* BASIC_KANA_MAP, and PUNCTUATION_MAP for the long vowel mark
Basic == [U     |-> << <<"u">> >>,
          KA    |-> << <<"k","a">> >>,
          SHI   |-> << <<"s","h","i">>, <<"s","i">> >>,
          WO    |-> << <<"w","o">>, <<"o">> >>,
          YA    |-> << <<"x","y","a">>, <<"l","y","a">> >>,
          CHOON |-> << <<"-">>, <<"CHOON">> >>]
Digraphs == [pair \in {<<"SHI","YA">>} |->
               << <<"s","h","a">>, <<"s","y","a">>, <<"s","h","y","a">> >>]
Letters == {"a","h","i","k","l","n","o","s","t","u","w","x","y"}

\* A glyph is a sequence of one kana, or two that are typed as one
Options(glyph) ==
  IF glyph \in DOMAIN Digraphs THEN Digraphs[glyph]
  ELSE IF glyph[1] \in DOMAIN Basic THEN Basic[glyph[1]] ELSE <<glyph>>

Tokens(text) ==
  LET from[i \in 1..Len(text) + 2] ==
        IF i > Len(text) THEN <<>>
        ELSE IF i < Len(text) /\ SubSeq(text, i, i + 1) \in DOMAIN Digraphs
             THEN <<SubSeq(text, i, i + 1)>> \o from[i + 2]
             ELSE <<SubSeq(text, i, i)>> \o from[i + 1]
  IN from[1]

\* The small tsu is typed by the first letter of what follows
SokuonUnit(next) ==
  LET leads == IF next = <<>> THEN <<>>
               ELSE SelectSeq([i \in DOMAIN Options(next) |-> Head(Options(next)[i])],
                              LAMBDA c : c \in Letters)
      guide == IF leads = <<>> THEN <<"x","t","u">> ELSE <<Head(leads)>>
  IN [kana |-> 1, guide |-> guide,
      accepted |-> {guide, <<"x","t","u">>, <<"l","t","s","u">>}
                     \union {<<c>> : c \in ToSet(leads)}]

\* An n is doubled where a single one would run into the next kana
NUnit(next) ==
  LET doubled == next # <<>> /\ Head(Options(next)[1]) \in {"a","i","u","e","o","y"}
      guide == IF doubled THEN <<"n","n">> ELSE <<"n">>
  IN [kana |-> 1, guide |-> guide, accepted |-> {guide, <<"x","n">>, <<"n","'">>}]

Unit(glyph, next) ==
  CASE glyph = <<"TSU">> -> SokuonUnit(next)
    [] glyph = <<"N">>   -> NUnit(next)
    [] OTHER -> [kana |-> Len(glyph), guide |-> Options(glyph)[1],
                 accepted |-> ToSet(Options(glyph))]

Units(text) ==
  LET glyphs == Tokens(text)
  IN [i \in DOMAIN glyphs |->
        Unit(glyphs[i], IF i < Len(glyphs) THEN glyphs[i + 1] ELSE <<>>)]

\* Where the units begin and end, in letters of the guide and in kana
SumUpTo(f, k) == FoldLeft(LAMBDA x, y : x + y, 0, SubSeq(f, 1, k))
PlanOf(text) ==
  LET units == Units(text)
      n == Len(units)
  IN [text |-> text, units |-> units,
      guideAt |-> [k \in 0..n |-> SumUpTo([i \in 1..n |-> Len(units[i].guide)], k)],
      kanaAt  |-> [k \in 0..n |-> SumUpTo([i \in 1..n |-> units[i].kana], k)]]

PlansOf(texts) == [i \in DOMAIN texts |-> PlanOf(texts[i])]

GuideLength(plan) == plan.guideAt[Len(plan.units)]
KanaLength(plan)  == Len(plan.text)

\* Units that lie wholly before a position
DoneAtGuide(plan, g) == Cardinality({i \in DOMAIN plan.units : plan.guideAt[i] <= g})
DoneAtKana(plan, k)  == Cardinality({i \in DOMAIN plan.units : plan.kanaAt[i] <= k})

\* getCanonicalProgressForRomajiGuide and its inverse up to whole units
KanaOfGuide(plan, g, loop) ==
  IF loop THEN (g \div GuideLength(plan)) * KanaLength(plan)
               + plan.kanaAt[DoneAtGuide(plan, g % GuideLength(plan))]
  ELSE plan.kanaAt[DoneAtGuide(plan, g)]
GuideOfKana(plan, k, loop) ==
  IF loop THEN (k \div KanaLength(plan)) * GuideLength(plan)
               + plan.guideAt[DoneAtKana(plan, k % KanaLength(plan))]
  ELSE plan.guideAt[DoneAtKana(plan, k)]

-----------------------------------------------------------------------------
(* One character.                                                          *)

\* advanceProgress: kana are compared one by one
KanaHit(plan, at, ch) == at < KanaLength(plan) /\ plan.text[at + 1] = ch

\* advanceRomajiProgress: a letter has to continue an accepted spelling of
\* the current unit, and a whole spelling completes it
AdvanceRomaji(plan, p, ch) ==
  LET unit == plan.units[DoneAtGuide(plan, p.index) + 1]
      next == Append(p.pending, ch)
  IN IF \/ DoneAtGuide(plan, p.index) = Len(plan.units)
        \/ ~\E spelling \in unit.accepted : IsPrefix(next, spelling)
     THEN p
     ELSE IF next \in unit.accepted
          THEN [p EXCEPT !.index = @ + Len(unit.guide), !.pending = <<>>]
          ELSE [p EXCEPT !.pending = next]

KanaKeys == {"U","KA","SHI","WO","YA","TSU","N","CHOON"}
ModeOf(current, text) ==
  IF ToSet(text) \intersect KanaKeys # {} THEN "kana"
  ELSE IF ToSet(text) \intersect Letters # {} THEN "romaji" ELSE current

-----------------------------------------------------------------------------
(* The texts of the match, one after another in a time attack.             *)

Rule == match[1]
Loops == Rule = "hpBattle"
PlanAt(i) == match[2][i]
First == PlanAt(1)
Last_ == Len(match[2])

KanaBase(i)  == SumUpTo([j \in 1..Last_ |-> KanaLength(PlanAt(j))], i - 1)
GuideBase(i) == SumUpTo([j \in 1..Last_ |-> GuideLength(PlanAt(j))], i - 1)

\* getTimeAttackPromptPosition and getTimeAttackPromptPositionByGuide: the
\* last text stays current when it has been typed
PromptAt(k) ==
  CHOOSE i \in 1..Last_ : /\ KanaBase(i) <= k
                          /\ i = Last_ \/ k < KanaBase(i + 1)
PromptAtGuide(g) ==
  CHOOSE i \in 1..Last_ : /\ GuideBase(i) <= g
                          /\ i = Last_ \/ g < GuideBase(i + 1)

-----------------------------------------------------------------------------
(* The room authority.                                                     *)

KanaKey(s, ch) ==
  LET at == IF Loops THEN s.canonical % KanaLength(First) ELSE s.canonical
  IN IF ~KanaHit(First, at, ch) THEN s
     ELSE [s EXCEPT !.canonical = IF Loops THEN (@ + 1) % KanaLength(First) ELSE @ + 1,
                    !.counted = @ + 1]

KanaInput(s, text) ==
  LET t == FoldLeft(KanaKey, s, text)
  IN [t EXCEPT !.guide = GuideOfKana(First, t.canonical, Loops)]

\* Mutant: the kana position, which starts again in each lap, is compared
\* with a target that does not
RomajiKeyAcrossLaps(s, ch) ==
  LET cursor  == IF Loops THEN s.guide % GuideLength(First) ELSE s.guide
      base    == s.guide - cursor
      after   == AdvanceRomaji(First, [index |-> cursor, pending |-> s.pending], ch)
      target  == KanaOfGuide(First, base + after.index, Loops)
  IN IF after.index = cursor THEN [s EXCEPT !.pending = after.pending]
     ELSE [s EXCEPT !.guide = base + after.index,
                    !.pending = after.pending,
                    !.canonical = IF Loops THEN target % KanaLength(First) ELSE target,
                    !.counted = @ + target - s.canonical]

\* A completed unit moves the kana position to its end; the difference is
\* what is counted, as damage in an HP battle
RomajiKey(s, ch) ==
  LET cursor  == IF Loops THEN s.guide % GuideLength(First) ELSE s.guide
      base    == s.guide - cursor
      after   == AdvanceRomaji(First, [index |-> cursor, pending |-> s.pending], ch)
      target  == KanaOfGuide(First, base + after.index, Loops)
      current == IF Loops
                 THEN (base \div GuideLength(First)) * KanaLength(First) + s.canonical
                 ELSE s.canonical
  IN IF after.index = cursor THEN [s EXCEPT !.pending = after.pending]
     ELSE [s EXCEPT !.guide = base + after.index,
                    !.pending = after.pending,
                    !.canonical = IF Loops THEN target % KanaLength(First) ELSE target,
                    !.counted = @ + target - current]

TimeAttackKey(s, ch) ==
  LET i     == PromptAt(s.canonical)
      plan  == PlanAt(i)
      local == s.canonical - KanaBase(i)
      from  == s.guide - GuideBase(i)
      after == AdvanceRomaji(plan, [index |-> from, pending |-> s.pending], ch)
      target == KanaBase(i) + KanaOfGuide(plan, after.index, FALSE)
      done  == IF KanaHit(plan, local, ch) THEN s.canonical + 1 ELSE s.canonical
      j     == PromptAt(done)
  IN IF s.mode = "kana"
     THEN [s EXCEPT !.canonical = done, !.counted = @ + done - s.canonical,
                    !.guide = GuideBase(j) + GuideOfKana(PlanAt(j), done - KanaBase(j), FALSE)]
     ELSE IF after.index = from THEN [s EXCEPT !.pending = after.pending]
     ELSE [s EXCEPT !.guide = GuideBase(i) + after.index, !.pending = after.pending,
                    !.canonical = target, !.counted = @ + target - s.canonical]

ApplyTypingInput(s, text) ==
  LET mode == ModeOf(s.mode, text)
      t == [s EXCEPT !.mode = mode,
                     !.pending = IF mode = "kana" THEN <<>> ELSE @]
  IN CASE Rule = "timeAttack" -> FoldLeft(TimeAttackKey, t, text)
       [] Rule # "timeAttack" /\ mode = "kana" -> KanaInput(t, text)
       [] OTHER -> FoldLeft(RomajiKey, t, text)

-----------------------------------------------------------------------------
(* The browser.                                                            *)

\* advanceProgressWithMistakes and advanceLoopingRomajiProgressWithMistakes
LocalKana(plan, loop, p, text) ==
  FoldLeft(LAMBDA q, ch :
             LET at == IF loop THEN q.index % KanaLength(plan) ELSE q.index
             IN IF KanaHit(plan, at, ch) THEN [q EXCEPT !.index = @ + 1] ELSE q,
           p, text)
LocalRomaji(plan, loop, p, text) ==
  FoldLeft(LAMBDA q, ch :
             LET cursor == IF loop THEN q.index % GuideLength(plan) ELSE q.index
                 after  == AdvanceRomaji(plan, [q EXCEPT !.index = cursor], ch)
             IN [after EXCEPT !.index = q.index - cursor + @],
           p, text)

\* The page's conversions always count laps, whether or not the text repeats
CanonicalProgressIndex(plan, g) == KanaOfGuide(plan, g, TRUE)
RomajiProgressIndex(plan, k) == GuideOfKana(plan, k, TRUE)

\* Mutant: letters typed before the change stay pending after it
ConvertedPending(plan, p, from, to) ==
  IF from = to THEN p
  ELSE [p EXCEPT !.index = IF to = "kana" THEN CanonicalProgressIndex(plan, p.index)
                           ELSE RomajiProgressIndex(plan, p.index)]

\* A change of the input mode converts the position first
Converted(plan, p, from, to) ==
  IF from = to THEN p
  ELSE [index |-> IF to = "kana" THEN CanonicalProgressIndex(plan, p.index)
                  ELSE RomajiProgressIndex(plan, p.index),
        pending |-> <<>>]

AdvanceTypingProgress(c, text) ==
  LET mode  == ModeOf(c.mode, text)
      i     == IF Rule # "timeAttack" THEN 1
               ELSE IF c.mode = "kana" THEN PromptAt(c.index) ELSE PromptAtGuide(c.index)
      plan  == PlanAt(i)
      base(m) == IF m = "kana" THEN KanaBase(i) ELSE GuideBase(i)
      local == Converted(plan, [index |-> c.index - base(c.mode), pending |-> c.pending],
                         c.mode, mode)
      next  == IF mode = "kana" THEN LocalKana(plan, Loops, local, text)
               ELSE LocalRomaji(plan, Loops, local, text)
  IN [index |-> next.index + base(mode), pending |-> next.pending, mode |-> mode]

\* The page takes the end of a race from its own position
LocallyFinished ==
  /\ Rule = "race"
  /\ KanaLength(First) <= IF client.mode = "kana" THEN client.index
                          ELSE CanonicalProgressIndex(First, client.index)

\* pickRomajiDisplayCandidate: the spelling shown for the current unit
DisplayCandidates(unit, pending) ==
  LET matches == {s \in unit.accepted : IsPrefix(pending, s)}
  IN IF matches = {} \/ unit.guide \in matches THEN {unit.guide}
     ELSE {s \in matches : \A t \in matches : Len(s) <= Len(t)}

-----------------------------------------------------------------------------
(* Actions.                                                                *)

\* Every key that could matter, and one that never does
Keys == UNION {ToSet(plan.text) \union
                 UNION {UNION {ToSet(s) : s \in unit.accepted} : unit \in ToSet(plan.units)} :
                   plan \in UNION {ToSet(PlansOf(m[2])) : m \in Matches}}
          \union {"q"}
Typable == UNION {[1..n -> Keys] : n \in 1..MaxText}

\* In a time attack a message is one character: the two sides treat the rest
\* of a longer one differently when it crosses the end of a text
Messages == IF Rule = "timeAttack" THEN {<<k>> : k \in Keys} ELSE Typable

\* Inside a digraph the page forgets half of it when it changes to kana
InsideDigraph ==
  LET i == IF Rule = "timeAttack" THEN PromptAt(server.canonical) ELSE 1
      local == server.canonical - KanaBase(i)
  IN \A u \in DOMAIN PlanAt(i).units \union {0} : PlanAt(i).kanaAt[u] # local

Type(text) ==
  /\ ~LocallyFinished
  /\ server.counted < MaxCounted
  /\ SwitchAnywhere \/ ~(InsideDigraph /\ client.mode = "romaji"
                          /\ ModeOf(client.mode, text) = "kana")
  /\ client' = AdvanceTypingProgress(client, text)
  /\ server' = ApplyTypingInput(server, text)
  /\ UNCHANGED match

\* room:state: with nothing in flight the page takes over what it is sent
View == [index |-> IF server.mode = "romaji" THEN server.guide ELSE server.canonical,
         pending |-> IF server.mode = "romaji" THEN server.pending ELSE <<>>,
         mode |-> server.mode]
ReconcileRoomProgress ==
  /\ client # View
  /\ client' = View
  /\ UNCHANGED <<match, server>>

\* The input mode a device starts in: mobile in kana, desktop in romaji
Init ==
  /\ \E m \in Matches : match = <<m[1], PlansOf(m[2])>>
  /\ \E mode \in {"kana", "romaji"} :
       /\ server = [canonical |-> 0, guide |-> 0, pending |-> <<>>,
                    mode |-> mode, counted |-> 0]
       /\ client = [index |-> 0, pending |-> <<>>, mode |-> mode]

Next == (\E text \in Messages : Type(text)) \/ ReconcileRoomProgress

Spec == Init /\ [][Next]_vars

-----------------------------------------------------------------------------
(* Properties.                                                             *)

TypeOK ==
  /\ server.canonical \in 0..KanaBase(Last_ + 1)
  /\ server.mode \in {"kana", "romaji"}
  /\ server.guide \in Nat /\ client.index \in Nat
  /\ server.mode = "kana" => server.pending = <<>>

\* In which lap a looping match is makes no difference to what is shown
Same(x, y, length) == IF Loops THEN x % length = y % length ELSE x = y

\* Whatever mixture of kana and romaji is typed, the position the page shows
\* is the one the room authority counts, and both wait for the same letters:
\* otherwise the player is asked for a key the server calls a mistake
Agree ==
  /\ client.mode = server.mode /\ client.pending = server.pending
  /\ IF client.mode = "kana" THEN Same(client.index, server.canonical, KanaLength(First))
     ELSE Same(client.index, server.guide, GuideLength(First))

\* The two positions of the authority never drift apart: the guide stands at
\* the unit that holds the next kana
CoordinatesMatch ==
  LET i == IF Rule = "timeAttack" THEN PromptAt(server.canonical) ELSE 1
  IN Same(server.guide, GuideBase(i)
            + GuideOfKana(PlanAt(i), server.canonical - KanaBase(i), FALSE),
          GuideLength(First))

\* Letters already taken never lead into a dead end: the hint on the screen
\* starts with them and goes on
NeverStuck ==
  LET i == IF Rule = "timeAttack" THEN PromptAt(server.canonical) ELSE 1
      at == IF Loops THEN server.guide % GuideLength(First) ELSE server.guide - GuideBase(i)
      u == DoneAtGuide(PlanAt(i), at) + 1
  IN IF u > Len(PlanAt(i).units) THEN server.pending = <<>>
     ELSE \A s \in DisplayCandidates(PlanAt(i).units[u], client.pending) :
            IsStrictPrefix(server.pending, s)

\* The page stops taking input at the end of a race exactly when the room
\* authority has the whole text: earlier or later the race would not end
FinishIsShared ==
  Rule = "race" => (LocallyFinished <=> server.canonical = KanaLength(First))

\* Positions of both sides, the guide and the end of the text fit together at
\* every moment
PositionInv == TypeOK /\ Agree /\ CoordinatesMatch /\ NeverStuck /\ FinishIsShared

\* Every kana is counted once, in whatever pieces it is typed and however
\* often the mode changes, also from one lap of an HP battle to the next: a
\* message counts as far as it moves the player, and a key moves a player
\* past at most the two kana of a digraph
CountedOnce ==
  [][LET counted == server'.counted - server.counted
         moved   == server'.canonical - server.canonical
     IN /\ counted \in 0..2 * MaxText
        /\ IF Loops THEN (counted - moved) % KanaLength(First) = 0 ELSE counted = moved]_vars

=============================================================================
