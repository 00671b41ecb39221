--------------------------- MODULE MCLocalRecords ---------------------------
(* A small instance of LocalRecords for TLC: two tabs, one practice, two   *)
(* daily runs, one match and one cosmetic.                                 *)
EXTENDS LocalRecords, TLC

CONSTANTS t1, t2, practice, daily1, daily2, match, hat, noPlay, noItem

TwoTabs      == {t1, t2}
OnePractice  == {practice}
TwoDailies   == {daily1, daily2}
OneMatch     == {match}
Hat          == {hat}
HatPrice     == [i \in Hat |-> 30]

HowTyped     == [k \in OnePractice \cup TwoDailies |->
                   IF k = practice THEN {"plain"} ELSE {"plain", "perfect"}]
OneResult    == {[completed |-> TRUE, won |-> TRUE, quality |-> "accurate"]}

TabsAreAlike == Permutations(TwoTabs) \cup Permutations(TwoDailies)

=============================================================================
