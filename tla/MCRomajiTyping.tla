--------------------------- MODULE MCRomajiTyping ---------------------------
(* Small instances of RomajiTyping for TLC.  The texts hold a digraph, a   *)
(* small tsu and an n before a vowel, a digraph, a kana with two readings  *)
(* and the end of the text, and the long vowel mark.                       *)
EXTENDS RomajiTyping

TypingMatches ==
  {<<"race", <<t>>>> : t \in { <<"KA","SHI","YA">>, <<"N","U">>, <<"TSU","SHI","YA">>,
                               <<"TSU","YA","WO">>, <<"N","KA","CHOON">> }}
  \union {<<"hpBattle", <<t>>>> : t \in {<<"SHI","YA","N">>, <<"WO","TSU","CHOON">>}}
  \union {<<"timeAttack", << <<"SHI","YA","N">>, <<"U","TSU">>, <<"WO">> >> >>}

=============================================================================
