----------------------------- MODULE MCMatchPlay -----------------------------
(* A small instance of MatchPlay for TLC: two humans, or one and the COM    *)
(* player.                                                                  *)
EXTENDS MatchPlay

CONSTANTS a, b

TwoPlayers == {{a, b}, {a, Com}}

=============================================================================
