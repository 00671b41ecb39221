---------------------------- MODULE MCPageSession ---------------------------
(* A small instance of PageSession for TLC: two rooms, two attempts to     *)
(* come back, two rounds.                                                  *)
EXTENDS PageSession

CONSTANTS roomA, roomB, none, practice

TwoRooms == {roomA, roomB}

=============================================================================
