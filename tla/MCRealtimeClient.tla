-------------------------- MODULE MCRealtimeClient --------------------------
(* A small instance of RealtimeClient for TLC: a create, a join and a      *)
(* practice request, which are replayed, and a command, which is not.      *)
EXTENDS RealtimeClient

CONSTANTS create, join, practice, command

FourRequests == {create, join, practice, command}
Replayed     == {create, join, practice}

\* The practice request is the large one: it displaces two others.
SizeOf == [r \in FourRequests |-> IF r = practice THEN 3 ELSE 1]

=============================================================================
