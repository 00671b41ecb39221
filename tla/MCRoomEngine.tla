---------------------------- MODULE MCRoomEngine ----------------------------
(* Small instances of RoomEngine for TLC.                                  *)
EXTENDS RoomEngine

CONSTANTS a, b, a1, a2, b1, c1, p1, p2, p3

\* a has two sockets, so that one can replace the other
EngineGuests  == {a, b}
EngineSockets == {a1, a2, b1}
EngineOwner   == [s \in EngineSockets |-> IF s = b1 THEN b ELSE a]
EngineCodes   == {c1}

EngineRules      == {"race", "timeAttack", "hpBattle"}
EngineCategories == {"standard"}
EnginePrompts    == [k \in EngineCategories |-> {p1, p2}]

=============================================================================
