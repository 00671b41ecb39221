-------------------------- MODULE MCRoomAuthority --------------------------
(* Small instances of RoomAuthority for TLC.                               *)
EXTENDS RoomRefinement

CONSTANTS a, b, a1, a2, b1

\* a has two connections, so that one can replace the other
TwoGuests        == {a, b}
ReconnectSockets == {a1, a2, b1}
ReconnectOwner   == [s \in ReconnectSockets |-> IF s = b1 THEN b ELSE a]

\* one connection per guest
PlainSockets == {a1, b1}
PlainOwner   == [s \in PlainSockets |-> IF s = a1 THEN a ELSE b]

RaceOnly   == {"race"}
AllRules   == {"race", "timeAttack", "hpBattle"}

=============================================================================
