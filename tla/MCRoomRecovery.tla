--------------------------- MODULE MCRoomRecovery ---------------------------
(* Small instances of RoomRecovery for TLC: one connection per guest.      *)
EXTENDS RoomRecovery

CONSTANTS a, b, a1, b1

TwoGuests  == {a, b}
TwoSockets == {a1, b1}
OwnerOf    == [s \in TwoSockets |-> IF s = a1 THEN a ELSE b]
RaceOnly   == {"race"}

=============================================================================
