--------------------------- MODULE MCRoomSelection ---------------------------
EXTENDS RoomSelection

CONSTANTS club, choir, made1, made2, made3, demoRoom, nothing

MCInviteRooms == {club, choir}
MCNewRooms == {made1, made2, made3}

=============================================================================
