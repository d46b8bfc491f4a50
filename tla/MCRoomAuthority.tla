-------------------------- MODULE MCRoomAuthority --------------------------
EXTENDS RoomAuthority

CONSTANTS owner, alice, bob, nobody, m1

MCNodes == {owner, alice, bob}
MCNewcomers == {bob}
MCModerators == {alice}
MCMessages == {m1}

=============================================================================
