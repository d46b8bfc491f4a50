------------------------- MODULE MCEnginePersistence -------------------------
EXTENDS EnginePersistence

CONSTANTS alice, bob, nobody

MCProfiles == {alice, bob}

=============================================================================
