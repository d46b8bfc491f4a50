-------------------------- MODULE MCEngineLifecycle --------------------------
EXTENDS EngineLifecycle

CONSTANTS alice, bob, nobody

MCProfiles == {alice, bob}

=============================================================================
