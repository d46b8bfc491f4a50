-------------------------- MODULE MCAndroidAccounts --------------------------
EXTENDS AndroidAccounts, FiniteSets, TLC

CONSTANTS alice, bob, nobody, r1, r2, c1, c2, w1, a1, older

MCAccounts == {alice, bob}
OneRoom == {r1}
TwoRooms == {r1, r2}
OneConnection == {c1}
TwoConnections == {c1, c2}
MCWorkers == {w1}
MCAdders == {a1}

(* Once a coroutine has strayed, nothing the run checks is claimed; and    *)
(* the user removes one room.                                              *)
Bounded == ~strayed /\ Cardinality(removed) <= 1

MCSymmetry == Permutations(Accounts) \cup Permutations(Rooms) \cup Permutations(Connections)

=============================================================================
