---------------------------- MODULE MCAndroidRoom ----------------------------
EXTENDS AndroidRoom, TLC

CONSTANTS e1, e2, k1, k2, k3

OneEvent == {e1}
TwoEvents == {e1, e2}
TwoCoroutines == {k1, k2}
ThreeCoroutines == {k1, k2, k3}

MCSymmetry == Permutations(Events) \cup Permutations(Coroutines)

=============================================================================
