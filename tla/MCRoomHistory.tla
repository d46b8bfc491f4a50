--------------------------- MODULE MCRoomHistory ---------------------------
EXTENDS RoomHistory, TLC

CONSTANTS owner, replica, e1, e2, e3, e4

Owner == {owner}
OwnerAndReplica == {owner, replica}

ThreeEvents == {e1, e2, e3}
FourEvents == {e1, e2, e3, e4}

EventSymmetry == Permutations(Events)

(* For runs in which every node publishes: nothing tells them apart.       *)
NodeAndEventSymmetry == Permutations(Nodes) \cup Permutations(Events)

(* Operations waiting at one engine, beside the one it works on.           *)
MaxWaiting == 2
QueueBounded == \A n \in Nodes : Len(ops[n]) <= MaxWaiting

=============================================================================
