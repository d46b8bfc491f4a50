------------------------ MODULE RoomReachabilityProofs ------------------------
(***************************************************************************)
(* Proofs about RoomReachability for every failure limit and queue bound.  *)
(***************************************************************************)
EXTENDS RoomReachability, TLAPS

Consistent(r) == r.suspended <=> r.failures = MaxFailures

(* Every copy of the room that may be written back agrees with itself.     *)
CopiesConsistent ==
  /\ Consistent(copy)
  /\ Consistent(stored)
  /\ \A i \in DOMAIN ops : Consistent(ops[i].copy)

(* A sync works from a copy that is not paused.                            *)
SyncUnpaused == pc = "sync" => ~copy.suspended

(* The counter never runs ahead of the failures in a row, but while a sync *)
(* has put an older one back, or after toggle_replica or a reconnect has.  *)
CounterByStreak == restored = {} /\ pc # "synced" => room.failures <= streak

(* A reconnect clears the rooms without a client.                          *)
ConnectDrops == pc \in {"connect", "load"} => ~connected

ReachabilityInv ==
  /\ TypeOK
  /\ PausedAtLimit
  /\ CopiesConsistent
  /\ SyncUnpaused
  /\ CounterByStreak
  /\ PausedByStreak
  /\ ConnectDrops

-----------------------------------------------------------------------------
(* A room with nothing against it.                                         *)
LEMMA ReachableRoom ==
  /\ Reachable \in Rooms
  /\ ~Reachable.suspended
  /\ Reachable.failures = 0
  /\ Consistent(Reachable)
BY ReachabilityAssumption DEF Reachable, Rooms, Consistent

(* note_room_failure and note_room_success, on any room of the right type. *)
LEMMA NoteKeeps ==
  ASSUME room \in Rooms, streak \in 0..MaxFailures, restored \subseteq {"toggle_replica", "connect"},
         PausedAtLimit, PausedByStreak, NoteFailure \/ NoteSuccess
  PROVE  /\ room' \in Rooms
         /\ streak' \in 0..MaxFailures
         /\ restored' \subseteq {"toggle_replica", "connect"}
         /\ PausedAtLimit'
<1> USE ReachabilityAssumption DEF Rooms, PausedAtLimit, Paused
<1>1. CASE NoteFailure /\ room.suspended
  BY <1>1 DEF NoteFailure
<1>2. CASE NoteFailure /\ ~room.suspended
  <2> DEFINE n == IF room.failures < MaxFailures THEN room.failures + 1 ELSE MaxFailures
  <2>1. n \in 0..MaxFailures
    OBVIOUS
  <2>2. /\ room' = [suspended |-> n >= MaxFailures, failures |-> n, error |-> TRUE]
        /\ streak' \in 0..MaxFailures
        /\ restored' = restored
    BY <1>2 DEF NoteFailure
  <2> HIDE DEF n
  <2>3. CASE n >= MaxFailures
    <3>1. room' = [suspended |-> TRUE, failures |-> n, error |-> TRUE]
      BY <2>2, <2>3
    <3> QED
      BY <2>1, <2>2, <2>3, <3>1
  <2>4. CASE ~(n >= MaxFailures)
    <3>1. (n >= MaxFailures) = FALSE
      BY <2>4
    <3>2. room' = [suspended |-> FALSE, failures |-> n, error |-> TRUE]
      BY <2>2, <3>1, Zenon
    <3> QED
      BY <2>1, <2>2, <2>4, <3>2
  <2> QED
    BY <2>3, <2>4
<1>3. CASE NoteSuccess
  <2>1. CASE room.suspended
    BY <1>3, <2>1 DEF NoteSuccess
  <2>2. CASE ~room.suspended
    <3>1. room' = Reachable /\ streak' = 0 /\ restored' = {}
      BY <1>3, <2>2 DEF NoteSuccess
    <3> QED
      BY <3>1, ReachableRoom DEF Consistent
  <2> QED
    BY <2>1, <2>2
<1> QED
  BY <1>1, <1>2, <1>3

(* A failure that is counted lengthens the streak by one.                  *)
LEMMA FailureCounts ==
  ASSUME room \in Rooms, streak \in 0..MaxFailures, PausedAtLimit, PausedByStreak,
         restored = {} => room.failures <= streak, NoteFailure
  PROVE  /\ restored' = {} => room'.failures <= streak'
         /\ PausedByStreak'
BY ReachabilityAssumption DEF Rooms, PausedAtLimit, PausedByStreak, Paused, NoteFailure

(* A success leaves a pause alone, and counts nothing otherwise.           *)
LEMMA SuccessClears ==
  ASSUME room \in Rooms, streak \in 0..MaxFailures, PausedAtLimit, PausedByStreak, NoteSuccess
  PROVE  /\ restored' = {} => room'.failures <= streak'
         /\ PausedByStreak'
BY ReachabilityAssumption DEF Rooms, PausedAtLimit, PausedByStreak, Reachable, NoteSuccess

LEMMA InitReachabilityInv == Init => ReachabilityInv
<1> SUFFICES ASSUME Init PROVE ReachabilityInv
  OBVIOUS
<1> USE ReachabilityAssumption, ReachableRoom DEF Init
<1>1. TypeOK
  <2>1. ops \in Seq(Operations) /\ Len(ops) <= MaxOps
    OBVIOUS
  <2>2. restored \subseteq {"toggle_replica", "connect"} /\ contacted \in BOOLEAN
    OBVIOUS
  <2>3. op \in Kinds /\ streak \in 0..MaxFailures
    BY DEF Kinds
  <2> QED
    BY <2>1, <2>2, <2>3 DEF TypeOK
<1>2. /\ PausedAtLimit /\ CopiesConsistent /\ SyncUnpaused /\ CounterByStreak /\ PausedByStreak
      /\ ConnectDrops
  BY DEF ConnectDrops, PausedAtLimit, CopiesConsistent, Consistent, SyncUnpaused, CounterByStreak,
         PausedByStreak
<1> QED
  BY <1>1, <1>2 DEF ReachabilityInv

-----------------------------------------------------------------------------
(* The operation thread keeps the invariant.                               *)
LEMMA ThreadKeeps == ReachabilityInv /\ OperationThread => ReachabilityInv'
<1> SUFFICES ASSUME ReachabilityInv, OperationThread
             PROVE  ReachabilityInv'
  OBVIOUS
<1> USE ReachabilityAssumption DEF ReachabilityInv
<1>0. ConnectDrops'
  BY DEF ConnectDrops, TypeOK, OperationThread, Start, FirstStep, ChatRefused, SendSucceeds, SendFails,
         SendUnnoted, SyncReplaces, AfterSync, SyncEnds, SyncFails, ReplicaReplaces, StoreFails,
         ClearRooms, InstallRooms, ConnectFails, SyncAfterConnect, AnnounceJoin, session
<1>1. CASE Start
  <2>1. Head(ops) \in Operations /\ Tail(ops) \in Seq(Operations) /\ Len(Tail(ops)) <= MaxOps
    BY <1>1 DEF Start, TypeOK
  <2>2. \A i \in DOMAIN Tail(ops) : i + 1 \in DOMAIN ops /\ Tail(ops)[i] = ops[i + 1]
    BY <1>1 DEF Start, TypeOK
  <2>3. CopyOf(Head(ops)) \in Rooms /\ Consistent(CopyOf(Head(ops)))
    BY <1>1, <2>1 DEF Start, TypeOK, CopyOf, Operations, CopiesConsistent, Consistent,
                      PausedAtLimit
  <2>4. /\ room' \in Rooms /\ streak' \in 0..MaxFailures /\ PausedAtLimit'
        /\ restored' \subseteq {"toggle_replica", "connect"}
    <3>1. CASE NoteSuccess
      BY <3>1, NoteKeeps DEF TypeOK
    <3>2. CASE UNCHANGED <<room, streak, restored>>
      BY <3>2 DEF TypeOK, PausedAtLimit
    <3> QED
      BY <1>1, <3>1, <3>2 DEF Start
  <2>5. TypeOK'
    <3>1. pc' \in {"idle", "send", "sync", "synced", "store", "connect", "load", "loaded", "announce"}
      <4>1. FirstStep(Head(ops)) \in {"idle", "send", "sync", "store", "connect"}
        BY DEF FirstStep
      <4> QED
        BY <1>1, <4>1 DEF Start
    <3>2. op' \in Kinds
      BY <1>1, <2>1 DEF Start, Operations
    <3>3. connected' \in BOOLEAN /\ (connected' => listed')
      BY <1>1 DEF Start, TypeOK
    <3> QED
      BY <1>1, <2>1, <2>3, <2>4, <3>1, <3>2, <3>3 DEF Start, TypeOK
  <2>6. CopiesConsistent'
    BY <1>1, <2>2, <2>3 DEF Start, CopiesConsistent, Consistent
  <2>7. SyncUnpaused' /\ pc' # "synced"
    <3>1. /\ FirstStep(Head(ops)) = "sync" => ~CopyOf(Head(ops)).suspended
          /\ FirstStep(Head(ops)) # "synced"
      BY <2>1 DEF FirstStep, Operations, Kinds
    <3> QED
      BY <1>1, <3>1 DEF Start, SyncUnpaused
  <2>8. CounterByStreak' /\ PausedByStreak'
    <3>1. CASE NoteSuccess
      BY <3>1, SuccessClears DEF TypeOK, CounterByStreak
    <3>2. CASE UNCHANGED <<room, streak, restored>>
      BY <1>1, <3>2 DEF Start, CounterByStreak, PausedByStreak
    <3> QED
      BY <1>1, <3>1, <3>2 DEF Start
  <2> QED
    BY <1>0, <2>4, <2>5, <2>6, <2>7, <2>8
<1>2. CASE SendSucceeds
  <2>1. TypeOK' /\ PausedAtLimit'
    BY <1>2, NoteKeeps DEF SendSucceeds, TypeOK, session
  <2>2. CounterByStreak' /\ PausedByStreak'
    BY <1>2, SuccessClears DEF SendSucceeds, TypeOK, CounterByStreak
  <2> QED
    BY <1>0, <1>2, <2>1, <2>2 DEF SendSucceeds, CopiesConsistent, Consistent, SyncUnpaused, session
<1>3. CASE SendFails
  <2>1. TypeOK' /\ PausedAtLimit'
    BY <1>3, NoteKeeps DEF SendFails, TypeOK, session
  <2>2. CounterByStreak' /\ PausedByStreak'
    BY <1>3, FailureCounts DEF SendFails, TypeOK, CounterByStreak
  <2> QED
    BY <1>0, <1>3, <2>1, <2>2 DEF SendFails, CopiesConsistent, Consistent, SyncUnpaused, session
<1>4. CASE SyncReplaces
  <2>1. TypeOK'
    BY <1>4 DEF SyncReplaces, Replace, TypeOK, session
  <2>2. PausedAtLimit' /\ CopiesConsistent' /\ SyncUnpaused'
    BY <1>4 DEF SyncReplaces, Replace, PausedAtLimit, CopiesConsistent, Consistent,
                SyncUnpaused, session
  <2>3. CounterByStreak' /\ PausedByStreak'
    BY <1>4 DEF SyncReplaces, Replace, CounterByStreak, PausedByStreak, SyncUnpaused
  <2> QED
    BY <1>0, <2>1, <2>2, <2>3
<1>5. ASSUME AfterSync, room' \in Rooms, streak' \in 0..MaxFailures, PausedAtLimit',
             restored' \subseteq {"toggle_replica", "connect"}, contacted' \in BOOLEAN
      PROVE  TypeOK' /\ CopiesConsistent' /\ SyncUnpaused'
  <2>1. pc' \in {"idle", "send", "announce"}
    BY <1>5 DEF AfterSync
  <2>2. TypeOK'
    BY <1>5, <2>1 DEF AfterSync, TypeOK, session
  <2> QED
    BY <1>0, <1>5, <2>1, <2>2 DEF AfterSync, CopiesConsistent, Consistent, SyncUnpaused,
                            PausedAtLimit, session
<1>6. CASE SyncEnds
  <2>1. /\ room' \in Rooms /\ streak' \in 0..MaxFailures /\ PausedAtLimit'
        /\ restored' \subseteq {"toggle_replica", "connect"}
    BY <1>6, NoteKeeps DEF SyncEnds, TypeOK
  <2>2. TypeOK' /\ CopiesConsistent' /\ SyncUnpaused'
    BY <1>5, <1>6, <2>1 DEF SyncEnds, TypeOK
  <2>3. CounterByStreak' /\ PausedByStreak'
    BY <1>6, SuccessClears DEF SyncEnds, TypeOK, CounterByStreak
  <2> QED
    BY <1>0, <2>1, <2>2, <2>3
<1>7. CASE SyncFails
  <2>1. /\ room' \in Rooms /\ streak' \in 0..MaxFailures /\ PausedAtLimit'
        /\ restored' \subseteq {"toggle_replica", "connect"}
    BY <1>7, NoteKeeps DEF SyncFails, TypeOK
  <2>2. TypeOK' /\ CopiesConsistent' /\ SyncUnpaused'
    BY <1>5, <1>7, <2>1 DEF SyncFails, TypeOK
  <2>3. CounterByStreak' /\ PausedByStreak'
    BY <1>7, FailureCounts DEF SyncFails, TypeOK, CounterByStreak
  <2> QED
    BY <1>0, <2>1, <2>2, <2>3
<1>8. CASE ReplicaReplaces
  <2>1. TypeOK'
    BY <1>8 DEF ReplicaReplaces, Replace, TypeOK, session
  <2>2. PausedAtLimit' /\ CopiesConsistent' /\ SyncUnpaused'
    BY <1>8 DEF ReplicaReplaces, Replace, PausedAtLimit, CopiesConsistent, Consistent,
                SyncUnpaused, session
  <2>3. CounterByStreak' /\ PausedByStreak'
    BY <1>8 DEF ReplicaReplaces, CounterByStreak, PausedByStreak
  <2> QED
    BY <1>0, <2>1, <2>2, <2>3
<1>9. CASE InstallRooms
  <2>1. TypeOK'
    BY <1>9 DEF InstallRooms, TypeOK
  <2>2. PausedAtLimit' /\ CopiesConsistent' /\ SyncUnpaused'
    BY <1>9 DEF InstallRooms, PausedAtLimit, CopiesConsistent, Consistent, SyncUnpaused
  <2>3. CounterByStreak' /\ PausedByStreak'
    BY <1>9 DEF InstallRooms, CounterByStreak, PausedByStreak
  <2> QED
    BY <1>0, <2>1, <2>2, <2>3
<1>10. CASE SyncAfterConnect \/ \E owned \in BOOLEAN : AnnounceJoin(owned)
  <2>1. /\ UNCHANGED <<room, session, ops, op, streak, restored, contacted>>
        /\ copy' = room /\ pc # "synced"
        /\ pc' \in {"announce", "sync", "idle", "send"}
        /\ pc' = "sync" => ~room.suspended
    BY <1>10 DEF SyncAfterConnect, AnnounceJoin
  <2>2. TypeOK'
    BY <2>1 DEF TypeOK, session
  <2> QED
    BY <1>0, <2>1, <2>2 DEF PausedAtLimit, CopiesConsistent, Consistent, SyncUnpaused,
                      CounterByStreak, PausedByStreak, session
<1>11. CASE ClearRooms
  <2>1. TypeOK'
    <3>1. ~connected
      BY <1>11 DEF ClearRooms, ConnectDrops
    <3> QED
      BY <1>11, <3>1 DEF ClearRooms, TypeOK
  <2> QED
    BY <1>0, <1>11, <2>1 DEF ClearRooms, PausedAtLimit, CopiesConsistent, Consistent, SyncUnpaused,
                       CounterByStreak, PausedByStreak
<1>12. CASE StoreFails \/ SendUnnoted \/ ConnectFails
  <2>1. UNCHANGED <<room, session, ops, op, copy, streak, restored, contacted>>
        /\ pc' = "idle" /\ pc # "synced"
    BY <1>12 DEF StoreFails, SendUnnoted, ConnectFails
  <2> QED
    BY <1>0, <2>1 DEF TypeOK, session, PausedAtLimit, CopiesConsistent, Consistent, SyncUnpaused,
                CounterByStreak, PausedByStreak
<1>13. CASE ChatRefused
  <2>1. Tail(ops) \in Seq(Operations) /\ Len(Tail(ops)) <= MaxOps
    BY <1>13 DEF ChatRefused, TypeOK
  <2>2. \A i \in DOMAIN Tail(ops) : i + 1 \in DOMAIN ops /\ Tail(ops)[i] = ops[i + 1]
    BY <1>13 DEF ChatRefused, TypeOK
  <2>3. CopiesConsistent'
    BY <1>13, <2>2 DEF ChatRefused, CopiesConsistent, Consistent, session
  <2> QED
    BY <1>0, <1>13, <2>1, <2>3 DEF ChatRefused, TypeOK, session, PausedAtLimit, SyncUnpaused,
                             CounterByStreak, PausedByStreak
<1> QED
  BY <1>1, <1>2, <1>3, <1>4, <1>6, <1>7, <1>8, <1>9, <1>10, <1>11, <1>12, <1>13
  DEF OperationThread

-----------------------------------------------------------------------------
(* So do the interface and the subscription thread.                        *)
LEMMA OthersKeep ==
  ASSUME ReachabilityInv,
         \/ Save
         \/ \E kind \in Kinds \ {"relay", "retry"} : Request(kind)
         \/ Retry
         \/ \E relayed \in BOOLEAN : Receive(relayed)
  PROVE  ReachabilityInv'
<1> USE ReachabilityAssumption DEF ReachabilityInv
<1>1. ASSUME NEW kind \in Kinds, NEW r \in Rooms, Consistent(r), Len(ops) < MaxOps,
             Enqueue(kind, r), UNCHANGED <<copy, stored>>
      PROVE  /\ ops' \in Seq(Operations) /\ Len(ops') <= MaxOps
             /\ CopiesConsistent'
  <2> DEFINE o == [kind |-> kind, copy |-> r]
  <2>1. o \in Operations /\ Consistent(o.copy)
    BY <1>1 DEF Operations
  <2>2. ops \in Seq(Operations)
    BY DEF TypeOK
  <2>3. ops' = Append(ops, o)
    BY <1>1 DEF Enqueue
  <2> HIDE DEF o
  <2>4. ops' \in Seq(Operations) /\ Len(ops') = Len(ops) + 1
    BY <2>1, <2>2, <2>3
  <2>5. \A i \in DOMAIN ops' : IF i <= Len(ops) THEN i \in DOMAIN ops /\ ops'[i] = ops[i]
                               ELSE ops'[i] = o
    BY <2>1, <2>2, <2>3
  <2> QED
    BY <1>1, <2>1, <2>2, <2>4, <2>5 DEF CopiesConsistent, Consistent
<1>2. ASSUME NEW kind \in Kinds \ {"relay", "retry"}, Request(kind)
      PROVE  ReachabilityInv'
  <2>1. ops' \in Seq(Operations) /\ Len(ops') <= MaxOps /\ CopiesConsistent'
    BY ReachableRoom, <1>1, <1>2 DEF Request, session
  <2> QED
    BY <1>2, <2>1 DEF Request, TypeOK, PausedAtLimit, SyncUnpaused, CounterByStreak,
                      PausedByStreak, ConnectDrops, session
<1>3. CASE Retry
  <2>1. ops' \in Seq(Operations) /\ Len(ops') <= MaxOps /\ CopiesConsistent'
    BY ReachableRoom, <1>1, <1>3 DEF Retry, Kinds, session
  <2>2. TypeOK'
    <3>1. room' \in Rooms /\ streak' \in 0..MaxFailures
      BY <1>3, ReachableRoom DEF Retry
    <3>2. restored' \subseteq {"toggle_replica", "connect"} /\ contacted' \in BOOLEAN
      BY <1>3 DEF Retry
    <3> QED
      BY <1>3, <2>1, <3>1, <3>2 DEF Retry, TypeOK, session
  <2>3. PausedAtLimit' /\ SyncUnpaused' /\ CounterByStreak' /\ PausedByStreak'
    BY <1>3, <2>2, ReachableRoom DEF Retry, Consistent, PausedAtLimit, SyncUnpaused,
                                     CounterByStreak, PausedByStreak, TypeOK
  <2>4. ConnectDrops'
    BY <1>3 DEF Retry, ConnectDrops, session
  <2> QED
    BY <2>1, <2>2, <2>3, <2>4
<1>4. ASSUME NEW relayed \in BOOLEAN, Receive(relayed)
      PROVE  ReachabilityInv'
  <2>1. ops' \in Seq(Operations) /\ Len(ops') <= MaxOps /\ CopiesConsistent'
    <3>1. CASE relayed
      BY <1>1, <1>4, <3>1 DEF Receive, Kinds, TypeOK, PausedAtLimit, Consistent, session
    <3>2. CASE ~relayed
      BY <1>4, <3>2 DEF Receive, TypeOK, CopiesConsistent, Consistent, session
    <3> QED
      BY <3>1, <3>2
  <2>2. /\ room' \in Rooms /\ streak' \in 0..MaxFailures /\ restored' \subseteq {"toggle_replica", "connect"}
        /\ PausedAtLimit'
    BY <1>4, NoteKeeps DEF Receive, TypeOK
  <2>3. CounterByStreak' /\ PausedByStreak'
    BY <1>4, SuccessClears DEF Receive, TypeOK, CounterByStreak
  <2>4. TypeOK' /\ SyncUnpaused' /\ ConnectDrops'
    BY <1>4, <2>1, <2>2 DEF Receive, TypeOK, SyncUnpaused, ConnectDrops, session
  <2> QED
    BY <2>1, <2>2, <2>3, <2>4
<1>5. CASE Save
  BY <1>5 DEF Save, TypeOK, PausedAtLimit, CopiesConsistent, Consistent, SyncUnpaused,
              CounterByStreak, PausedByStreak, ConnectDrops
<1> QED
  BY <1>2, <1>3, <1>4, <1>5

(* The invariant of the reachability state: room_engine.cpp's three fields *)
(* agree in the room and in every copy of it, the vault's included.        *)
THEOREM ReachabilityInvariant == Spec => []ReachabilityInv
<1>1. ReachabilityInv /\ [Next]_vars => ReachabilityInv'
  <2>1. ReachabilityInv /\ UNCHANGED vars => ReachabilityInv'
    BY DEF vars, session, ReachabilityInv, TypeOK, PausedAtLimit, CopiesConsistent, Consistent,
           SyncUnpaused, CounterByStreak, PausedByStreak, ConnectDrops
  <2> QED
    BY <2>1, ThreadKeeps, OthersKeep DEF Next
<1> QED
  BY <1>1, InitReachabilityInv, PTL DEF Spec

(* The variables keep their types; above all the counter stops at the      *)
(* limit (note_room_failure's std::min).                                   *)
THEOREM ReachabilityTypeCorrect == Spec => []TypeOK
BY ReachabilityInvariant, PTL DEF ReachabilityInv

(* A room is paused exactly when its counter is at the limit, in spite of  *)
(* the copies that syncs and toggle_replica write back.                    *)
THEOREM RoomPausedAtLimit == Spec => []PausedAtLimit
BY ReachabilityInvariant, PTL DEF ReachabilityInv

(* Only MaxFailures failures in a row pause a room that neither            *)
(* toggle_replica nor a reconnect has put back as it was before: what a    *)
(* sync restores is never counted again.                                   *)
THEOREM RoomPausedByStreak == Spec => []PausedByStreak
BY ReachabilityInvariant, PTL DEF ReachabilityInv

(* No success, sync, write-back or reconnect ends a pause that the vault   *)
(* holds: retry_selected_room alone does.                                  *)
THEOREM OnlyRetryResumes == Spec => ResumedByRetry
<1>1. [Next]_vars
        => [room.suspended /\ ~room'.suspended
              => Retry \/ (InstallRooms /\ ~stored.suspended)]_vars
  <2> SUFFICES ASSUME Next, room.suspended, ~room'.suspended, ~Retry
               PROVE  InstallRooms /\ ~stored.suspended
    OBVIOUS
  <2>1. ~NoteSuccess /\ ~NoteFailure /\ room' # room /\ room' # Replace
    BY DEF NoteSuccess, NoteFailure, Replace
  <2>2. OperationThread => InstallRooms
    BY <2>1 DEF OperationThread, Start, ChatRefused, SendSucceeds, SendFails, SendUnnoted,
                SyncReplaces, SyncEnds, SyncFails, ReplicaReplaces, StoreFails, ClearRooms,
                ConnectFails, SyncAfterConnect, AnnounceJoin
  <2>3. ~Save /\ (\A kind : ~Request(kind)) /\ (\A relayed : ~Receive(relayed))
    BY <2>1 DEF Save, Request, Receive
  <2> QED
    BY <2>2, <2>3 DEF Next, InstallRooms
<1> QED
  BY <1>1, PTL DEF Spec, ResumedByRetry

=============================================================================
