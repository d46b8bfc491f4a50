----------------------------- MODULE EngineProofs -----------------------------
(***************************************************************************)
(* Proofs about EnginePersistence and EngineLifecycle for any accounts and *)
(* any number of changes and reconnects.                                   *)
(*                                                                         *)
(* Of the hand-over of saves: accounts stay apart, a change is never left  *)
(* without a persist operation, a stop saves, and every account's vault is *)
(* used as DurableRooms specifies it.  Of the threads around it: every     *)
(* step is a step of EnginePersistence or leaves its state alone, the      *)
(* subscription thread is never replaced while it runs, and a connected    *)
(* engine keeps listening.                                                 *)
(***************************************************************************)
EXTENDS EngineLifecycle, TLAPS

Persisting == pc \in {"copy", "write", "check"}
Waiting == \E i \in DOMAIN ops : ops[i] = "persist"

(* Whose rooms are where: a client goes with its own rooms, and everything *)
(* on its way to a vault names its account.                                *)
ClientInv ==
  /\ client # NoProfile => client = active /\ rooms.profile = client
  /\ due.profile = rooms.profile
  /\ pendingProfile = pendingRooms.profile
  /\ pc = "write" => client # NoProfile /\ copy.profile = client
  /\ pc = "check" => client # NoProfile
  /\ pc \in {"clear", "load", "install"} => client = NoProfile
  /\ pc = "install" => active # NoProfile /\ copy.profile = active

(* queued says truly that one persist is waiting or under way.             *)
QueuedInv ==
  /\ queued <=> Persisting \/ Waiting
  /\ Persisting => ~Waiting
  /\ \A i, j \in DOMAIN ops : ops[i] = "persist" /\ ops[j] = "persist" => i = j

(* What that persist will write is the rooms as they are, but for demo     *)
(* mode, or it will see that they are newer; without one, the vault holds  *)
(* them.                                                                   *)
HandOverInv ==
  /\ client # NoProfile => pendingRooms = due
  /\ pc = "write" /\ ~newer => copy = pendingRooms
  /\ pc = "check" /\ ~newer => vault[client] = pendingRooms
  /\ client # NoProfile /\ ~failed /\ ~stopping /\ ~queued => vault[client] = due

PersistenceInv == TypeOK /\ ProfilesIsolated /\ ClientInv /\ QueuedInv /\ HandOverInv

-----------------------------------------------------------------------------
(* Snapshots and the empty state are apart by their account.               *)
LEMMA SnapshotProfile ==
  ASSUME NEW r \in Snapshots \cup {Cleared}
  PROVE  /\ r.profile \in Profiles \cup {NoProfile}
         /\ r \in Snapshots <=> r.profile # NoProfile
         /\ r = Cleared <=> r.profile = NoProfile
BY PersistenceAssumption DEF Snapshots, Cleared

(* A numbered change keeps the account.                                    *)
LEMMA ChangedSnapshot ==
  ASSUME NEW r \in Snapshots, NEW n \in 0..MaxChanges
  PROVE  /\ [r EXCEPT !.n = n] \in Snapshots
         /\ [r EXCEPT !.n = n].profile = r.profile
BY DEF Snapshots

(* Appending an operation, as save_locked and enqueue do.                  *)
LEMMA AppendedOperation ==
  ASSUME NEW s \in Seq({"persist", "reconnect"}), NEW o \in {"persist", "reconnect"}
  PROVE  /\ Append(s, o) \in Seq({"persist", "reconnect"})
         /\ \A i \in DOMAIN s : i \in DOMAIN Append(s, o) /\ Append(s, o)[i] = s[i]
         /\ \A i \in DOMAIN Append(s, o) :
              (i \in DOMAIN s /\ Append(s, o)[i] = s[i]) \/ (i = Len(s) + 1 /\ Append(s, o)[i] = o)
         /\ Len(s) + 1 \in DOMAIN Append(s, o) /\ Append(s, o)[Len(s) + 1] = o
         /\ Len(s) + 1 \notin DOMAIN s
OBVIOUS

(* Taking the head, as operation_loop does.                                *)
LEMMA TakenOperation ==
  ASSUME NEW s \in Seq({"persist", "reconnect"}), s # <<>>
  PROVE  /\ Tail(s) \in Seq({"persist", "reconnect"})
         /\ Head(s) \in {"persist", "reconnect"}
         /\ 1 \in DOMAIN s /\ s[1] = Head(s)
         /\ \A i \in DOMAIN Tail(s) : i + 1 \in DOMAIN s /\ i + 1 # 1 /\ Tail(s)[i] = s[i + 1]
         /\ \A i \in DOMAIN s : i = 1 \/ (i - 1 \in DOMAIN Tail(s) /\ Tail(s)[i - 1] = s[i])
OBVIOUS

(* save_locked keeps the types of what it changes.                         *)
LEMMA SaveLockedTypes ==
  ASSUME TypeOK, NEW r \in Snapshots, NEW c \in Profiles \cup {NoProfile},
         NEW a \in Profiles \cup {NoProfile}, NEW d \in BOOLEAN, SaveLocked(r, c, a, d)
  PROVE  /\ pendingRooms' \in Snapshots \cup {Cleared}
         /\ pendingProfile' \in Profiles \cup {NoProfile}
         /\ newer' \in BOOLEAN
         /\ queued' \in BOOLEAN
         /\ ops' \in Seq({"persist", "reconnect"})
<1>1. CASE d \/ c = NoProfile \/ a = NoProfile
  BY <1>1 DEF SaveLocked, pending, TypeOK
<1>2. CASE ~(d \/ c = NoProfile \/ a = NoProfile)
  <2>1. ops' = ops \/ ops' = Append(ops, "persist")
    BY <1>2 DEF SaveLocked
  <2>2. ops' \in Seq({"persist", "reconnect"})
    BY <2>1, AppendedOperation DEF TypeOK
  <2>3. newer' = TRUE /\ (queued' = queued \/ queued' = TRUE)
    BY <1>2 DEF SaveLocked
  <2> QED
    BY <1>2, <2>2, <2>3 DEF SaveLocked, TypeOK
<1> QED
  BY <1>1, <1>2

(* save_locked keeps queued true: it appends a persist only when none is   *)
(* waiting or under way.                                                   *)
LEMMA SaveLockedQueues ==
  ASSUME TypeOK, QueuedInv, pc' = pc \/ (~Persisting /\ ~Persisting'),
         NEW r, NEW c, NEW a, NEW d, SaveLocked(r, c, a, d)
  PROVE  QueuedInv'
<1>1. CASE ops' = ops /\ queued' = queued
  BY <1>1 DEF QueuedInv, Waiting, Persisting
<1>2. CASE ops' = Append(ops, "persist") /\ queued' = TRUE /\ ~queued
  <2>1. ~Persisting' /\ ~Waiting
    BY <1>2 DEF QueuedInv, Persisting
  <2>2. \A i \in DOMAIN ops' : ops'[i] = "persist" => i = Len(ops) + 1
    BY <1>2, <2>1, AppendedOperation DEF TypeOK, Waiting
  <2>3. Waiting'
    BY <1>2, AppendedOperation DEF TypeOK, Waiting
  <2> QED
    BY <1>2, <2>1, <2>2, <2>3 DEF QueuedInv
<1> QED
  BY <1>1, <1>2 DEF SaveLocked, pending, TypeOK

-----------------------------------------------------------------------------
LEMMA InitPersistenceInv == Init => PersistenceInv
<1> SUFFICES ASSUME Init PROVE PersistenceInv
  OBVIOUS
<1> USE PersistenceAssumption DEF Init
<1>1. ASSUME NEW p \in Profiles PROVE [profile |-> p, n |-> 0] \in Snapshots
  <2>1. 0 \in 0..MaxChanges
    OBVIOUS
  <2> QED
    BY <2>1 DEF Snapshots
<1>2. TypeOK
  <2>1. vault \in [Profiles -> Snapshots]
    BY <1>1
  <2>2. /\ newer \in BOOLEAN /\ queued \in BOOLEAN /\ stopping \in BOOLEAN /\ demo \in BOOLEAN
        /\ failed \in BOOLEAN /\ discarded \in BOOLEAN
    OBVIOUS
  <2>3. ops \in Seq({"persist", "reconnect"}) /\ changes \in 0..MaxChanges
    OBVIOUS
  <2> QED
    BY <2>1, <2>2, <2>3 DEF TypeOK
<1>3. ProfilesIsolated
  BY DEF ProfilesIsolated
<1>4. ClientInv
  BY DEF ClientInv, Cleared
<1>5. QueuedInv
  BY DEF QueuedInv, Persisting, Waiting
<1>6. HandOverInv
  BY DEF HandOverInv
<1> QED
  BY <1>2, <1>3, <1>4, <1>5, <1>6 DEF PersistenceInv

(* A change happens to rooms that are a snapshot, and gives a newer one.   *)
LEMMA ChangeMakesSnapshot ==
  ASSUME TypeOK, Change
  PROVE  /\ rooms \in Snapshots /\ rooms' \in Snapshots
         /\ rooms'.profile = rooms.profile
         /\ due' = due \/ due' = rooms'
         /\ demo => due' = due
         /\ ~demo => due' = rooms'
         /\ changes' \in 0..MaxChanges
<1>1. rooms \in Snapshots /\ changes' \in 0..MaxChanges
  BY PersistenceAssumption DEF TypeOK, Change
<1> QED
  BY <1>1, ChangedSnapshot DEF Change

(* The rooms connect_impl installs are those of the account it loaded.     *)
LEMMA InstallsSnapshot ==
  ASSUME TypeOK, ClientInv, InstallRooms
  PROVE  /\ active \in Profiles /\ copy \in Snapshots /\ copy.profile = active
         /\ client = NoProfile
<1>1. active # NoProfile /\ copy.profile = active /\ client = NoProfile
  BY DEF ClientInv, InstallRooms
<1> QED
  BY <1>1, SnapshotProfile DEF TypeOK

LEMMA NextTypeOK == TypeOK /\ ClientInv /\ [Next]_vars => TypeOK'
<1> SUFFICES ASSUME TypeOK, ClientInv, [Next]_vars
             PROVE  TypeOK'
  OBVIOUS
<1>1. CASE Change
  <2>1. /\ rooms \in Snapshots /\ rooms' \in Snapshots /\ changes' \in 0..MaxChanges
        /\ due' \in Snapshots \cup {Cleared}
    BY <1>1, ChangeMakesSnapshot DEF TypeOK
  <2>2. SaveLocked(rooms', client, active, demo)
    BY <1>1 DEF Change
  <2>3. /\ pendingRooms' \in Snapshots \cup {Cleared}
        /\ pendingProfile' \in Profiles \cup {NoProfile}
        /\ newer' \in BOOLEAN /\ queued' \in BOOLEAN
        /\ ops' \in Seq({"persist", "reconnect"})
    BY <2>1, <2>2, SaveLockedTypes DEF TypeOK
  <2> QED
    BY <1>1, <2>1, <2>3 DEF Change, TypeOK
<1>2. CASE RequestReconnect
  <2>1. ops' \in Seq({"persist", "reconnect"})
    BY <1>2, AppendedOperation DEF RequestReconnect, TypeOK
  <2> QED
    BY <1>2, <2>1 DEF RequestReconnect, TypeOK, history
<1>3. CASE Stop
  BY <1>3 DEF Stop, TypeOK, pending
<1>4. ASSUME NEW p \in Profiles, SwitchAccount(p)
      PROVE  TypeOK'
  BY <1>4 DEF SwitchAccount, TypeOK, pending, history
<1>5. CASE TakeOperation
  <2>1. ops' \in Seq({"persist", "reconnect"})
    BY <1>5, TakenOperation DEF TakeOperation, TypeOK
  <2> QED
    BY <1>5, <2>1 DEF TakeOperation, TypeOK, history
<1>6. CASE Exit
  BY <1>6 DEF Exit, TypeOK, pending, history
<1>7. CASE PersistCopy
  <2>1. /\ pc' = "write" /\ newer' \in BOOLEAN /\ copy' = pendingRooms
        /\ UNCHANGED <<account, vault, rooms, client, active, pendingRooms, pendingProfile,
                       queued, stopping, demo, ops, changes, due, failed, discarded, atStop>>
    BY <1>7 DEF PersistCopy, history
  <2> QED
    BY <2>1 DEF TypeOK
<1>8. CASE PersistDropped
  <2>1. /\ pc' = "idle"
        /\ queued' \in BOOLEAN
        /\ UNCHANGED <<account, vault, rooms, client, active, pendingRooms, pendingProfile,
                       newer, stopping, demo, ops, copy, changes, due, failed, discarded,
                       atStop>>
    BY <1>8 DEF PersistDropped, history
  <2> QED
    BY <2>1 DEF TypeOK
<1>9. CASE PersistWrite
  <2>1. client \in Profiles /\ copy \in Snapshots
    BY <1>9, SnapshotProfile DEF PersistWrite, ClientInv, TypeOK
  <2>2. vault' \in [Profiles -> Snapshots]
    BY <1>9, <2>1 DEF PersistWrite, TypeOK
  <2>3. /\ pc' = "check" /\ failed' \in BOOLEAN
        /\ UNCHANGED <<account, rooms, client, active, pendingRooms, pendingProfile, newer,
                       queued, ops, stopping, demo, copy, changes, due, discarded, atStop>>
    BY <1>9 DEF PersistWrite, pending
  <2> QED
    BY <2>2, <2>3 DEF TypeOK
<1>10. CASE PersistFails
  <2>1. /\ pc' = "idle" /\ failed' \in BOOLEAN /\ queued' \in BOOLEAN
        /\ UNCHANGED <<account, vault, rooms, client, active, pendingRooms, pendingProfile,
                       newer, stopping, demo, ops, copy, changes, due, discarded, atStop>>
    BY <1>10 DEF PersistFails
  <2> QED
    BY <2>1 DEF TypeOK
<1>11. CASE PersistCheck
  <2>1. /\ pc' \in {"copy", "idle"}
        /\ queued' \in BOOLEAN
        /\ UNCHANGED <<account, vault, rooms, client, active, pendingRooms, pendingProfile,
                       newer, stopping, demo, ops, copy, changes, due, failed, discarded,
                       atStop>>
    BY <1>11 DEF PersistCheck, history, TypeOK
  <2> QED
    BY <2>1 DEF TypeOK
<1>12. CASE DropClient
  BY <1>12 DEF DropClient, TypeOK, pending, history
<1>13. CASE ClearRooms
  <2>1. discarded' \in BOOLEAN
    BY <1>13 DEF ClearRooms, TypeOK
  <2> QED
    BY <1>13, <2>1 DEF ClearRooms, TypeOK, pending
<1>14. CASE LoadRooms
  BY <1>14 DEF LoadRooms, TypeOK, pending, history
<1>15. CASE InstallRooms
  <2>1. active \in Profiles /\ copy \in Snapshots
    BY <1>15, InstallsSnapshot
  <2>2. SaveLocked(copy, active, active, FALSE)
    BY <1>15 DEF InstallRooms
  <2>3. /\ pendingRooms' \in Snapshots \cup {Cleared}
        /\ pendingProfile' \in Profiles \cup {NoProfile}
        /\ newer' \in BOOLEAN /\ queued' \in BOOLEAN
        /\ ops' \in Seq({"persist", "reconnect"})
    BY <2>1, <2>2, SaveLockedTypes
  <2> QED
    BY <1>15, <2>1, <2>3 DEF InstallRooms, TypeOK, history
<1>16. CASE ConnectFails
  BY <1>16 DEF ConnectFails, TypeOK, pending, history
<1>17. CASE UNCHANGED vars
  BY <1>17 DEF vars, pending, history, TypeOK
<1>18. CASE StartDemo
  BY <1>18 DEF StartDemo, pending, history, TypeOK
<1> QED
  BY <1>1, <1>2, <1>3, <1>4, <1>5, <1>6, <1>7, <1>8, <1>9, <1>10, <1>11, <1>12, <1>13,
     <1>14, <1>15, <1>16, <1>17, <1>18 DEF Next, OperationThread, Stopped

(* A vault is only written with a copy that names its account.             *)
LEMMA NextProfilesIsolated ==
  TypeOK /\ ClientInv /\ ProfilesIsolated /\ [Next]_vars => ProfilesIsolated'
<1> SUFFICES ASSUME TypeOK, ClientInv, ProfilesIsolated, [Next]_vars
             PROVE  ProfilesIsolated'
  OBVIOUS
<1>1. CASE PersistWrite
  BY <1>1 DEF PersistWrite, ClientInv, ProfilesIsolated, TypeOK
<1>2. CASE ~PersistWrite
  <2>1. vault' = vault
    BY <1>2 DEF Next, vars, OperationThread, Stopped, Change, RequestReconnect, Stop,
                StartDemo, SwitchAccount, TakeOperation, Exit, PersistCopy, PersistDropped, PersistFails,
                PersistCheck, DropClient, ClearRooms, LoadRooms, InstallRooms, ConnectFails
  <2> QED
    BY <2>1 DEF ProfilesIsolated
<1> QED
  BY <1>1, <1>2

LEMMA NextClientInv == PersistenceInv /\ [Next]_vars => ClientInv'
<1> SUFFICES ASSUME PersistenceInv, [Next]_vars
             PROVE  ClientInv'
  OBVIOUS
<1> USE DEF PersistenceInv
<1>1. CASE Change
  <2>1. /\ rooms'.profile = rooms.profile
        /\ due' = due \/ due' = rooms'
    BY <1>1, ChangeMakesSnapshot
  <2>2. pendingProfile' = pendingRooms'.profile
    BY <1>1, <2>1 DEF Change, SaveLocked, ClientInv, pending
  <2> QED
    BY <1>1, <2>1, <2>2 DEF Change, ClientInv
<1>2. CASE \/ RequestReconnect \/ Stop \/ StartDemo \/ Exit \/ TakeOperation
           \/ PersistDropped \/ PersistFails
  BY <1>2 DEF RequestReconnect, Stop, StartDemo, Exit, TakeOperation, PersistDropped, PersistFails, ClientInv,
              pending, history, QueuedInv, Persisting
<1>3. ASSUME NEW p \in Profiles, SwitchAccount(p)
      PROVE  ClientInv'
  BY <1>3 DEF SwitchAccount, ClientInv, pending, history
<1>4. CASE PersistCopy
  BY <1>4 DEF PersistCopy, PendingIsCurrent, ClientInv, history
<1>5. CASE PersistWrite
  BY <1>5 DEF PersistWrite, ClientInv, pending
<1>6. CASE PersistCheck
  BY <1>6 DEF PersistCheck, ClientInv, history
<1>7. CASE DropClient \/ ClearRooms
  BY <1>7 DEF DropClient, ClearRooms, ClientInv, pending, history
<1>8. CASE LoadRooms
  <2>1. account # NoProfile /\ vault[account].profile = account
    BY PersistenceAssumption DEF TypeOK, ProfilesIsolated
  <2> QED
    BY <1>8, <2>1 DEF LoadRooms, ClientInv, pending, history
<1>9. CASE InstallRooms
  <2>1. copy.profile = active
    BY <1>9, InstallsSnapshot
  <2>2. pendingProfile' = pendingRooms'.profile
    BY <1>9, <2>1 DEF InstallRooms, SaveLocked, ClientInv, pending
  <2> QED
    BY <1>9, <2>1, <2>2 DEF InstallRooms, ClientInv
<1>10. CASE ConnectFails
  BY <1>10 DEF ConnectFails, ClientInv, pending, history
<1>11. CASE UNCHANGED vars
  BY <1>11 DEF vars, pending, history, ClientInv
<1> QED
  BY <1>1, <1>2, <1>3, <1>4, <1>5, <1>6, <1>7, <1>8, <1>9, <1>10, <1>11
  DEF Next, OperationThread, Stopped

LEMMA NextQueuedInv == PersistenceInv /\ [Next]_vars => QueuedInv'
<1> SUFFICES ASSUME PersistenceInv, [Next]_vars
             PROVE  QueuedInv'
  OBVIOUS
<1> USE DEF PersistenceInv
<1>1. CASE Change
  BY <1>1, SaveLockedQueues DEF Change
<1>2. CASE RequestReconnect
  <2>1. \A i \in DOMAIN ops' : ops'[i] = "persist" => i \in DOMAIN ops /\ ops[i] = "persist"
    BY <1>2, AppendedOperation DEF RequestReconnect, TypeOK
  <2>2. Waiting' <=> Waiting
    BY <1>2, <2>1, AppendedOperation DEF RequestReconnect, TypeOK, Waiting
  <2> QED
    BY <1>2, <2>1, <2>2 DEF RequestReconnect, QueuedInv, Persisting
<1>3. CASE TakeOperation
  <2>1. ops' = Tail(ops) /\ ops # <<>> /\ ~Persisting
    BY <1>3 DEF TakeOperation, Persisting
  <2>2. \A i, j \in DOMAIN ops' : ops'[i] = "persist" /\ ops'[j] = "persist" => i = j
    <3> SUFFICES ASSUME NEW i \in DOMAIN ops', NEW j \in DOMAIN ops',
                        ops'[i] = "persist", ops'[j] = "persist"
                 PROVE  i = j
      OBVIOUS
    <3>1. i + 1 = j + 1
      BY <2>1, TakenOperation DEF TypeOK, QueuedInv
    <3>2. i \in Nat /\ j \in Nat
      BY <2>1, TakenOperation DEF TypeOK
    <3> QED
      BY <3>1, <3>2
  <2>3. CASE Head(ops) = "persist"
    <3>1. ~Waiting'
      BY <2>1, <2>3, TakenOperation DEF TypeOK, QueuedInv, Waiting
    <3>2. queued
      BY <2>1, <2>3, TakenOperation DEF TypeOK, QueuedInv, Waiting
    <3> QED
      BY <1>3, <2>2, <2>3, <3>1, <3>2 DEF TakeOperation, QueuedInv, Persisting
  <2>4. CASE Head(ops) # "persist"
    <3>1. Waiting' => Waiting
      BY <2>1, TakenOperation DEF TypeOK, Waiting
    <3>2. ASSUME NEW i \in DOMAIN ops, ops[i] = "persist"
          PROVE  Waiting'
      <4>1. i - 1 \in DOMAIN ops' /\ ops'[i - 1] = "persist"
        BY <2>1, <2>4, <3>2, TakenOperation DEF TypeOK
      <4> QED
        BY <4>1 DEF Waiting
    <3>3. Waiting' <=> Waiting
      BY <3>1, <3>2 DEF Waiting
    <3> QED
      BY <1>3, <2>1, <2>2, <2>4, <3>3 DEF TakeOperation, QueuedInv, Persisting
  <2> QED
    BY <2>3, <2>4
<1>4. CASE PersistCopy \/ PersistDropped \/ PersistWrite \/ PersistFails \/ PersistCheck
  <2>1. ops' = ops /\ Persisting
    BY <1>4 DEF PersistCopy, PersistDropped, PersistWrite, PersistFails, PersistCheck, pending,
                Persisting
  <2>2. queued' <=> Persisting'
    BY <1>4, <2>1 DEF PersistCopy, PersistDropped, PersistWrite, PersistFails, PersistCheck,
                      pending, Persisting, QueuedInv
  <2> QED
    BY <2>1, <2>2 DEF QueuedInv, Waiting
<1>5. CASE InstallRooms
  BY <1>5, SaveLockedQueues DEF InstallRooms, Persisting
<1>6. CASE DropClient \/ ClearRooms \/ LoadRooms \/ ConnectFails \/ Exit
  BY <1>6 DEF DropClient, ClearRooms, LoadRooms, ConnectFails, Exit, pending, QueuedInv,
              Persisting, Waiting
<1>7. ASSUME UNCHANGED <<queued, ops, pc>>
      PROVE  QueuedInv'
  BY <1>7 DEF QueuedInv, Persisting, Waiting
<1> QED
  BY <1>1, <1>2, <1>3, <1>4, <1>5, <1>6, <1>7
  DEF Next, OperationThread, Stopped, Stop, StartDemo, SwitchAccount, vars, pending

LEMMA NextHandOverInv == PersistenceInv /\ [Next]_vars => HandOverInv'
<1> SUFFICES ASSUME PersistenceInv, [Next]_vars
             PROVE  HandOverInv'
  OBVIOUS
<1> USE DEF PersistenceInv
<1>0. client # NoProfile => pendingProfile = active /\ active # NoProfile
  BY DEF ClientInv, HandOverInv
<1>1. CASE Change
  <2>1. CASE client = NoProfile
    BY <1>1, <2>1 DEF Change, SaveLocked, HandOverInv, ClientInv, pending
  <2>2. CASE demo
    <3>1. due' = due /\ UNCHANGED pending
      BY <1>1, <2>2 DEF Change, SaveLocked
    <3> QED
      BY <1>1, <3>1 DEF Change, HandOverInv, pending
  <2>3. CASE client # NoProfile /\ ~demo
    <3>1. /\ pendingRooms' = rooms' /\ due' = rooms' /\ newer' = TRUE
          /\ queued' \/ stopping
      BY <1>0, <1>1, <2>3 DEF Change, SaveLocked
    <3> QED
      BY <1>1, <2>3, <3>1 DEF Change, HandOverInv
  <2> QED
    BY <2>1, <2>2, <2>3 DEF TypeOK
<1>2. CASE RequestReconnect \/ Stop \/ StartDemo \/ Exit \/ TakeOperation
  BY <1>2 DEF RequestReconnect, Stop, StartDemo, Exit, TakeOperation, HandOverInv, pending, history
<1>3. ASSUME NEW p \in Profiles, SwitchAccount(p)
      PROVE  HandOverInv'
  BY <1>3 DEF SwitchAccount, HandOverInv, pending, history
<1>4. CASE PersistCopy
  <2>1. queued'
    BY <1>4 DEF PersistCopy, QueuedInv, Persisting
  <2> QED
    BY <1>4, <2>1 DEF PersistCopy, HandOverInv, history
<1>5. CASE PersistDropped
  BY <1>0, <1>5 DEF PersistDropped, PendingIsCurrent, HandOverInv, history
<1>6. CASE PersistWrite
  <2>1. queued' /\ client \in Profiles
    BY <1>6 DEF PersistWrite, QueuedInv, Persisting, pending, ClientInv, TypeOK
  <2>2. vault'[client] = copy
    BY <1>6, <2>1 DEF PersistWrite, TypeOK
  <2> QED
    BY <1>6, <2>1, <2>2 DEF PersistWrite, HandOverInv, pending
<1>7. CASE PersistFails
  BY <1>7 DEF PersistFails, HandOverInv
<1>8. CASE PersistCheck
  <2>1. client # NoProfile /\ pendingRooms = due /\ pendingProfile = active
    BY <1>0, <1>8 DEF PersistCheck, ClientInv, HandOverInv
  <2> QED
    BY <1>8, <2>1 DEF PersistCheck, HandOverInv, history
<1>9. CASE DropClient \/ ClearRooms \/ LoadRooms \/ ConnectFails
  BY <1>9 DEF DropClient, ClearRooms, LoadRooms, ConnectFails, HandOverInv, ClientInv, pending,
              history
<1>10. CASE InstallRooms
  <2>1. active # NoProfile
    BY <1>10 DEF InstallRooms, ClientInv
  <2>2. pendingRooms' = copy /\ (queued' \/ stopping)
    BY <1>10, <2>1 DEF InstallRooms, SaveLocked
  <2> QED
    BY <1>10, <2>2 DEF InstallRooms, HandOverInv
<1>11. CASE UNCHANGED vars
  BY <1>11 DEF vars, pending, history, HandOverInv
<1> QED
  BY <1>1, <1>2, <1>3, <1>4, <1>5, <1>6, <1>7, <1>8, <1>9, <1>10, <1>11
  DEF Next, OperationThread, Stopped

-----------------------------------------------------------------------------
(* The invariant of the hand-over between save_locked, the operation       *)
(* thread and reconnects.                                                  *)
THEOREM PersistenceInvariant == Spec => []PersistenceInv
<1>1. PersistenceInv /\ [Next]_vars => PersistenceInv'
  BY NextTypeOK, NextProfilesIsolated, NextClientInv, NextQueuedInv, NextHandOverInv
  DEF PersistenceInv
<1> QED
  BY <1>1, InitPersistenceInv, PTL DEF Spec

(* The variables keep their types: what is being saved or loaded is a      *)
(* snapshot of some account, or nothing.                                   *)
THEOREM PersistenceTypeCorrect == Spec => []TypeOK
BY PersistenceInvariant, PTL DEF PersistenceInv

(* However saves, failed connections and switches of the daemon's account  *)
(* interleave, persist_pending_impl never writes the rooms of one account  *)
(* into the vault of another.                                              *)
THEOREM AccountsIsolated == Spec => []ProfilesIsolated
BY PersistenceInvariant, PTL DEF PersistenceInv

(* The hand-over has no lost wake-up: what was changed outside demo mode   *)
(* and is not in the vault has a persist operation waiting or under way,   *)
(* also when demo mode has been started since.                             *)
THEOREM NoSaveForgotten == Spec => []UnsavedIsQueued
<1>1. PersistenceInv => UnsavedIsQueued
  BY DEF PersistenceInv, HandOverInv, QueuedInv, Persisting, Waiting, UnsavedIsQueued
<1> QED
  BY <1>1, PersistenceInvariant, PTL

-----------------------------------------------------------------------------
(* Changes are numbered in order, so a snapshot has at most the last one.  *)
NumbersInv ==
  /\ rooms.n <= changes
  /\ due.n <= changes
  /\ copy.n <= changes
  /\ \A p \in Profiles : vault[p].n <= changes

(* connect_impl works on cleared rooms, and installs what the vault holds. *)
LoadedInv ==
  /\ pc \in {"load", "install"} => rooms = Cleared /\ due = Cleared
  /\ pc = "install" => copy = vault[active]

(* The operation thread exits with nothing queued, and stopping keeps it.  *)
ExitInv == pc = "exited" => stopping /\ ~queued

(* What was due at the stop is still due, or in the vault; and in the      *)
(* vault once no persist is waiting or under way.                          *)
StopInv ==
  stopping /\ ~discarded /\ atStop.profile # NoProfile
    => /\ due.profile = atStop.profile => due.n >= atStop.n
       /\ due.profile # atStop.profile => vault[atStop.profile].n >= atStop.n
       /\ client = atStop.profile /\ ~failed /\ ~queued
            => vault[atStop.profile].n >= atStop.n

SavingInv == PersistenceInv /\ NumbersInv /\ LoadedInv /\ ExitInv /\ StopInv

(* Snapshots are numbered by naturals.                                     *)
LEMMA SnapshotNumber ==
  ASSUME NEW r \in Snapshots \cup {Cleared}
  PROVE  r.n \in Nat
BY PersistenceAssumption DEF Snapshots, Cleared

(* The engine starts with nothing to save.                                 *)
LEMMA InitSavingInv == Init => SavingInv
<1> SUFFICES ASSUME Init PROVE SavingInv
  OBVIOUS
<1>1. PersistenceInv
  BY InitPersistenceInv
<1>2. NumbersInv /\ LoadedInv /\ ExitInv /\ StopInv
  BY DEF Init, NumbersInv, LoadedInv, ExitInv, StopInv, Cleared
<1> QED
  BY <1>1, <1>2 DEF SavingInv

(* A pending snapshot is written only while it is what is due.             *)
LEMMA CopiesRooms ==
  ASSUME PersistenceInv, PersistCopy
  PROVE  client # NoProfile /\ pendingRooms = due
BY DEF PersistCopy, PendingIsCurrent, PersistenceInv, HandOverInv

(* No step makes a snapshot newer than the last change.                    *)
LEMMA NextNumbersInv == SavingInv /\ [Next]_vars => NumbersInv'
<1> SUFFICES ASSUME SavingInv, [Next]_vars PROVE NumbersInv'
  OBVIOUS
<1> USE DEF SavingInv, NumbersInv
<1>1. /\ TypeOK /\ changes \in Nat /\ rooms.n \in Nat /\ due.n \in Nat /\ copy.n \in Nat
      /\ \A p \in Profiles : vault[p].n \in Nat
  BY SnapshotNumber, PersistenceAssumption DEF PersistenceInv, TypeOK
<1>2. CASE Change
  <2>1. /\ changes' = changes + 1 /\ rooms'.n = changes + 1 /\ copy' = copy /\ vault' = vault
        /\ due' = due \/ due' = rooms'
    BY <1>2, ChangeMakesSnapshot, <1>1 DEF Change, Snapshots
  <2> QED
    BY <1>1, <2>1
<1>3. CASE PersistCopy
  <2>1. copy' = due /\ UNCHANGED <<rooms, due, vault, changes>>
    BY <1>3, CopiesRooms DEF PersistCopy, history
  <2> QED
    BY <2>1
<1>4. CASE PersistWrite
  <2>1. \A p \in Profiles : vault'[p] = vault[p] \/ vault'[p] = copy
    BY <1>1, <1>4 DEF PersistWrite, TypeOK
  <2> QED
    BY <1>4, <2>1 DEF PersistWrite
<1>5. CASE ClearRooms
  BY <1>1, <1>5 DEF ClearRooms, Cleared
<1>6. CASE LoadRooms
  BY <1>1, <1>6 DEF LoadRooms, TypeOK, history
<1>7. CASE InstallRooms
  BY <1>7 DEF InstallRooms, history
<1>8. CASE UNCHANGED <<rooms, due, copy, vault, changes>>
  BY <1>8
<1> QED
  BY <1>2, <1>3, <1>4, <1>5, <1>6, <1>7, <1>8
  DEF Next, OperationThread, Stopped, RequestReconnect, Stop, StartDemo, SwitchAccount,
      TakeOperation, Exit, PersistDropped, PersistFails, PersistCheck, DropClient, ConnectFails,
      vars, pending, history

(* Nothing fills the rooms between connect_impl's clearing and its install.*)
LEMMA NextLoadedInv == SavingInv /\ [Next]_vars => LoadedInv'
<1> SUFFICES ASSUME SavingInv, [Next]_vars PROVE LoadedInv'
  OBVIOUS
<1> USE DEF SavingInv, LoadedInv
<1>1. CASE Change
  BY <1>1 DEF Change
<1>2. CASE PersistWrite \/ PersistCopy
  BY <1>2 DEF PersistWrite, PersistCopy
<1>3. CASE ClearRooms \/ InstallRooms
  BY <1>3 DEF ClearRooms, InstallRooms
<1>6. CASE LoadRooms
  BY <1>6 DEF LoadRooms, history
<1>4. CASE PersistDropped \/ PersistFails \/ PersistCheck \/ DropClient \/ ConnectFails
           \/ TakeOperation \/ Exit
  BY <1>4 DEF PersistDropped, PersistFails, PersistCheck, DropClient, ConnectFails, TakeOperation,
     Exit, history
<1>5. CASE UNCHANGED <<rooms, due, copy, vault, pc, active>>
  BY <1>5
<1> QED
  BY <1>1, <1>2, <1>3, <1>4, <1>5, <1>6
  DEF Next, OperationThread, Stopped, RequestReconnect, Stop, StartDemo, SwitchAccount, vars,
      pending, history

(* Once the thread has exited, save_locked queues nothing: stopping is set.*)
LEMMA NextExitInv == SavingInv /\ [Next]_vars => ExitInv'
<1> SUFFICES ASSUME SavingInv, [Next]_vars PROVE ExitInv'
  OBVIOUS
<1> USE DEF SavingInv, ExitInv
<1>1. CASE Change
  BY <1>1 DEF Change, SaveLocked, pending
<1>2. CASE Exit
  <2>1. ~queued
    BY <1>2 DEF Exit, PersistenceInv, QueuedInv, Persisting, Waiting
  <2> QED
    BY <1>2, <2>1 DEF Exit, pending
<1>3. CASE pc' # "exited"
  BY <1>3
<1>4. CASE UNCHANGED <<pc, queued>> /\ (stopping => stopping')
  BY <1>4
<1> QED
  BY <1>1, <1>2, <1>3, <1>4
  DEF Next, OperationThread, Stopped, RequestReconnect, Stop, StartDemo, SwitchAccount,
      TakeOperation, PersistCopy, PersistDropped, PersistWrite, PersistFails, PersistCheck, DropClient, ClearRooms,
      LoadRooms, InstallRooms, ConnectFails, vars, pending

(* The steps that keep what was in the rooms at the stop, or move it into  *)
(* the vault.                                                              *)
LEMMA NextStopInv == SavingInv /\ [Next]_vars => StopInv'
<1> SUFFICES ASSUME SavingInv, [Next]_vars, stopping', ~discarded', atStop'.profile # NoProfile
             PROVE  /\ due'.profile = atStop'.profile => due'.n >= atStop'.n
                    /\ due'.profile # atStop'.profile => vault'[atStop'.profile].n >= atStop'.n
                    /\ client' = atStop'.profile /\ ~failed' /\ ~queued'
                         => vault'[atStop'.profile].n >= atStop'.n
  BY DEF StopInv
<1> USE DEF SavingInv
<1>1. /\ TypeOK /\ changes \in Nat /\ due.n \in Nat /\ atStop.n \in Nat
      /\ \A p \in Profiles : vault[p].n \in Nat
  BY SnapshotNumber, PersistenceAssumption DEF PersistenceInv, TypeOK
<1>2. CASE Stop
  <2>1. atStop' = due /\ UNCHANGED <<due, vault, client, queued, failed>> /\ ~stopping
    BY <1>2 DEF Stop, pending
  <2>2. client = due.profile /\ client # NoProfile /\ ~failed /\ ~queued => vault[client] = due
    BY <2>1 DEF PersistenceInv, HandOverInv
  <2> QED
    BY <1>1, <2>1, <2>2
<1> SUFFICES ASSUME ~Stop PROVE
       /\ due'.profile = atStop.profile => due'.n >= atStop.n
       /\ due'.profile # atStop.profile => vault'[atStop.profile].n >= atStop.n
       /\ client' = atStop.profile /\ ~failed' /\ ~queued' => vault'[atStop.profile].n >= atStop.n
  <2>1. ~Stop => atStop' = atStop
    BY DEF Next, OperationThread, Stopped, Change, RequestReconnect, StartDemo, SwitchAccount,
       TakeOperation, Exit, PersistCopy, PersistDropped, PersistWrite, PersistFails, PersistCheck, DropClient,
       ClearRooms, LoadRooms, InstallRooms, ConnectFails, vars, history
  <2> QED
    BY <1>2, <2>1
<1>3. /\ stopping /\ atStop.profile # NoProfile /\ ~discarded
      /\ due.profile = atStop.profile => due.n >= atStop.n
      /\ due.profile # atStop.profile => vault[atStop.profile].n >= atStop.n
      /\ client = atStop.profile /\ ~failed /\ ~queued => vault[atStop.profile].n >= atStop.n
  <2>1. stopping /\ atStop' = atStop
    BY DEF Next, OperationThread, Stopped, Change, RequestReconnect, StartDemo, SwitchAccount,
       TakeOperation, Exit, PersistCopy, PersistDropped, PersistWrite, PersistFails, PersistCheck, DropClient,
       ClearRooms, LoadRooms, InstallRooms, ConnectFails, vars, history
  <2>2. discarded' = discarded \/ ClearRooms
    BY DEF Next, OperationThread, Stopped, Change, RequestReconnect, StartDemo, SwitchAccount,
       TakeOperation, Exit, PersistCopy, PersistDropped, PersistWrite, PersistFails, PersistCheck, DropClient,
       LoadRooms, InstallRooms, ConnectFails, vars, history
  <2>3. ClearRooms => (discarded => discarded')
    BY ZenonT(30) DEF ClearRooms
  <2>4. ~discarded
    BY <2>2, <2>3
  <2> QED
    BY <2>1, <2>4 DEF StopInv
<1>4. atStop.profile \in Profiles
  BY <1>1, <1>3, SnapshotProfile DEF TypeOK
<1>5. CASE Change
  <2>1. due'.profile = due.profile /\ due'.n >= due.n /\ due'.n \in Nat
    <3>1. CASE demo
      BY <1>1, <1>5, <3>1, ChangeMakesSnapshot
    <3>2. CASE ~demo
      <4>1. due' = rooms' /\ rooms'.profile = rooms.profile /\ rooms.profile = due.profile
        BY <1>1, <1>5, <3>2, ChangeMakesSnapshot DEF PersistenceInv, ClientInv
      <4>2. rooms'.n = changes + 1
        BY <1>1, <1>5, ChangeMakesSnapshot DEF Change, Snapshots
      <4> QED
        BY <1>1, <4>1, <4>2 DEF NumbersInv
    <3> QED
      BY <1>1, <3>1, <3>2 DEF TypeOK
  <2>2. UNCHANGED <<vault, client, queued, failed>>
    BY <1>3, <1>5 DEF Change, SaveLocked, pending
  <2> QED
    BY <1>1, <1>3, <2>1, <2>2
<1>6. CASE PersistWrite
  <2>1. queued' /\ client # NoProfile /\ due' = due /\ due.profile = client
    BY <1>6 DEF PersistWrite, PersistenceInv, QueuedInv, Persisting, pending, ClientInv
  <2>2. due.profile # atStop.profile => vault'[atStop.profile] = vault[atStop.profile]
    BY <1>1, <1>4, <1>6, <2>1 DEF PersistWrite, TypeOK
  <2> QED
    BY <1>3, <2>1, <2>2
<1>7. CASE PersistCheck \/ PersistDropped
  <2>1. UNCHANGED <<vault, due, client, failed>>
    BY <1>7 DEF PersistCheck, PersistDropped, history
  <2>2. client # NoProfile /\ ~queued' => PersistCheck /\ ~newer /\ due.profile = client
    BY <1>7 DEF PersistCheck, PersistDropped, PendingIsCurrent, PersistenceInv, ClientInv,
       HandOverInv, QueuedInv, Persisting
  <2>3. client # NoProfile /\ ~queued' => vault[client] = due
    BY <2>2 DEF PersistCheck, PersistenceInv, HandOverInv
  <2> QED
    BY <1>3, <2>1, <2>2, <2>3
<1>8. CASE PersistFails
  BY <1>3, <1>8 DEF PersistFails
<1>9. CASE DropClient
  BY <1>3, <1>9 DEF DropClient, pending, history
<1>10. CASE ClearRooms
  <2>1. /\ due' = Cleared /\ vault' = vault /\ client' = client
        /\ client = NoProfile
    BY <1>10 DEF ClearRooms, PersistenceInv, ClientInv
  <2>2. due = Cleared \/ vault[due.profile] = due
    BY <1>1, <1>10 DEF ClearRooms, TypeOK
  <2>3. Cleared.profile = NoProfile
    BY DEF Cleared
  <2>4. vault[atStop.profile].n >= atStop.n
    BY <1>3, <2>2, <2>3
  <2> QED
    BY <1>3, <2>1, <2>3, <2>4
<1>11. CASE InstallRooms
  <2>1. /\ due' = copy /\ copy = vault[active] /\ copy.profile = active /\ due = Cleared
        /\ client' = active /\ vault' = vault
    BY <1>11, InstallsSnapshot DEF InstallRooms, LoadedInv, PersistenceInv
  <2>2. vault[atStop.profile].n >= atStop.n
    BY <1>3, <2>1 DEF Cleared
  <2> QED
    BY <2>1, <2>2
<1>12. CASE UNCHANGED <<due, vault, client, queued, failed>>
  BY <1>3, <1>12
<1> QED
  BY <1>5, <1>6, <1>7, <1>8, <1>9, <1>10, <1>11, <1>12
  DEF Next, OperationThread, Stopped, RequestReconnect, StartDemo, SwitchAccount, TakeOperation,
      Exit, PersistCopy, LoadRooms, ConnectFails, vars, pending, history

(* Whatever changes, reconnects, fails or stops, the rooms that stop found *)
(* are in memory, waiting to be written, or written (save_locked,          *)
(* persist_pending_impl, operation_loop, connect_impl).                    *)
THEOREM SavingInvariant == Spec => []SavingInv
<1>1. SavingInv /\ [Next]_vars => SavingInv'
  <2> SUFFICES ASSUME SavingInv, [Next]_vars PROVE SavingInv'
    OBVIOUS
  <2>1. PersistenceInv'
    BY NextTypeOK, NextProfilesIsolated, NextClientInv, NextQueuedInv, NextHandOverInv
    DEF SavingInv, PersistenceInv
  <2> QED
    BY <2>1, NextNumbersInv, NextLoadedInv, NextExitInv, NextStopInv DEF SavingInv
<1> QED
  BY <1>1, InitSavingInv, PTL DEF Spec

(* Stopping is not losing: operation_loop drains its queue before it       *)
(* exits, and what it saved then is at least what stop found.              *)
THEOREM StopAlwaysSaves == Spec => []StopSaves
<1>1. SavingInv => StopSaves
  <2> SUFFICES ASSUME SavingInv, pc = "exited", client # NoProfile, client = atStop.profile,
                      ~failed, ~discarded
               PROVE  vault[client].n >= atStop.n
    BY DEF StopSaves
  <2> QED
    BY DEF SavingInv, ExitInv, StopInv
<1> QED
  BY <1>1, SavingInvariant, PTL

(* A copy on its way to the vault is not ahead of what is due either.      *)
EphemeralInv == DemoIsEphemeral /\ (pc = "write" => copy.n <= due.n)

(* A save writes the copy made from what was queued, and while a client is *)
(* there what is due only grows.                                           *)
LEMMA NextEphemeralInv == SavingInv /\ EphemeralInv /\ [Next]_vars => EphemeralInv'
<1> SUFFICES ASSUME SavingInv, EphemeralInv, [Next]_vars PROVE EphemeralInv'
  OBVIOUS
<1> USE DEF EphemeralInv, DemoIsEphemeral
<1>1. /\ TypeOK /\ changes \in Nat /\ due.n \in Nat /\ copy.n \in Nat
      /\ \A p \in Profiles : vault[p].n \in Nat
  BY SnapshotNumber, PersistenceAssumption DEF SavingInv, PersistenceInv, TypeOK
<1>2. CASE Change
  <2>1. due'.profile = due.profile /\ due'.n >= due.n /\ due'.n \in Nat
    <3>1. CASE demo
      BY <1>1, <1>2, <3>1, ChangeMakesSnapshot
    <3>2. CASE ~demo
      <4>1. due' = rooms' /\ rooms'.profile = rooms.profile /\ rooms.profile = due.profile
        BY <1>1, <1>2, <3>2, ChangeMakesSnapshot DEF SavingInv, PersistenceInv, ClientInv
      <4>2. rooms'.n = changes + 1
        BY <1>1, <1>2, ChangeMakesSnapshot DEF Change, Snapshots
      <4> QED
        BY <1>1, <4>1, <4>2 DEF SavingInv, NumbersInv
    <3> QED
      BY <1>1, <3>1, <3>2 DEF TypeOK
  <2>2. vault' = vault /\ copy' = copy /\ pc' = pc
    BY <1>2 DEF Change
  <2>3. due # Cleared
    BY <1>1, <1>2, SnapshotProfile DEF Change, SavingInv, PersistenceInv, ClientInv, TypeOK
  <2>4. due.profile \in Profiles
    BY <1>1, <2>3, SnapshotProfile DEF TypeOK
  <2> QED
    BY <1>1, <2>1, <2>2, <2>3, <2>4
<1>3. CASE PersistCopy
  <2>1. copy' = due /\ UNCHANGED <<due, vault>>
    BY <1>3, CopiesRooms DEF PersistCopy, history, SavingInv
  <2> QED
    BY <1>1, <2>1
<1>4. CASE PersistWrite
  <2>1. due.profile = client /\ client \in Profiles /\ due' = due /\ pc' = "check"
    BY <1>1, <1>4 DEF PersistWrite, SavingInv, PersistenceInv, ClientInv, TypeOK
  <2>2. vault'[due.profile] = copy
    BY <1>1, <1>4, <2>1 DEF PersistWrite, TypeOK
  <2> QED
    BY <1>4, <2>1, <2>2 DEF PersistWrite
<1>5. CASE ClearRooms
  BY <1>5 DEF ClearRooms
<1>6. CASE InstallRooms
  <2>1. due' = copy /\ vault' = vault /\ pc' = "idle"
    BY <1>6 DEF InstallRooms
  <2>2. copy = vault[active] /\ copy.profile = active /\ active \in Profiles
    BY <1>6, InstallsSnapshot DEF InstallRooms, SavingInv, LoadedInv, PersistenceInv
  <2> QED
    BY <1>1, <2>1, <2>2
<1>7. CASE UNCHANGED <<due, vault>> /\ (pc' = "write" => pc = "write" /\ copy' = copy)
  BY <1>7
<1> QED
  BY <1>2, <1>3, <1>4, <1>5, <1>6, <1>7
  DEF Next, OperationThread, Stopped, RequestReconnect, Stop, StartDemo, SwitchAccount,
      TakeOperation, Exit, PersistDropped, PersistFails, PersistCheck, DropClient, LoadRooms,
      ConnectFails, vars, pending, history

(* Nothing changed in demo mode is ever written to a vault, also not by a  *)
(* save that was queued before it and runs during it.                      *)
THEOREM DemoNeverSaved == Spec => []DemoIsEphemeral
<1>1. Init => EphemeralInv
  BY DEF Init, EphemeralInv, DemoIsEphemeral
<1>2. Spec => []EphemeralInv
  BY <1>1, NextEphemeralInv, SavingInvariant, PTL DEF Spec
<1>3. EphemeralInv => DemoIsEphemeral
  BY DEF EphemeralInv
<1> QED
  BY <1>2, <1>3, PTL

-----------------------------------------------------------------------------
(* A snapshot that names an account is one of that account's.              *)
LEMMA SnapshotOfAccount ==
  ASSUME NEW p \in Profiles, NEW r \in Snapshots \cup {Cleared}, r.profile = p
  PROVE  r \in SnapshotsOf(p)
<1>1. r \in Snapshots
  BY SnapshotProfile, PersistenceAssumption
<1> QED
  BY <1>1 DEF Snapshots, SnapshotsOf

(* The accounts the client is not authenticated for do not see its steps.  *)
LEMMA OtherVaultStutters ==
  ASSUME NEW p \in Profiles, client # p, client' # p, vault'[p] = vault[p]
  PROVE  UNCHANGED Vault(p)!vars
BY DEF Vault!vars

(* A step of the client's account that moves neither its save nor its copy.*)
LEMMA OwnVaultStutters ==
  ASSUME NEW p \in Profiles, client = p, client' = p,
         UNCHANGED <<vault, copy>>,
         pc' = pc \/ (pc \notin {"write", "check"} /\ pc' \notin {"write", "check"})
  PROVE  UNCHANGED Vault(p)!vars
BY DEF Vault!vars

(* Every account begins offline, with what its vault holds.                *)
LEMMA InitVaults == Init => \A p \in Profiles : Vault(p)!Init
<1> SUFFICES ASSUME Init, NEW p \in Profiles PROVE Vault(p)!Init
  OBVIOUS
<1>1. vault[p] = [profile |-> p, n |-> 0] /\ client # p
  BY PersistenceAssumption DEF Init
<1>2. [profile |-> p, n |-> 0] \in SnapshotsOf(p)
  BY PersistenceAssumption DEF SnapshotsOf
<1> QED
  BY <1>1, <1>2 DEF Vault!Init

(* The client's account: a save that begins, commits or returns.           *)
LEMMA SaveIsDurable ==
  ASSUME SavingInv, NEW p \in Profiles, client = p,
         PersistCopy \/ PersistWrite \/ PersistFails \/ PersistCheck
  PROVE  Vault(p)!Next
<1>1. CASE PersistCopy
  <2>1. pendingRooms = due /\ due.profile = p
    BY <1>1, CopiesRooms, PersistenceAssumption DEF SavingInv, PersistenceInv, ClientInv
  <2>2. pendingRooms \in SnapshotsOf(p)
    BY <2>1, SnapshotOfAccount DEF SavingInv, PersistenceInv, TypeOK
  <2>3. /\ pc = "copy" /\ pc' = "write" /\ copy' = pendingRooms
        /\ client' = client /\ vault' = vault
    BY <1>1 DEF PersistCopy
  <2>4. Vault(p)!Submit(pendingRooms)
    BY <2>3 DEF Vault!Submit
  <2> QED
    BY <2>2, <2>4 DEF Vault!Next
<1>2. CASE PersistWrite
  <2>1. /\ pc = "write" /\ pc' = "check" /\ copy' = copy /\ client' = client
        /\ vault' = [vault EXCEPT ![p] = copy]
    BY <1>2 DEF PersistWrite
  <2>2. vault'[p] = copy
    BY <2>1 DEF SavingInv, PersistenceInv, TypeOK
  <2>3. Vault(p)!Commit
    BY <2>1, <2>2 DEF Vault!Commit
  <2> QED
    BY <2>3 DEF Vault!Next
<1>3. CASE PersistFails \/ PersistCheck
  <2>1. /\ pc \in {"write", "check"} /\ pc' \in {"idle", "copy"}
        /\ copy' = copy /\ client' = client /\ vault' = vault
    BY <1>3 DEF PersistFails, PersistCheck
  <2>2. Vault(p)!Return
    BY <2>1 DEF Vault!Return
  <2> QED
    BY <2>2 DEF Vault!Next
<1> QED
  BY <1>1, <1>2, <1>3

(* Installing opens the vault that was loaded; dropping the client closes  *)
(* the one it was for.                                                     *)
LEMMA SessionIsDurable ==
  ASSUME SavingInv, NEW p \in Profiles, InstallRooms \/ DropClient
  PROVE  Vault(p)!Next \/ UNCHANGED Vault(p)!vars
<1>1. CASE InstallRooms
  <2>1. /\ client = NoProfile /\ client' = active /\ vault' = vault
        /\ pc' = "idle" /\ copy' = copy /\ copy = vault[active]
    BY <1>1, InstallsSnapshot DEF InstallRooms, SavingInv, LoadedInv, PersistenceInv
  <2>2. client # p
    BY <2>1, PersistenceAssumption
  <2>3. CASE active = p
    <3>1. Vault(p)!Open
      BY <2>1, <2>2, <2>3 DEF Vault!Open
    <3> QED
      BY <3>1 DEF Vault!Next
  <2>4. CASE active # p
    BY <2>1, <2>2, <2>4, OtherVaultStutters
  <2> QED
    BY <2>3, <2>4
<1>2. CASE DropClient
  <2>1. client' # p /\ vault' = vault /\ pc = "close"
    BY <1>2, PersistenceAssumption DEF DropClient
  <2>2. CASE client = p
    <3>1. Vault(p)!Close
      BY <2>1, <2>2 DEF Vault!Close
    <3> QED
      BY <3>1 DEF Vault!Next
  <2>3. CASE client # p
    BY <2>1, <2>3, OtherVaultStutters
  <2> QED
    BY <2>2, <2>3
<1> QED
  BY <1>1, <1>2

(* Every step is one of the account's vault, or leaves it alone.           *)
LEMMA VaultStep ==
  ASSUME SavingInv, [Next]_vars, NEW p \in Profiles
  PROVE  [Vault(p)!Next]_(Vault(p)!vars)
<1>1. CASE InstallRooms \/ DropClient
  BY <1>1, SessionIsDurable
<1>2. CASE PersistCopy \/ PersistWrite \/ PersistFails \/ PersistCheck
  <2>1. CASE client = p
    BY <1>2, <2>1, SaveIsDurable
  <2>2. CASE client # p
    <3>1. client' = client
      BY <1>2 DEF PersistCopy, PersistWrite, PersistFails, PersistCheck
    <3>2. vault' = vault \/ vault' = [vault EXCEPT ![client] = copy]
      BY <1>2 DEF PersistCopy, PersistWrite, PersistFails, PersistCheck
    <3>3. vault'[p] = vault[p]
      BY <2>2, <3>2 DEF SavingInv, PersistenceInv, TypeOK
    <3> QED
      BY <2>2, <3>1, <3>3, OtherVaultStutters
  <2> QED
    BY <2>1, <2>2
<1>3. CASE LoadRooms \/ ClearRooms \/ ConnectFails
  <2>1. client = NoProfile /\ client' = client /\ vault' = vault
    BY <1>3 DEF LoadRooms, ClearRooms, ConnectFails, SavingInv, PersistenceInv, ClientInv
  <2> QED
    BY <2>1, PersistenceAssumption, OtherVaultStutters
<1>4. CASE /\ UNCHANGED <<client, vault, copy>>
           /\ pc' = pc \/ (pc \notin {"write", "check"} /\ pc' \notin {"write", "check"})
  BY <1>4, OwnVaultStutters, OtherVaultStutters
<1>5. CASE TakeOperation \/ Exit \/ PersistDropped
  BY <1>4, <1>5 DEF TakeOperation, Exit, PersistDropped
<1>6. CASE \/ Change \/ RequestReconnect \/ Stop \/ StartDemo \/ (\E q \in Profiles : SwitchAccount(q))
           \/ UNCHANGED vars
  BY <1>4, <1>6 DEF Change, RequestReconnect, Stop, StartDemo, SwitchAccount, vars
<1> QED
  BY <1>1, <1>2, <1>3, <1>5, <1>6 DEF Next, OperationThread, Stopped

(* Every account's vault is used as DurableRooms, which RoomVault          *)
(* implements, expects it to be: a connection is given what the vault      *)
(* holds, saves follow one another, and a reconnect leaves none behind     *)
(* (persist_pending_impl, reconnect_impl, connect_impl).                   *)
THEOREM VaultsStayDurable == Spec => VaultsAreDurable
<1>1. SavingInv /\ [Next]_vars => \A p \in Profiles : [Vault(p)!Next]_(Vault(p)!vars)
  BY VaultStep
<1>2. Spec => [][\A p \in Profiles : [Vault(p)!Next]_(Vault(p)!vars)]_vars
  BY <1>1, SavingInvariant, PTL DEF Spec
<1>3. Spec => \A p \in Profiles : Vault(p)!Init
  BY InitVaults DEF Spec
<1> QED
  BY <1>2, <1>3 DEF VaultsAreDurable

-----------------------------------------------------------------------------
(* A step of the threads is a step of EnginePersistence, or none.          *)
LEMMA LifecycleStep == [LifecycleNext]_lifecycleVars => [Next]_vars
<1> SUFFICES ASSUME [LifecycleNext]_lifecycleVars PROVE [Next]_vars
  OBVIOUS
<1>1. CASE OperationSteps
  BY <1>1 DEF OperationSteps, BetweenOperations, InsideOperation, MarkReconnect, JoinAndDrop,
     InstallSession, SpawnListener, FinishConnect, ConnectThrows, Next, OperationThread
<1>2. CASE ListenerSteps
  BY <1>2 DEF ListenerSteps, ListenerChecks, ListenerCallsNext, ListenerHandles,
     ListenerSeesEnd, ListenerReports, ListenerEnqueues, Next
<1>3. CASE StopSteps
  BY <1>3 DEF StopSteps, StopReadsPointer, StopCloses, StopUsesDestroyed,
     StopJoinsOperations, StopJoinsListener, StopReturns
<1>4. CASE \/ ListenerReceives \/ ListenerThrows \/ ListenerSeesClose \/ StreamBreaks
           \/ HeartbeatEnds \/ UserReconnects \/ RoomsChange \/ DemoStarts \/ CallStop
           \/ \E p \in Profiles : DaemonRestarts(p)
  BY <1>4 DEF ListenerReceives, ListenerThrows, ListenerSeesClose, StreamBreaks,
     HeartbeatEnds, UserReconnects, RoomsChange, DemoStarts, CallStop, DaemonRestarts, Next
<1>5. CASE Finished \/ UNCHANGED lifecycleVars
  BY <1>5 DEF Finished, lifecycleVars
<1> QED
  BY <1>1, <1>2, <1>3, <1>4, <1>5 DEF LifecycleNext

(* The threads implement the hand-over of EnginePersistence: everything    *)
(* proved of its steps holds with the subscription thread and stop running *)
(* beside it.                                                              *)
THEOREM LifecycleImplementsPersistence == LifecycleSpec => Spec
<1>1. LifecycleInit => Init
  BY DEF LifecycleInit
<1> QED
  BY <1>1, LifecycleStep, PTL DEF LifecycleSpec, Spec

(* Accounts stay apart with the subscription thread and stop running.      *)
THEOREM LifecycleIsolatesAccounts == LifecycleSpec => []ProfilesIsolated
BY LifecycleImplementsPersistence, AccountsIsolated, PTL

(* No save due outside demo mode is forgotten with them running.           *)
THEOREM LifecycleForgetsNoSave == LifecycleSpec => []UnsavedIsQueued
BY LifecycleImplementsPersistence, NoSaveForgotten, PTL

(* A stop saves what it found with them running.                           *)
THEOREM LifecycleStopSaves == LifecycleSpec => []StopSaves
BY LifecycleImplementsPersistence, StopAlwaysSaves, PTL

(* Every account's vault is used as DurableRooms expects it with them      *)
(* running.                                                                *)
THEOREM LifecycleKeepsVaults == LifecycleSpec => VaultsAreDurable
BY LifecycleImplementsPersistence, VaultsStayDurable, PTL

-----------------------------------------------------------------------------
Between == pc \in {"clear", "load", "install"}

ThreadTypes ==
  /\ subscription \in {"none", "open", "broken", "closed"}
  /\ listener \in {"none", "check", "next", "recv", "handle", "report", "enqueue", "done"}
  /\ stage \in {"", "join", "spawn", "sync"}
  /\ reconnecting \in BOOLEAN
  /\ heartbeat \in {"none", "running", "done"}
  /\ stopper \in {"off", "close", "holding", "dangling", "join", "joinListener",
                 "joinHeartbeat", "returned", "crashed"}
  /\ missed \in BOOLEAN

StagePlace ==
  /\ stage = "join" => pc = "close"
  /\ stage \in {"spawn", "sync"} => pc = "idle"
  /\ stage # "" \/ Between => reconnecting

(* A session has a thread but between its installation and the spawn.      *)
SessionHasThread ==
  /\ subscription = "none" => listener = "none"
  /\ Between => subscription = "none"
  /\ stage = "spawn" => listener = "none" /\ subscription # "none"
  /\ stage = "sync" => listener \notin {"none", "enqueue"}
  /\ stage = "sync" /\ listener = "done" => missed \/ stopping

(* The subscription stop is about to close exists.                         *)
StopHolds == stopper = "holding" => subscription # "none"

LifecycleInv ==
  /\ StopHolds
  /\ PersistenceInv
  /\ ThreadTypes
  /\ StagePlace
  /\ SessionHasThread
  /\ ConnectedListens

(* A reconnect that is queued stays queued while other operations are      *)
(* added, and becomes the one that runs.                                   *)
LEMMA ReconnectStays ==
  ASSUME TypeOK, ReconnectComing, [Next]_vars, ~DropClient
  PROVE  ReconnectComing'
<1> USE DEF ReconnectComing
<1>1. CASE TakeOperation
  <2>1. ops \in Seq({"persist", "reconnect"}) /\ ops # <<>> /\ ops' = Tail(ops)
    BY <1>1 DEF TypeOK, TakeOperation
  <2>2. PICK i \in DOMAIN ops : ops[i] = "reconnect"
    BY <1>1 DEF TakeOperation
  <2>3. CASE Head(ops) = "reconnect"
    BY <1>1, <2>3 DEF TakeOperation
  <2>4. CASE Head(ops) # "reconnect"
    <3>1. Head(ops) = ops[1]
      BY <2>1
    <3>2. i - 1 \in DOMAIN Tail(ops) /\ Tail(ops)[i - 1] = ops[i]
      BY <2>1, <2>2, <2>4, <3>1, TakenOperation
    <3> QED
      BY <2>1, <2>2, <3>2
  <2> QED
    BY <2>3, <2>4
<1>2. ASSUME NEW o \in {"persist", "reconnect"}, ops' = Append(ops, o), pc = "close" => pc' = "close"
      PROVE  ReconnectComing'
  BY <1>2, AppendedOperation DEF TypeOK
<1>3. CASE ops' = ops /\ pc' = pc
  BY <1>3
<1>4. CASE Change
  BY <1>2, <1>3, <1>4 DEF Change, SaveLocked, pending
<1>5. CASE RequestReconnect
  BY <1>2, <1>5 DEF RequestReconnect
<1>6. CASE InstallRooms
  <2>1. pc # "close"
    BY <1>6 DEF InstallRooms
  <2>2. ops' = ops \/ ops' = Append(ops, "persist")
    BY <1>6 DEF InstallRooms, SaveLocked, pending
  <2>3. CASE ops' = ops
    BY <2>1, <2>3
  <2>4. CASE ops' = Append(ops, "persist")
    BY <1>2, <2>1, <2>4
  <2> QED
    BY <2>2, <2>3, <2>4
<1>7. CASE \/ PersistCopy \/ PersistDropped \/ PersistWrite \/ PersistFails \/ PersistCheck
           \/ ClearRooms \/ LoadRooms \/ ConnectFails \/ Exit
  <2>1. pc # "close" /\ ops' = ops
    BY <1>7 DEF PersistCopy, PersistDropped, PersistWrite, PersistFails, PersistCheck,
       ClearRooms, LoadRooms, ConnectFails, Exit, pending
  <2> QED
    BY <2>1
<1>8. CASE Stop \/ StartDemo \/ (\E p \in Profiles : SwitchAccount(p)) \/ Stopped
           \/ UNCHANGED vars
  BY <1>3, <1>8 DEF Stop, StartDemo, SwitchAccount, Stopped, vars, pending
<1> QED
  BY <1>1, <1>4, <1>5, <1>6, <1>7, <1>8 DEF Next, OperationThread

-----------------------------------------------------------------------------
LEMMA InitLifecycle == LifecycleInit => LifecycleInv
<1> SUFFICES ASSUME LifecycleInit PROVE LifecycleInv
  OBVIOUS
<1>1. PersistenceInv
  BY InitPersistenceInv DEF LifecycleInit
<1>2. pc = "idle" /\ client = NoProfile
  BY DEF LifecycleInit, Init
<1> QED
  BY <1>1, <1>2 DEF LifecycleInit, LifecycleInv, ThreadTypes, StagePlace, SessionHasThread,
     StopHolds, ConnectedListens, Between

LEMMA NextThreadTypes == ThreadTypes /\ [LifecycleNext]_lifecycleVars => ThreadTypes'
<1> SUFFICES ASSUME ThreadTypes, [LifecycleNext]_lifecycleVars PROVE ThreadTypes'
  OBVIOUS
<1> USE DEF ThreadTypes
<1>1. CASE OperationSteps
  BY <1>1 DEF OperationSteps, BetweenOperations, InsideOperation, MarkReconnect, JoinAndDrop,
     InstallSession, SpawnListener, FinishConnect, ConnectThrows, Closing, threads
<1>2. CASE ListenerSteps
  <2>1. CASE ListenerReports
    <3>1. missed' \in BOOLEAN
      BY <2>1, Zenon DEF ListenerReports
    <3> QED
      BY <2>1, <3>1 DEF ListenerReports
  <2>2. CASE ListenerSteps /\ ~ListenerReports
    BY <2>2 DEF ListenerSteps, ListenerChecks, ListenerCallsNext, ListenerHandles,
       ListenerSeesEnd, ListenerEnqueues
  <2> QED
    BY <1>2, <2>1, <2>2
<1>3. CASE StopSteps
  BY <1>3 DEF StopSteps, StopReadsPointer, StopCloses, StopUsesDestroyed,
     StopJoinsOperations, StopJoinsListener, StopReturns, Closing
<1>4. CASE \/ ListenerReceives \/ ListenerThrows \/ ListenerSeesClose \/ StreamBreaks
           \/ HeartbeatEnds \/ UserReconnects \/ RoomsChange \/ DemoStarts \/ CallStop
           \/ \E p \in Profiles : DaemonRestarts(p)
  BY <1>4 DEF ListenerReceives, ListenerThrows, ListenerSeesClose, StreamBreaks,
     HeartbeatEnds, UserReconnects, RoomsChange, DemoStarts, CallStop, DaemonRestarts,
     threads
<1>5. CASE Finished \/ UNCHANGED lifecycleVars
  BY <1>5 DEF Finished, lifecycleVars, threads
<1> QED
  BY <1>1, <1>2, <1>3, <1>4, <1>5 DEF LifecycleNext

(* Only the operation thread moves pc.                                     *)
LEMMA OthersLeavePc ==
  ASSUME [LifecycleNext]_lifecycleVars, ~OperationSteps
  PROVE  UNCHANGED <<pc, client, stage, reconnecting>> /\ (stopping => stopping')
<1>1. CASE ListenerSteps
  BY <1>1 DEF ListenerSteps, ListenerChecks, ListenerCallsNext, ListenerHandles,
     ListenerSeesEnd, ListenerReports, ListenerEnqueues, RequestReconnect, vars
<1>2. CASE StopSteps
  BY <1>2 DEF StopSteps, StopReadsPointer, StopCloses, StopUsesDestroyed,
     StopJoinsOperations, StopJoinsListener, StopReturns, vars
<1>3. CASE \/ ListenerReceives \/ ListenerThrows \/ ListenerSeesClose \/ StreamBreaks
           \/ HeartbeatEnds \/ UserReconnects \/ RoomsChange \/ DemoStarts \/ CallStop
           \/ \E p \in Profiles : DaemonRestarts(p)
  BY <1>3 DEF ListenerReceives, ListenerThrows, ListenerSeesClose, StreamBreaks,
     HeartbeatEnds, UserReconnects, RoomsChange, DemoStarts, CallStop, DaemonRestarts, threads,
     vars, Change, Stop, RequestReconnect, StartDemo, SwitchAccount
<1>4. CASE Finished \/ UNCHANGED lifecycleVars
  BY <1>4 DEF Finished, lifecycleVars, threads, vars
<1> QED
  BY <1>1, <1>2, <1>3, <1>4 DEF LifecycleNext

LEMMA NextStagePlace ==
  StagePlace /\ ThreadTypes /\ TypeOK /\ [LifecycleNext]_lifecycleVars => StagePlace'
<1> SUFFICES ASSUME StagePlace, ThreadTypes, TypeOK, [LifecycleNext]_lifecycleVars
             PROVE  StagePlace'
  OBVIOUS
<1> USE DEF StagePlace, Between
<1>1. CASE BetweenOperations
  BY <1>1 DEF BetweenOperations, TakeOperation, Exit, threads
<1>2. CASE InsideOperation
  BY <1>2 DEF InsideOperation, PersistCopy, PersistDropped, PersistWrite, PersistFails,
     PersistCheck, ClearRooms, LoadRooms, threads
<1>3. CASE MarkReconnect
  BY <1>3 DEF MarkReconnect, vars
<1>4. CASE JoinAndDrop
  <2>1. reconnecting' = reconnecting /\ stage' = "" /\ stage = "join" /\ pc' = "clear"
    BY <1>4 DEF JoinAndDrop, DropClient
  <2> QED
    BY <2>1
<1>5. CASE InstallSession
  BY <1>5 DEF InstallSession, InstallRooms
<1>6. CASE SpawnListener \/ FinishConnect
  BY <1>6 DEF SpawnListener, FinishConnect, vars
<1>7. CASE ConnectThrows
  <2>1. pc' = "idle" /\ stage' = stage /\ pc \in {"clear", "load", "install"}
    BY <1>7 DEF ConnectThrows, ConnectFails
  <2>2. stage = ""
    BY <2>1 DEF ThreadTypes
  <2> QED
    BY <2>1, <2>2
<1>8. CASE ~OperationSteps
  BY <1>8, OthersLeavePc
<1> QED
  BY <1>1, <1>2, <1>3, <1>4, <1>5, <1>6, <1>7, <1>8 DEF OperationSteps

(* missed changes only where the listener reports and where a reconnect    *)
(* is marked.                                                              *)
LEMMA NextSessionHasThread ==
  /\ LifecycleInv
  /\ [LifecycleNext]_lifecycleVars
  => SessionHasThread'
<1> SUFFICES ASSUME LifecycleInv, [LifecycleNext]_lifecycleVars
             PROVE  SessionHasThread'
  OBVIOUS
<1>0. SessionHasThread /\ StagePlace /\ ThreadTypes
  BY DEF LifecycleInv
<1> USE DEF SessionHasThread, Between
<1>1. CASE BetweenOperations
  BY <1>0, <1>1 DEF BetweenOperations, TakeOperation, Exit, threads
<1>2. CASE InsideOperation
  BY <1>0, <1>2 DEF InsideOperation, PersistCopy, PersistDropped, PersistWrite, PersistFails,
     PersistCheck, ClearRooms, LoadRooms, threads
<1>3. CASE MarkReconnect
  BY <1>0, <1>3 DEF MarkReconnect, Closing, vars
<1>4. CASE JoinAndDrop
  BY <1>4 DEF JoinAndDrop, DropClient
<1>5. CASE InstallSession
  BY <1>0, <1>5 DEF InstallSession, InstallRooms
<1>6. CASE SpawnListener \/ FinishConnect
  <2>1. pc = "idle" /\ pc' = pc /\ subscription' = subscription
    BY <1>0, <1>6 DEF SpawnListener, FinishConnect, vars, StagePlace
  <2>2. CASE SpawnListener
    <3>1. stage' = "sync" /\ listener' = "check"
      BY <2>2 DEF SpawnListener
    <3>2. subscription # "none"
      BY <1>0, <2>2 DEF SpawnListener
    <3> QED
      BY <2>1, <3>1, <3>2
  <2>3. CASE FinishConnect
    BY <1>0, <2>1, <2>3 DEF FinishConnect
  <2> QED
    BY <1>6, <2>2, <2>3
<1>7. CASE ConnectThrows
  BY <1>0, <1>7 DEF ConnectThrows, ConnectFails
<1>8. CASE ListenerSteps
  <2>1. UNCHANGED <<pc, stage, subscription>> /\ (stopping => stopping')
    BY <1>8, OthersLeavePc DEF ListenerSteps, ListenerChecks, ListenerCallsNext,
       ListenerHandles, ListenerSeesEnd, ListenerReports, ListenerEnqueues, RequestReconnect,
       vars
  <2>2. listener # "none" /\ listener' # "none"
    BY <1>8 DEF ListenerSteps, ListenerChecks, ListenerCallsNext, ListenerHandles,
       ListenerSeesEnd, ListenerReports, ListenerEnqueues
  <2>3. CASE stage = "sync"
    <3>1. reconnecting /\ listener # "enqueue"
      BY <1>0, <2>3 DEF StagePlace
    <3>2. listener' # "enqueue"
      BY <1>8, <3>1 DEF ListenerSteps, ListenerChecks, ListenerCallsNext, ListenerHandles,
         ListenerSeesEnd, ListenerReports, ListenerEnqueues
    <3>3. CASE ListenerChecks
      BY <1>0, <2>1, <2>2, <3>3 DEF ListenerChecks
    <3>4. CASE ListenerReports
      <4>1. missed'
        BY <2>3, <3>1, <3>4 DEF ListenerReports
      <4> QED
        BY <1>0, <2>1, <2>2, <3>2, <4>1
    <3>5. CASE ListenerCallsNext \/ ListenerHandles \/ ListenerSeesEnd
      BY <1>0, <2>1, <2>2, <3>5 DEF ListenerCallsNext, ListenerHandles, ListenerSeesEnd
    <3> QED
      BY <1>8, <3>1, <3>3, <3>4, <3>5 DEF ListenerSteps, ListenerEnqueues
  <2> QED
    BY <1>0, <2>1, <2>2, <2>3
<1>9. CASE ~OperationSteps /\ ~ListenerSteps
  <2>1. UNCHANGED <<pc, stage>> /\ (stopping => stopping')
    BY <1>9, OthersLeavePc
  <2>2. CASE ListenerReceives \/ ListenerThrows \/ ListenerSeesClose
    BY <1>0, <2>1, <2>2 DEF ListenerReceives, ListenerThrows, ListenerSeesClose, Asleep
  <2>3. ASSUME listener' = listener, missed' = missed,
               subscription' = "none" <=> subscription = "none"
        PROVE  SessionHasThread'
    BY <1>0, <2>1, <2>3
  <2>4. CASE StreamBreaks \/ HeartbeatEnds
    BY <2>3, <2>4 DEF StreamBreaks, HeartbeatEnds
  <2>5. CASE UserReconnects \/ RoomsChange \/ DemoStarts \/ CallStop
    BY <2>3, <2>5 DEF UserReconnects, RoomsChange, DemoStarts, CallStop, threads
  <2>6. CASE \E p \in Profiles : DaemonRestarts(p)
    BY <2>3, <2>6 DEF DaemonRestarts
  <2>7. CASE StopReadsPointer \/ StopUsesDestroyed \/ StopJoinsOperations
             \/ StopJoinsListener \/ StopReturns
    BY <2>3, <2>7 DEF StopReadsPointer, StopUsesDestroyed, StopJoinsOperations,
       StopJoinsListener, StopReturns
  <2>8. CASE StopCloses
    <3>1. stopper = "holding" /\ subscription' = Closing /\ listener' = listener
          /\ missed' = missed
      BY <2>8 DEF StopCloses
    <3>2. subscription # "none"
      BY <3>1 DEF LifecycleInv, StopHolds
    <3> QED
      BY <2>3, <3>1, <3>2 DEF Closing
  <2>9. CASE Finished \/ UNCHANGED lifecycleVars
    BY <2>3, <2>9 DEF Finished, lifecycleVars, threads
  <2> QED
    BY <1>9, <2>2, <2>4, <2>5, <2>6, <2>7, <2>8, <2>9 DEF LifecycleNext, StopSteps
<1> QED
  BY <1>1, <1>2, <1>3, <1>4, <1>5, <1>6, <1>7, <1>8, <1>9 DEF OperationSteps

LEMMA NextStopHolds == LifecycleInv /\ [LifecycleNext]_lifecycleVars => StopHolds'
<1> SUFFICES ASSUME LifecycleInv, [LifecycleNext]_lifecycleVars
             PROVE  StopHolds'
  OBVIOUS
<1>0. StopHolds
  BY DEF LifecycleInv
<1> USE DEF StopHolds
<1>1. CASE OperationSteps
  BY <1>0, <1>1 DEF OperationSteps, BetweenOperations, InsideOperation, MarkReconnect,
     JoinAndDrop, InstallSession, SpawnListener, FinishConnect, ConnectThrows, Closing, threads
<1>2. CASE ListenerSteps
  BY <1>0, <1>2 DEF ListenerSteps, ListenerChecks, ListenerCallsNext, ListenerHandles,
     ListenerSeesEnd, ListenerReports, ListenerEnqueues
<1>3. CASE StopSteps
  BY <1>0, <1>3 DEF StopSteps, StopReadsPointer, StopCloses, StopUsesDestroyed,
     StopJoinsOperations, StopJoinsListener, StopReturns
<1>4. CASE \/ ListenerReceives \/ ListenerThrows \/ ListenerSeesClose \/ StreamBreaks
           \/ HeartbeatEnds \/ UserReconnects \/ RoomsChange \/ DemoStarts \/ CallStop
  BY <1>0, <1>4 DEF ListenerReceives, ListenerThrows, ListenerSeesClose, StreamBreaks,
     HeartbeatEnds, UserReconnects, RoomsChange, DemoStarts, CallStop, threads
<1>5. CASE \E p \in Profiles : DaemonRestarts(p)
  BY <1>0, <1>5 DEF DaemonRestarts
<1>6. CASE Finished \/ UNCHANGED lifecycleVars
  BY <1>0, <1>6 DEF Finished, lifecycleVars, threads
<1> QED
  BY <1>1, <1>2, <1>3, <1>4, <1>5, <1>6 DEF LifecycleNext

-----------------------------------------------------------------------------
(* A stop that is called stays called, and only an installation makes a    *)
(* client.                                                                 *)
LEMMA KeepsClient ==
  ASSUME [LifecycleNext]_lifecycleVars, ~InstallSession, client' # NoProfile, ~stopping'
  PROVE  client # NoProfile /\ ~stopping
<1>1. CASE OperationSteps
  <2>1. ASSUME UNCHANGED <<client, stopping>> PROVE client # NoProfile /\ ~stopping
    BY <2>1, Zenon
  <2>2. CASE BetweenOperations
    <3>1. UNCHANGED <<client, stopping>>
      BY <2>2 DEF BetweenOperations, TakeOperation, Exit
    <3> QED
      BY <2>1, <3>1
  <2>3. CASE InsideOperation
    <3>1. UNCHANGED <<client, stopping>>
      BY <2>3 DEF InsideOperation, PersistCopy, PersistDropped, PersistWrite, PersistFails,
         PersistCheck, ClearRooms, LoadRooms
    <3> QED
      BY <2>1, <3>1
  <2>4. CASE MarkReconnect \/ SpawnListener \/ FinishConnect
    <3>1. UNCHANGED <<client, stopping>>
      BY <2>4 DEF MarkReconnect, SpawnListener, FinishConnect, vars
    <3> QED
      BY <2>1, <3>1
  <2>5. CASE JoinAndDrop
    BY <2>5 DEF JoinAndDrop, DropClient
  <2>6. CASE ConnectThrows
    <3>1. UNCHANGED <<client, stopping>>
      BY <2>6 DEF ConnectThrows, ConnectFails
    <3> QED
      BY <2>1, <3>1
  <2> QED
    BY <1>1, <2>2, <2>3, <2>4, <2>5, <2>6 DEF OperationSteps
<1>2. CASE ~OperationSteps
  BY <1>2, OthersLeavePc
<1> QED
  BY <1>1, <1>2

(* A step that neither moves the listener, nor leaves a stage, nor forgets *)
(* that a stream's end was missed.                                         *)
LEMMA KeepsListening ==
  ASSUME TypeOK, ConnectedListens, [LifecycleNext]_lifecycleVars, ~InstallSession,
         ~JoinAndDrop, UNCHANGED <<stage, missed>>,
         listener \notin {"none", "done"} => listener' \notin {"none", "done"}
  PROVE  ConnectedListens'
<1>1. SUFFICES ASSUME client' # NoProfile, ~stopping', ~missed', listener' \in {"none", "done"},
                      stage' = ""
               PROVE  ReconnectComing'
  BY DEF ConnectedListens
<1>2. client # NoProfile /\ ~stopping
  BY <1>1, KeepsClient
<1>3. ReconnectComing
  BY <1>1, <1>2 DEF ConnectedListens
<1>4. [Next]_vars
  BY LifecycleStep
<1>5. ~DropClient \/ client' = NoProfile
  BY DEF DropClient
<1> QED
  BY <1>1, <1>3, <1>4, <1>5, ReconnectStays

LEMMA NextConnectedListens ==
  LifecycleInv /\ [LifecycleNext]_lifecycleVars => ConnectedListens'
<1> SUFFICES ASSUME LifecycleInv, [LifecycleNext]_lifecycleVars
             PROVE  ConnectedListens'
  OBVIOUS
<1>0. /\ PersistenceInv /\ ThreadTypes /\ StagePlace /\ SessionHasThread /\ ConnectedListens
      /\ TypeOK
  BY DEF LifecycleInv, PersistenceInv
<1>1. CASE MarkReconnect \/ InstallSession \/ SpawnListener
  BY <1>1 DEF MarkReconnect, InstallSession, SpawnListener, ConnectedListens
<1>2. CASE JoinAndDrop
  BY <1>2 DEF JoinAndDrop, DropClient, ConnectedListens
<1>3. CASE FinishConnect
  <2>1. stage = "sync" /\ UNCHANGED <<stopping, missed, listener>>
    BY <1>3 DEF FinishConnect, vars
  <2>2. listener # "none" /\ (listener = "done" => missed \/ stopping)
    BY <1>0, <2>1 DEF SessionHasThread
  <2> QED
    BY <2>1, <2>2 DEF ConnectedListens
<1>4. CASE ListenerChecks
  <2>1. listener = "check" /\ UNCHANGED <<stage, missed, stopping>>
    BY <1>4 DEF ListenerChecks, vars
  <2>2. listener' = "done" => stopping
    BY <1>0, <1>4 DEF ListenerChecks, SessionHasThread
  <2>3. listener' \in {"done", "next"}
    BY <1>4 DEF ListenerChecks
  <2> QED
    BY <2>1, <2>2, <2>3 DEF ConnectedListens
<1>5. CASE ListenerReports
  <2>1. UNCHANGED <<stage, stopping>>
    BY <1>5 DEF ListenerReports, vars
  <2>2. CASE stopping \/ ~reconnecting
    BY <1>5, <2>1, <2>2 DEF ListenerReports, ConnectedListens
  <2>3. CASE reconnecting /\ stage = "join"
    BY <2>1, <2>3 DEF ConnectedListens
  <2>4. CASE reconnecting /\ stage # "join"
    <3>1. missed'
      BY <1>5, <2>4 DEF ListenerReports
    <3> QED
      BY <3>1 DEF ConnectedListens
  <2> QED
    BY <1>0, <2>2, <2>3, <2>4 DEF ThreadTypes
<1>6. CASE ListenerEnqueues
  <2>1. CASE stopping
    BY <1>6, <2>1 DEF ListenerEnqueues, vars, ConnectedListens
  <2>2. CASE ~stopping
    <3>1. RequestReconnect
      BY <1>6, <2>2 DEF ListenerEnqueues
    <3>2. ops \in Seq({"persist", "reconnect"}) /\ ops' = Append(ops, "reconnect")
      BY <1>0, <3>1 DEF RequestReconnect, TypeOK
    <3>3. ReconnectComing'
      BY <3>2, AppendedOperation DEF ReconnectComing
    <3> QED
      BY <3>3 DEF ConnectedListens
  <2> QED
    BY <2>1, <2>2
<1>7. CASE ListenerCallsNext \/ ListenerHandles \/ ListenerSeesEnd \/ ListenerReceives
           \/ ListenerThrows \/ ListenerSeesClose
  BY <1>7 DEF ListenerCallsNext, ListenerHandles, ListenerSeesEnd, ListenerReceives,
     ListenerThrows, ListenerSeesClose, Asleep, ConnectedListens
<1>8. CASE /\ ~InstallSession /\ ~JoinAndDrop
           /\ UNCHANGED <<stage, missed, listener>>
  BY <1>0, <1>8, KeepsListening
<1>9. CASE \/ BetweenOperations \/ InsideOperation \/ ConnectThrows \/ StopSteps
           \/ StreamBreaks \/ HeartbeatEnds \/ UserReconnects \/ RoomsChange \/ DemoStarts
           \/ CallStop \/ (\E p \in Profiles : DaemonRestarts(p))
           \/ Finished \/ UNCHANGED lifecycleVars
  <2>1. UNCHANGED <<stage, missed, listener>>
    BY <1>9 DEF BetweenOperations, InsideOperation, ConnectThrows, StopSteps, StopReadsPointer,
       StopCloses, StopUsesDestroyed, StopJoinsOperations, StopJoinsListener, StopReturns,
       StreamBreaks, HeartbeatEnds, UserReconnects, RoomsChange, DemoStarts, CallStop,
       DaemonRestarts, Finished, lifecycleVars, threads
  <2> QED
    BY <1>1, <1>2, <1>8, <2>1
<1> QED
  BY <1>1, <1>2, <1>3, <1>4, <1>5, <1>6, <1>7, <1>9
     DEF LifecycleNext, OperationSteps, ListenerSteps

-----------------------------------------------------------------------------
(* The strengthening of this module's safety invariants is inductive.      *)
THEOREM LifecycleInvariant == LifecycleSpec => []LifecycleInv
<1>1. LifecycleInit => LifecycleInv
  BY InitLifecycle
<1>2. LifecycleInv /\ [LifecycleNext]_lifecycleVars => LifecycleInv'
  <2> SUFFICES ASSUME LifecycleInv, [LifecycleNext]_lifecycleVars PROVE LifecycleInv'
    OBVIOUS
  <2>1. PersistenceInv'
    <3>1. PersistenceInv /\ TypeOK /\ ProfilesIsolated /\ ClientInv /\ [Next]_vars
      BY LifecycleStep DEF LifecycleInv, PersistenceInv
    <3> QED
      BY <3>1, NextTypeOK, NextProfilesIsolated, NextClientInv, NextQueuedInv,
         NextHandOverInv DEF PersistenceInv
  <2>2. ThreadTypes'
    BY NextThreadTypes DEF LifecycleInv
  <2>3. StagePlace'
    BY NextStagePlace DEF LifecycleInv, PersistenceInv
  <2> QED
    BY <2>1, <2>2, <2>3, NextSessionHasThread, NextStopHolds, NextConnectedListens
       DEF LifecycleInv
<1> QED
  BY <1>1, <1>2, PTL DEF LifecycleSpec

(* Type correctness, with the stages of reconnect_impl at their places in  *)
(* the operation thread.                                                   *)
THEOREM LifecycleTypeCorrect == LifecycleSpec => []LifecycleTypeOK
<1>1. LifecycleInv => LifecycleTypeOK
  BY DEF LifecycleInv, PersistenceInv, ThreadTypes, StagePlace, LifecycleTypeOK
<1> QED
  BY <1>1, LifecycleInvariant, PTL

(* connect_impl never assigns over a joinable subscription thread, however *)
(* reconnects, broken streams and stop interleave.                         *)
THEOREM NeverReplacesThread == LifecycleSpec => []ThreadNotReplaced
<1>1. LifecycleInv => ThreadNotReplaced
  BY DEF LifecycleInv, SessionHasThread, ThreadNotReplaced
<1> QED
  BY <1>1, LifecycleInvariant, PTL

(* The subscription is never destroyed under the thread that reads it.     *)
THEOREM ListenerAlwaysHasSession == LifecycleSpec => []ListenerHasSession
<1>1. LifecycleInv => ListenerHasSession
  BY DEF LifecycleInv, SessionHasThread, ListenerHasSession
<1> QED
  BY <1>1, LifecycleInvariant, PTL

(* Both: the listener keeps its thread and its session to itself.          *)
THEOREM ListenerStaysIntact == LifecycleSpec => []ListenerIntact
<1>1. ThreadNotReplaced /\ ListenerHasSession => ListenerIntact
  BY DEF ListenerIntact
<1> QED
  BY <1>1, NeverReplacesThread, ListenerAlwaysHasSession, PTL

(* A connected engine listens or is about to reconnect, but for the stream *)
(* that ends while connect_impl still runs.                                *)
THEOREM StaysListening == LifecycleSpec => []ConnectedListens
<1>1. LifecycleInv => ConnectedListens
  BY DEF LifecycleInv
<1> QED
  BY <1>1, LifecycleInvariant, PTL

=============================================================================
