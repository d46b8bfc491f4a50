-------------------------- MODULE EnginePersistence --------------------------
(***************************************************************************)
(* How the desktop engine gets its rooms into the vault (room_engine.cpp:  *)
(* save_locked, persist_pending_impl, enqueue, operation_loop,             *)
(* reconnect_impl, connect_impl, stop).  Any thread changes state_.rooms   *)
(* under the mutex and calls save_locked, which keeps only the newest      *)
(* snapshot and queues at most one persist operation.  One operation       *)
(* thread runs the queue: persists, and reconnects, which drop the client, *)
(* clear the rooms and load them again for the daemon's current account.   *)
(*                                                                         *)
(* The rooms are abstracted to their account and the number of the last    *)
(* change made to them; the vault of an account to the snapshot RoomVault  *)
(* shows it to be.  persist_revision_ is only ever compared with an        *)
(* earlier value of itself: newer says that it has moved since.            *)
(***************************************************************************)
EXTENDS Naturals, Sequences

CONSTANTS
  Profiles,       \* daemon accounts
  NoProfile,      \* an empty profile id, a null client_
  MaxChanges,     \* bound: changes made to rooms
  MaxReconnects   \* bound: reconnects waiting in the queue

ASSUME PersistenceAssumption ==
  /\ Profiles # {}
  /\ NoProfile \notin Profiles
  /\ MaxChanges \in Nat
  /\ MaxReconnects \in Nat \ {0}

VARIABLES
  account,         \* the account the daemon runs
  vault,           \* vault[p]: the snapshot stored for p
  rooms,           \* state_.rooms
  client,          \* the account client_ is authenticated for
  active,          \* active_profile_id_
  pendingRooms,    \* pending_persist_rooms_
  pendingProfile,  \* pending_persist_profile_id_
  newer,           \* persist_revision_ moved since the operation copied it
  queued,          \* persistence_queued_
  stopping,        \* stopping_
  demo,            \* state_.demo_mode
  ops,             \* operations_
  pc,              \* what the operation thread does
  copy,            \* its copy of rooms: to be saved, or loaded
  changes,         \* history: changes made so far
  due,             \* history: the rooms, but for the changes of demo mode
  failed,          \* history: the last save failed
  discarded,       \* history: a reconnect cleared due rooms the vault did not hold
  atStop           \* history: the due rooms when stop was called

pending == <<pendingRooms, pendingProfile, newer, queued, ops>>
history == <<changes, due, failed, discarded, atStop>>
vars == <<account, vault, rooms, client, active, pending, stopping, demo, pc, copy, history>>

Snapshots == [profile : Profiles, n : 0..MaxChanges]
Cleared == [profile |-> NoProfile, n |-> 0]

TypeOK ==
  /\ account \in Profiles
  /\ vault \in [Profiles -> Snapshots]
  /\ rooms \in Snapshots \cup {Cleared}
  /\ client \in Profiles \cup {NoProfile}
  /\ active \in Profiles \cup {NoProfile}
  /\ pendingRooms \in Snapshots \cup {Cleared}
  /\ pendingProfile \in Profiles \cup {NoProfile}
  /\ newer \in BOOLEAN
  /\ queued \in BOOLEAN
  /\ stopping \in BOOLEAN
  /\ demo \in BOOLEAN
  /\ ops \in Seq({"persist", "reconnect"})
  /\ pc \in {"idle", "copy", "write", "check", "close", "clear", "load", "install", "exited"}
  /\ copy \in Snapshots \cup {Cleared}
  /\ changes \in 0..MaxChanges
  /\ due \in Snapshots \cup {Cleared}
  /\ failed \in BOOLEAN
  /\ discarded \in BOOLEAN
  /\ atStop \in Snapshots \cup {Cleared}

Init ==
  /\ account \in Profiles
  /\ vault = [p \in Profiles |-> [profile |-> p, n |-> 0]]
  /\ rooms = Cleared
  /\ client = NoProfile
  /\ active = NoProfile
  /\ pendingRooms = Cleared
  /\ pendingProfile = NoProfile
  /\ newer = FALSE
  /\ queued = FALSE
  /\ stopping = FALSE
  /\ demo = FALSE
  /\ ops = <<>>
  /\ pc = "idle"
  /\ copy = Cleared
  /\ changes = 0
  /\ due = Cleared
  /\ failed = FALSE
  /\ discarded = FALSE
  /\ atStop = Cleared

-----------------------------------------------------------------------------
(* A slip: the early return of a save already queued comes before the copy *)
(* of the rooms, not after it.                                             *)
SaveLockedKeepingFirst(r, c, a, d) ==
  IF d \/ c = NoProfile \/ a = NoProfile
  THEN UNCHANGED pending
  ELSE /\ pendingProfile' = a
       /\ newer' = TRUE
       /\ IF queued \/ stopping
          THEN UNCHANGED <<pendingRooms, queued, ops>>
          ELSE pendingRooms' = r /\ queued' = TRUE /\ ops' = Append(ops, "persist")

(* save_locked with state_.rooms = r, client_ = c, active_profile_id_ = a  *)
(* and state_.demo_mode = d.                                               *)
SaveLocked(r, c, a, d) ==
  IF d \/ c = NoProfile \/ a = NoProfile
  THEN UNCHANGED pending
  ELSE /\ pendingRooms' = r
       /\ pendingProfile' = a
       /\ newer' = TRUE
       /\ IF queued \/ stopping
          THEN UNCHANGED <<queued, ops>>
          ELSE queued' = TRUE /\ ops' = Append(ops, "persist")

(* A thread changes the rooms and calls save_locked under the mutex: the   *)
(* interface, the operation thread, or the subscription thread applying an *)
(* event.  During stop only the last is left, and it needs the client.     *)
Change ==
  /\ rooms # Cleared
  /\ stopping => client # NoProfile
  /\ changes < MaxChanges
  /\ changes' = changes + 1
  /\ rooms' = [rooms EXCEPT !.n = changes']
  /\ due' = IF demo THEN due ELSE rooms'
  /\ SaveLocked(rooms', client, active, demo)
  /\ UNCHANGED <<account, vault, client, active, stopping, demo, pc, copy, failed, discarded, atStop>>

(* reconnect_daemon, or subscription_loop after its connection broke:      *)
(* enqueue drops the operation once the engine is stopping.                *)
RequestReconnect ==
  /\ ~stopping
  /\ Len(SelectSeq(ops, LAMBDA o : o = "reconnect")) < MaxReconnects
  /\ ops' = Append(ops, "reconnect")
  /\ UNCHANGED <<account, vault, rooms, client, active, pendingRooms, pendingProfile,
                 newer, queued, stopping, demo, pc, copy, history>>

Stop ==
  /\ ~stopping
  /\ stopping' = TRUE
  /\ atStop' = due
  /\ UNCHANGED <<account, vault, rooms, client, active, pending, demo, pc, copy,
                 changes, due, failed, discarded>>

(* The interface starts demo mode, connected or not: the client and the    *)
(* rooms stay, and nothing is saved until a reconnect installs the rooms   *)
(* anew.  (The room it shows when there is none is left out: no session    *)
(* holds it.)                                                              *)
StartDemo ==
  /\ ~stopping
  /\ demo' = TRUE
  /\ UNCHANGED <<account, vault, rooms, client, active, pending, stopping, pc, copy, history>>

(* The daemon is restarted with another account.                           *)
SwitchAccount(p) ==
  /\ p # account
  /\ account' = p
  /\ UNCHANGED <<vault, rooms, client, active, pending, stopping, demo, pc, copy, history>>

-----------------------------------------------------------------------------
(* operation_loop takes the next operation, also when stopping.            *)
TakeOperation ==
  /\ pc = "idle"
  /\ ops # <<>>
  /\ ops' = Tail(ops)
  /\ pc' = IF Head(ops) = "persist" THEN "copy" ELSE "close"
  /\ UNCHANGED <<account, vault, rooms, client, active, pendingRooms, pendingProfile,
                 newer, queued, stopping, demo, copy, history>>

(* A slip: the operation thread leaves as soon as the engine is stopping.  *)
ExitAtOnce ==
  /\ pc = "idle"
  /\ stopping
  /\ pc' = "exited"
  /\ UNCHANGED <<account, vault, rooms, client, active, pending, stopping, demo, copy, history>>

(* It leaves only when the engine is stopping and nothing is queued.       *)
Exit ==
  /\ pc = "idle"
  /\ stopping
  /\ ops = <<>>
  /\ pc' = "exited"
  /\ UNCHANGED <<account, vault, rooms, client, active, pending, stopping, demo, copy, history>>

PendingIsCurrent ==
  client # NoProfile /\ pendingProfile # NoProfile /\ pendingProfile = active

(* A slip: it takes the rooms as they are by now, not what was queued.     *)
PersistCopyRooms ==
  /\ pc = "copy"
  /\ PendingIsCurrent
  /\ copy' = rooms
  /\ newer' = FALSE
  /\ pc' = "write"
  /\ UNCHANGED <<account, vault, rooms, client, active, pendingRooms, pendingProfile,
                 queued, stopping, demo, ops, history>>

(* persist_pending_impl, first block under the mutex.                      *)
PersistCopy ==
  /\ pc = "copy"
  /\ PendingIsCurrent
  /\ copy' = pendingRooms
  /\ newer' = FALSE
  /\ pc' = "write"
  /\ UNCHANGED <<account, vault, rooms, client, active, pendingRooms, pendingProfile,
                 queued, stopping, demo, ops, history>>

PersistDropped ==
  /\ pc = "copy"
  /\ ~PendingIsCurrent
  /\ queued' = FALSE
  /\ pc' = "idle"
  /\ UNCHANGED <<account, vault, rooms, client, active, pendingRooms, pendingProfile,
                 newer, stopping, demo, ops, copy, history>>

(* save_encrypted_rooms, without the mutex, on the session of client.      *)
PersistWrite ==
  /\ pc = "write"
  /\ client = account
  /\ vault' = [vault EXCEPT ![client] = copy]
  /\ failed' = FALSE
  /\ pc' = "check"
  /\ UNCHANGED <<account, rooms, client, active, pending, stopping, demo, copy, changes,
                 due, discarded, atStop>>

(* It throws: the failure is logged and nothing retries the save.          *)
PersistFails ==
  /\ pc = "write"
  /\ failed' = TRUE
  /\ queued' = FALSE
  /\ pc' = "idle"
  /\ UNCHANGED <<account, vault, rooms, client, active, pendingRooms, pendingProfile,
                 newer, stopping, demo, ops, copy, changes, due, discarded, atStop>>

(* A slip: changes made during the write are left to the next save.        *)
PersistCheckOnce ==
  /\ pc = "check"
  /\ queued' = FALSE
  /\ pc' = "idle"
  /\ UNCHANGED <<account, vault, rooms, client, active, pendingRooms, pendingProfile,
                 newer, stopping, demo, ops, copy, history>>

(* The rooms changed while the snapshot was being written: save again.     *)
PersistCheck ==
  /\ pc = "check"
  /\ IF newer /\ pendingProfile = active
     THEN pc' = "copy" /\ UNCHANGED queued
     ELSE pc' = "idle" /\ queued' = FALSE
  /\ UNCHANGED <<account, vault, rooms, client, active, pendingRooms, pendingProfile,
                 newer, stopping, demo, ops, copy, history>>

-----------------------------------------------------------------------------
(* A slip: the old client is kept until the new one is installed.          *)
DropClientLate ==
  /\ pc = "close"
  /\ pc' = "clear"
  /\ UNCHANGED <<account, vault, rooms, client, active, pending, stopping, demo, copy, history>>

(* reconnect_impl joins the subscription thread and drops the client.      *)
DropClient ==
  /\ pc = "close"
  /\ client' = NoProfile
  /\ pc' = "clear"
  /\ UNCHANGED <<account, vault, rooms, active, pending, stopping, demo, copy, history>>

(* connect_impl clears the account it leaves from the visible state.       *)
ClearRooms ==
  /\ pc = "clear"
  /\ rooms' = Cleared
  /\ due' = Cleared
  /\ discarded' = (discarded \/ (due # Cleared /\ vault[due.profile] # due))
  /\ pc' = "load"
  /\ UNCHANGED <<account, vault, client, active, pending, stopping, demo, copy, changes,
                 failed, atStop>>

(* It loads the vault of the account the daemon runs.                      *)
LoadRooms ==
  /\ pc = "load"
  /\ active' = account
  /\ copy' = vault[account]
  /\ pc' = "install"
  /\ UNCHANGED <<account, vault, rooms, client, pending, stopping, demo, history>>

(* It installs them with the new client, in one block under the mutex.     *)
InstallRooms ==
  /\ pc = "install"
  /\ account = active
  /\ rooms' = copy
  /\ due' = copy
  /\ client' = active
  /\ demo' = FALSE
  /\ SaveLocked(copy, active, active, FALSE)
  /\ pc' = "idle"
  /\ UNCHANGED <<account, vault, active, stopping, copy, changes, failed, discarded,
                 atStop>>

(* Discovery, authentication, the load or a later request throws: before   *)
(* the clearing, after it, or once active_profile_id_ is set.              *)
ConnectFails ==
  /\ pc \in {"clear", "load", "install"}
  /\ active' \in (IF pc = "load" THEN {active, account} ELSE {active})
  /\ pc' = "idle"
  /\ UNCHANGED <<account, vault, rooms, client, pending, stopping, demo, copy, history>>

OperationThread ==
  \/ TakeOperation \/ Exit
  \/ PersistCopy \/ PersistDropped \/ PersistWrite \/ PersistFails \/ PersistCheck
  \/ DropClient \/ ClearRooms \/ LoadRooms \/ InstallRooms \/ ConnectFails

(* stop has returned.                                                      *)
Stopped == pc = "exited" /\ UNCHANGED vars

Next ==
  \/ OperationThread
  \/ Change
  \/ RequestReconnect
  \/ Stop
  \/ StartDemo
  \/ \E p \in Profiles : SwitchAccount(p)
  \/ Stopped

Spec == Init /\ [][Next]_vars

(* The operation thread keeps running; a request to the daemon is answered *)
(* or its socket closes.                                                   *)
FairSpec == Spec /\ WF_vars(OperationThread)

-----------------------------------------------------------------------------
(* A snapshot of one account is never written into the vault of another,   *)
(* however saves, failed connections and account switches interleave.      *)
ProfilesIsolated == \A p \in Profiles : vault[p].profile = p

(* No lost wake-up in the hand-over between save_locked and                *)
(* persist_pending_impl: while connected, a change made outside demo mode  *)
(* that is not in the vault has a persist operation coming, or the last    *)
(* save failed, even if demo mode has been started since.                  *)
UnsavedIsQueued ==
  client # NoProfile /\ due # vault[client] /\ ~failed /\ ~stopping
    => /\ queued
       /\ \/ pc \in {"copy", "write", "check"}
          \/ \E i \in DOMAIN ops : ops[i] = "persist"

(* "Demo state is intentionally ephemeral" (start_demo_mode): a save       *)
(* queued before demo mode and written during it stores nothing of it.     *)
DemoIsEphemeral == due # Cleared => vault[due.profile].n <= due.n

(* The operation thread drains its queue before it exits: what was in the  *)
(* rooms when stop was called, but for changes made in demo mode, is       *)
(* stored, unless the save failed or a reconnect ran.                      *)
StopSaves ==
  pc = "exited" /\ client # NoProfile /\ client = atStop.profile /\ ~failed /\ ~discarded
    => vault[client].n >= atStop.n

(* Every change made outside demo mode reaches the vault, unless saving    *)
(* fails, a reconnect drops it or the engine stops.                        *)
ChangesReachVault ==
  \A k \in 1..MaxChanges :
    (changes = k /\ client # NoProfile /\ due.n = k)
      ~> (\/ \E p \in Profiles : vault[p].n >= k
          \/ failed \/ discarded \/ stopping \/ client = NoProfile)

(* The vault of p as its engine uses it: open while the client is          *)
(* authenticated for p, saving while its copy is being written.            *)
SnapshotsOf(p) == [profile : {p}, n : 0..MaxChanges]

Vault(p) == INSTANCE DurableRooms WITH
  Snapshots <- SnapshotsOf(p),
  Empty <- [profile |-> p, n |-> 0],
  durable <- vault[p],
  phase <- IF client # p THEN "offline"
           ELSE IF pc = "write" THEN "saving"
           ELSE IF pc = "check" THEN "saved" ELSE "ready",
  draft <- IF client = p THEN copy ELSE [profile |-> p, n |-> 0]

(* The engine keeps to the protocol RoomVault implements, for every        *)
(* account at once: it begins with what the vault holds now, has one save  *)
(* at a time, and none on a session that a reconnect has dropped.          *)
VaultsAreDurable ==
  /\ \A p \in Profiles : Vault(p)!Init
  /\ [][\A p \in Profiles : [Vault(p)!Next]_(Vault(p)!vars)]_vars

(* room_engine.cpp says of the account it clears from the visible state    *)
(* that its state remains safely stored in its profile database.           *)
ClearedRoomsAreStored == ~discarded

(* Of a connected engine one would expect that every change is saved or    *)
(* being saved.  Demo mode does not disconnect, and what is delivered or   *)
(* edited in it never is.                                                  *)
ConnectedSaves ==
  client # NoProfile /\ rooms # vault[client] /\ ~failed /\ ~stopping => queued

=============================================================================
