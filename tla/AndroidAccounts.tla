--------------------------- MODULE AndroidAccounts ---------------------------
(***************************************************************************)
(* The Android engine's connections, its room list and the vaults of the   *)
(* daemon's accounts (RoomEngine.kt: connectInternal, createRoom,          *)
(* joinRoom, removeSelectedRoom, replaceRoom, saveRoomsLocked,             *)
(* persistenceLoop).  Every operation is a coroutine of its own, on a pool *)
(* of threads; a reconnect cancels the subscription's and no other.        *)
(*                                                                         *)
(* A list is a set of memberships: the room, and the account whose         *)
(* identity and store the Room object carries.  The contents of a room are *)
(* left out: AndroidRoom models how two copies of one are merged.  So are  *)
(* the selection, the registration of the app, the migration of the files  *)
(* of older builds, and how often a list holds one membership: two joins   *)
(* of a room that both pass the check append it twice.                     *)
(*                                                                         *)
(* replaceRoom, createRoom, joinRoom and removeSelectedRoom read the list  *)
(* and write it back under `lock'; connectInternal clears it without.  A   *)
(* clear that comes in between is undone by the write (held).              *)
(***************************************************************************)
EXTENDS Naturals

CONSTANTS
  Accounts,     \* daemon accounts
  NoAccount,    \* null, and a blank main_dht
  Rooms,        \* rooms the user may create or join
  Connections,  \* coroutines that run connectInternal
  Workers,      \* coroutines that read a room and write it back
  Adders,       \* coroutines that run createRoom or joinRoom
  Older         \* the connection of a VeilKnitClient that is no longer kept

ASSUME AccountsAssumption ==
  /\ Accounts # {}
  /\ NoAccount \notin Accounts
  /\ Older \notin Connections

VARIABLES
  account,    \* the account the daemon runs
  vault,      \* vault[p]: the list stored for p
  active,     \* activeProfileId
  client,     \* client: the account it authenticated for, and by which connection
  identity,   \* mutableState's mainDht: the account it belongs to
  rooms,      \* mutableState's rooms
  held,       \* what the holder of lock had read when the list was cleared
  pending,    \* pendingPersistence
  signal,     \* persistenceSignal holds a Unit
  saving,     \* what persistenceLoop is writing
  phase,      \* phase[c]: where connection c is
  announced,  \* announced[c]: the account the daemon announced to it
  loaded,     \* loaded[c]: the list it loaded
  work,       \* work[w]: the Room object w holds, and whether the list was cleared since
  adding,     \* adding[a]: the same of a room that is about to be added
  latest,     \* history: the last connection begun
  installed,  \* history: it has installed its rooms
  removed,    \* history: what the user removed, from which account
  failed,     \* history: the last save failed
  strayed     \* history: a coroutine went on past a reconnect and changed something

session == <<active, client, identity, rooms, held>>
persistence == <<pending, signal, saving, failed>>
connecting == <<phase, announced, loaded, latest, installed>>
coroutines == <<work, adding>>
vars == <<account, vault, session, persistence, connecting, coroutines, removed, strayed>>

Memberships == [room : Rooms, of : Accounts]
Clients == [account : Accounts, by : Connections \cup {Older}]
NoClient == [account |-> NoAccount, by |-> Older]
Saves == [profile : Accounts, api : Clients, rooms : SUBSET Memberships]
NoSave == [profile |-> NoAccount, api |-> NoClient, rooms |-> {}]

Lists == [rooms : SUBSET Memberships, of : Accounts \cup {NoAccount}]
NoList == [rooms |-> {}, of |-> NoAccount]

Copies == [entry : Memberships, stale : BOOLEAN]
NoCopy == [entry |-> [room |-> NoAccount, of |-> NoAccount], stale |-> FALSE]

TypeOK ==
  /\ account \in Accounts
  /\ vault \in [Accounts -> SUBSET Memberships]
  /\ active \in Accounts \cup {NoAccount}
  /\ client \in Clients \cup {NoClient}
  /\ identity \in Accounts \cup {NoAccount}
  /\ rooms \in SUBSET Memberships
  /\ held \in Lists
  /\ pending \in Saves \cup {NoSave}
  /\ signal \in BOOLEAN
  /\ saving \in Saves \cup {NoSave}
  /\ failed \in BOOLEAN
  /\ phase \in [Connections -> {"off", "connect", "confirm", "publish", "load", "install"}]
  /\ announced \in [Connections -> Accounts \cup {NoAccount}]
  /\ loaded \in [Connections -> SUBSET Memberships]
  /\ latest \in Connections \cup {Older}
  /\ installed \in BOOLEAN
  /\ work \in [Workers -> Copies \cup {NoCopy}]
  /\ adding \in [Adders -> (Copies \X {"request", "append"}) \cup {<<NoCopy, "off">>}]
  /\ removed \in SUBSET [room : Rooms, from : Accounts]
  /\ strayed \in BOOLEAN

Init ==
  /\ account \in Accounts
  /\ vault \in [Accounts -> SUBSET Memberships]
  /\ \A p \in Accounts : \A e \in vault[p] : e.of = p
  /\ active = NoAccount
  /\ client = NoClient
  /\ identity = NoAccount
  /\ rooms = {}
  /\ held = NoList
  /\ pending = NoSave
  /\ signal = FALSE
  /\ saving = NoSave
  /\ failed = FALSE
  /\ phase = [c \in Connections |-> "off"]
  /\ announced = [c \in Connections |-> NoAccount]
  /\ loaded = [c \in Connections |-> {}]
  /\ latest = Older
  /\ installed = FALSE
  /\ work = [w \in Workers |-> NoCopy]
  /\ adding = [a \in Adders |-> <<NoCopy, "off">>]
  /\ removed = {}
  /\ strayed = FALSE

-----------------------------------------------------------------------------
(* A slip: the list is not handed to persistenceLoop when it is busy.      *)
SaveWhenIdle(list) ==
  IF active = NoAccount \/ client = NoClient \/ saving # NoSave
  THEN UNCHANGED persistence
  ELSE /\ pending' = [profile |-> active, api |-> client, rooms |-> list]
       /\ signal' = TRUE
       /\ UNCHANGED <<saving, failed>>

(* saveRoomsLocked: the newest list, under the account and the client of   *)
(* this moment.                                                            *)
Save(list) ==
  IF active = NoAccount \/ client = NoClient
  THEN UNCHANGED persistence
  ELSE /\ pending' = [profile |-> active, api |-> client, rooms |-> list]
       /\ signal' = TRUE
       /\ UNCHANGED <<saving, failed>>

(* A request on a session the daemon made for the account it runs.         *)
Answered(api) == api.account = account

(* A client object whose connection coroutine is used for a new one.       *)
Outdated(api, c) == IF api.by = c THEN [api EXCEPT !.by = Older] ELSE api

Stray(isStale) == strayed' = (strayed \/ isStale)

(* The list as the holder of lock has read it.                             *)
Read == IF held = NoList THEN [rooms |-> rooms, of |-> identity] ELSE held

(* The holder of lock writes it back and saves it.                         *)
WriteBack(list) ==
  /\ rooms' = list
  /\ identity' = Read.of
  /\ held' = NoList
  /\ Save(list)

(* A coroutine that reads the list and writes it back may be under way.    *)
Writing ==
  \/ rooms # {}
  \/ \E w \in Workers : work[w] # NoCopy
  \/ \E a \in Adders : adding[a][2] = "append"

-----------------------------------------------------------------------------
(* connect launches a coroutine; connectInternal first drops the client.   *)
Begin(c) ==
  /\ phase[c] = "off"
  /\ phase' = [phase EXCEPT ![c] = "connect"]
  /\ client' = NoClient
  /\ pending' = [pending EXCEPT !.api = Outdated(@, c)]
  /\ saving' = [saving EXCEPT !.api = Outdated(@, c)]
  /\ latest' = c
  /\ installed' = FALSE
  /\ UNCHANGED <<account, vault, active, identity, rooms, held, signal, failed, announced,
                 loaded, coroutines, removed, strayed>>

Stale(copy) == IF copy = NoCopy THEN copy ELSE [copy EXCEPT !.stale = TRUE]

(* A slip: the list of the account that is left stays in place.            *)
ForgetNothing(c) ==
  /\ phase[c] = "connect"
  /\ phase' = [phase EXCEPT ![c] = "confirm"]
  /\ announced' = [announced EXCEPT ![c] = account]
  /\ active' = NoAccount
  /\ work' = [w \in Workers |-> Stale(work[w])]
  /\ adding' = [a \in Adders |-> <<Stale(adding[a][1]), adding[a][2]>>]
  /\ Stray(c # latest)
  /\ UNCHANGED <<account, vault, client, identity, rooms, held, persistence, loaded, latest,
                 installed, removed>>

(* The daemon announces its account; the rooms of the one that is left are *)
(* taken off the screen, whoever holds lock.                               *)
Forget(c) ==
  /\ phase[c] = "connect"
  /\ phase' = [phase EXCEPT ![c] = "confirm"]
  /\ announced' = [announced EXCEPT ![c] = account]
  /\ active' = NoAccount
  /\ identity' = NoAccount
  /\ rooms' = {}
  /\ \/ UNCHANGED held
     \/ Writing /\ held' = Read
  /\ work' = [w \in Workers |-> Stale(work[w])]
  /\ adding' = [a \in Adders |-> <<Stale(adding[a][1]), adding[a][2]>>]
  /\ Stray(c # latest)
  /\ UNCHANGED <<account, vault, client, persistence, loaded, latest, installed, removed>>

(* Authentication; and the daemon is asked once more which account it      *)
(* runs.                                                                   *)
Activate(c) ==
  /\ phase[c] = "confirm"
  /\ account = announced[c]
  /\ phase' = [phase EXCEPT ![c] = "publish"]
  /\ active' = announced[c]
  /\ Stray(c # latest)
  /\ UNCHANGED <<account, vault, client, identity, rooms, held, persistence, announced, loaded,
                 latest, installed, coroutines, removed>>

Api(c) == [account |-> announced[c], by |-> c]

(* signingIdentity and listStores are answered; client is the new session. *)
Publish(c) ==
  /\ phase[c] = "publish"
  /\ Answered(Api(c))
  /\ phase' = [phase EXCEPT ![c] = "load"]
  /\ client' = Api(c)
  /\ Stray(c # latest)
  /\ UNCHANGED <<account, vault, active, identity, rooms, held, persistence, announced, loaded,
                 latest, installed, coroutines, removed>>

Load(c) ==
  /\ phase[c] = "load"
  /\ Answered(Api(c))
  /\ phase' = [phase EXCEPT ![c] = "install"]
  /\ loaded' = [loaded EXCEPT ![c] = vault[announced[c]]]
  /\ UNCHANGED <<account, vault, session, persistence, announced, latest, installed,
                 coroutines, removed, strayed>>

(* A slip: the list is saved before it is replaced.                        *)
InstallSavingFirst(c) ==
  /\ phase[c] = "install"
  /\ held = NoList
  /\ phase' = [phase EXCEPT ![c] = "off"]
  /\ rooms' = loaded[c]
  /\ identity' = announced[c]
  /\ installed' = (c = latest)
  /\ Save(rooms)
  /\ announced' = [announced EXCEPT ![c] = NoAccount]
  /\ loaded' = [loaded EXCEPT ![c] = {}]
  /\ Stray(c # latest)
  /\ UNCHANGED <<account, vault, active, client, held, latest, coroutines, removed>>

(* Under the lock.  The synchronization that follows is a worker.          *)
Install(c) ==
  /\ phase[c] = "install"
  /\ held = NoList
  /\ phase' = [phase EXCEPT ![c] = "off"]
  /\ rooms' = loaded[c]
  /\ identity' = announced[c]
  /\ installed' = (c = latest)
  /\ Save(rooms')
  /\ announced' = [announced EXCEPT ![c] = NoAccount]
  /\ loaded' = [loaded EXCEPT ![c] = {}]
  /\ Stray(c # latest)
  /\ UNCHANGED <<account, vault, active, client, held, latest, coroutines, removed>>

(* Whatever throws, connect shows the error and leaves the rest as it is.  *)
ConnectFails(c) ==
  /\ phase[c] \notin {"off", "install"}
  /\ phase' = [phase EXCEPT ![c] = "off"]
  /\ announced' = [announced EXCEPT ![c] = NoAccount]
  /\ UNCHANGED <<account, vault, session, persistence, loaded, latest, installed, coroutines,
                 removed, strayed>>

-----------------------------------------------------------------------------
(* Synchronization, the heartbeat, a message being handled: each reads a   *)
(* room, waits for the daemon, and writes its copy back.                   *)
WorkStarts(w) ==
  /\ work[w] = NoCopy
  /\ \E e \in rooms : work' = [work EXCEPT ![w] = [entry |-> e, stale |-> FALSE]]
  /\ UNCHANGED <<account, vault, session, persistence, connecting, adding, removed, strayed>>

(* replaceRoom: the room with the copy's id is replaced by the merge of    *)
(* the two, which takes identity and store from the copy; the list is      *)
(* saved whether it has such a room or not.                                *)
WorkReplaces(w) ==
  /\ work[w] # NoCopy
  /\ held # NoList => work[w].stale
  /\ WriteBack({IF e.room = work[w].entry.room THEN work[w].entry ELSE e : e \in Read.rooms})
  /\ Stray(held # NoList \/ (work[w].stale /\ (rooms' # rooms \/ signal')))
  /\ UNCHANGED <<account, vault, active, client, connecting, coroutines, removed>>

WorkEnds(w) ==
  /\ work[w] # NoCopy
  /\ work' = [work EXCEPT ![w] = NoCopy]
  /\ UNCHANGED <<account, vault, session, persistence, connecting, adding, removed, strayed>>

-----------------------------------------------------------------------------
(* joinRoom: nothing but the check, then the room is added.  createRoom    *)
(* first makes the room's store and writes to it.                          *)
StartAdding(a, r) ==
  /\ adding[a] = <<NoCopy, "off">>
  /\ identity # NoAccount
  /\ \E stage \in {"request", "append"} :
       /\ stage = "request" => client # NoClient
       /\ stage = "append" => \A e \in rooms : e.room # r
       /\ adding' = [adding EXCEPT ![a] =
            <<[entry |-> [room |-> r, of |-> identity], stale |-> FALSE], stage>>]
  /\ UNCHANGED <<account, vault, session, persistence, connecting, work, removed, strayed>>

StoreWritten(a) ==
  /\ adding[a][2] = "request"
  /\ client # NoClient
  /\ client.account = adding[a][1].entry.of
  /\ Answered(client)
  /\ adding' = [adding EXCEPT ![a][2] = "append"]
  /\ UNCHANGED <<account, vault, session, persistence, connecting, work, removed, strayed>>

(* A slip: what failed stays busy.                                         *)
CreateFailsBusy(a) ==
  /\ adding[a][2] = "request"
  /\ adding' = [adding EXCEPT ![a][1] = NoCopy]
  /\ UNCHANGED <<account, vault, session, persistence, connecting, work, removed, strayed>>

CreateFails(a) ==
  /\ adding[a][2] = "request"
  /\ adding' = [adding EXCEPT ![a] = <<NoCopy, "off">>]
  /\ UNCHANGED <<account, vault, session, persistence, connecting, work, removed, strayed>>

(* Under the lock, to the list as it was read there.                       *)
AppendRoom(a) ==
  /\ adding[a][2] = "append"
  /\ held # NoList => adding[a][1].stale
  /\ WriteBack(Read.rooms \cup {adding[a][1].entry})
  /\ adding' = [adding EXCEPT ![a] = <<NoCopy, "off">>]
  /\ Stray(adding[a][1].stale)
  /\ UNCHANGED <<account, vault, active, client, connecting, work, removed>>

(* Whatever has the room's id goes; the room is the user's to remove       *)
(* whenever that was asked.                                                *)
RemoveRoom(e) ==
  /\ e \in Read.rooms
  /\ WriteBack({f \in Read.rooms : f.room # e.room})
  /\ Stray(held # NoList)
  /\ removed' = removed \cup (IF active = NoAccount THEN {}
                              ELSE {[room |-> e.room, from |-> active]})
  /\ UNCHANGED <<account, vault, active, client, connecting, coroutines>>

-----------------------------------------------------------------------------
(* persistenceLoop takes the newest list, and drops it when the account or *)
(* the client is not the one it was made for.                              *)
PersistTake ==
  /\ signal
  /\ saving = NoSave
  /\ signal' = FALSE
  /\ saving' = IF pending.profile = active /\ pending.api = client THEN pending ELSE NoSave
  /\ UNCHANGED <<account, vault, session, pending, failed, connecting, coroutines, removed,
                 strayed>>

PersistWrite ==
  /\ saving # NoSave
  /\ Answered(saving.api)
  /\ vault' = [vault EXCEPT ![saving.api.account] = saving.rooms]
  /\ saving' = NoSave
  /\ failed' = FALSE
  /\ Stray(saving.api # client)
  /\ UNCHANGED <<account, session, pending, signal, connecting, coroutines, removed>>

PersistFails ==
  /\ saving # NoSave
  /\ saving' = NoSave
  /\ failed' = TRUE
  /\ UNCHANGED <<account, vault, session, pending, signal, connecting, coroutines, removed,
                 strayed>>

-----------------------------------------------------------------------------
SwitchAccount(p) ==
  /\ p # account
  /\ account' = p
  /\ UNCHANGED <<vault, session, persistence, connecting, coroutines, removed, strayed>>

Connect(c) ==
  \/ Begin(c) \/ Forget(c) \/ Activate(c) \/ Publish(c)
  \/ Load(c) \/ Install(c) \/ ConnectFails(c)

Persist == PersistTake \/ PersistWrite \/ PersistFails

Next ==
  \/ \E c \in Connections : Connect(c)
  \/ \E w \in Workers : WorkStarts(w) \/ WorkReplaces(w) \/ WorkEnds(w)
  \/ \E a \in Adders :
       \/ \E r \in Rooms : StartAdding(a, r)
       \/ StoreWritten(a) \/ CreateFails(a) \/ AppendRoom(a)
  \/ \E e \in Read.rooms : RemoveRoom(e)
  \/ Persist
  \/ \E p \in Accounts : SwitchAccount(p)

Spec == Init /\ [][Next]_vars

-----------------------------------------------------------------------------
(* A newly selected account does not see the memberships of another one    *)
(* (the comment on mutableState): neither the list on the screen nor a     *)
(* vault ever mixes them, unless a coroutine begun before a reconnect went *)
(* on after it.                                                            *)
AccountsApart ==
  ~strayed => /\ \A p \in Accounts : \A e \in vault[p] : e.of = p
              /\ \A e \in rooms : e.of = identity

(* While connected, the list on the screen is in the vault or on its way:  *)
(* the conflated signal loses no save.                                     *)
SaveComes ==
  installed /\ ~strayed /\ ~failed
    => \/ vault[active] = rooms
       \/ signal /\ pending.rooms = rooms /\ pending.profile = active /\ pending.api = client
       \/ saving.rooms = rooms /\ saving.profile = active /\ saving.api = client

Dropped(p) == {e \in vault[p] : \A f \in vault'[p] : f.room # e.room}
Kept == \A p \in Accounts : \A e \in Dropped(p) : [room |-> e.room, from |-> p] \in removed

(* Reconnecting costs no membership: a vault only loses the rooms the user *)
(* removed, unless a coroutine went on past a reconnect.                   *)
MembershipsStay == [][~strayed' => Kept]_vars

(* "Do not leave the previous account's room list visible [...] It will be *)
(* reloaded from the profile-scoped database after authentication          *)
(* succeeds" (connectInternal): the vault still holds it.                  *)
RoomsReloaded == [][Kept]_vars

=============================================================================
