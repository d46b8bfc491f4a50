# VeilKnit Rooms: formal models, checks and proofs

VeilKnit Rooms is a decentralised room chat. Its clients (a C++ desktop
application for Windows and Linux, a Kotlin application for Android) talk to a
local VeilKnit daemon, which is not in this repository: it signs, delivers
messages, keeps public stores and a private key-value vault per account and
application. Everything the rooms do, the clients do themselves, each on its own
copy of the room. These models are about the client engines.

## 1. Inventory

| Component | State it keeps | Operations | What makes it correct |
|---|---|---|---|
| Encrypted room database (`room_engine.cpp` 79-207, 502-546) | a manifest and generation-scoped chunks in the daemon's vault; the two plaintext files of older builds | load, save, migrate | whatever fails or stops, the next start loads one complete snapshot, the old or the new |
| Engine persistence and reconnection (244-357, 369-632) | the operation queue, the pending snapshot, its account and revision, the client | `save_locked`, the coalesced persist, reconnect, stop | no change forgotten, no account given another's rooms, a stop saves |
| Room history and replicas (1059-1142, 1326-1469) | `messages`; per owner or replica a public store of a manifest and pages | deliver, persist, sync, reload | no duplicates, what is published stays, what arrived is published |
| Membership, roles, moderation (762-803, 925-971, 1150-1270, 1471-1568) | members, bans, tombstones; the owner's published manifest | grant, ban, delete, join, leave, sync | every office, ban and tombstone goes back to someone entitled to it |
| Reachability of rooms (697-737, 805-850, 1272-1324, 1654-1678) | failure counter, pause | note failure or success, Retry, and what replaces the room by a copy | paused after three failures in a row, resumed by Retry alone |
| Subscription and stop (`room_engine.cpp` 244-257, 369-413, 593-597, 666-695; `veilknit.cpp` 189-229, 605-624) | the subscription, its thread, `reconnecting_`, `stopping_` | receive, report, reconnect, close, join | a connected engine listens; a reconnect and a stop end; no session is destroyed under its reader |
| Room creation, selection, demo mode (753-803, 852-971, 635-664) with the Win32 and GTK windows | `rooms`, `selected_room`, `room_creation_in_progress`; the window's snapshot and its pending refresh | create, join, remove, select, reconnect, demo; refresh, draw, click | the selection is valid and follows erasures, no refresh is lost, the create button comes back |
| Envelopes, invitations, manifest bodies (`room_protocol.cpp`, `crypto.cpp`) | none | encode, sign, decrypt, check | an accepted envelope is the sender's |
| Room serialization (`persistence.cpp`) | none | JSON both ways, last 1000 messages | a round trip |
| SDK client (`veilknit.cpp`) | a connection, a subscription | request, register, authenticate, close | a close wakes whoever waits |
| Android engine: accounts (`RoomEngine.kt` 87-250, 329-420, 471-500, 928-965, 1111-1188) | `client`, `activeProfileId`, the list, `pendingPersistence` and its conflated signal, each under the coroutine mutex or volatile | connect, add, remove, write back, save | accounts are not mixed, no save lost, no membership lost |
| Android engine: one room (654-707, 766-786, 853-995, 1054-1158) | an immutable `Room`; per coroutine an older copy | handle an event, persist, sync, heartbeat, Retry, merge | merged copies lose neither side's events; the pause is local |
| Android repository, connector, protocol | the vault, the service binding | as on the desktop | as on the desktop |
| Interfaces (console, Compose) | the last snapshot drawn | call the engine | - |

How they interact on the desktop: the interface calls the engine, which either
changes `state_` under one recursive mutex or enqueues an operation. One
**operation thread** runs the queue, makes all daemon requests without the mutex,
and works from copies of a room. One **subscription thread** applies delivered
events to the room in place, under the mutex. One **heartbeat thread** only
enqueues. Every change calls
`save_locked`, which queues a persist operation, except in demo mode. The
window is told of changes by one pending refresh and draws a snapshot. On Android
every operation and the handling of events run in coroutines on a pool of threads:
the mutex covers each write to the list, not the requests between.
Participants meet in signed events (live, relayed or from the mailbox) and in
each other's public stores. The hard behaviour is therefore:

* copies made before a request and written back after it (stale state),
* a snapshot that changes while it is being saved, a stop or reconnect meanwhile,
* requests that fail, or that are carried out although their reply is lost,
* events duplicated, reordered or lost, and manifests that are older than they,
* threads that wait for each other through a blocked receive, and a session that
  is replaced while another thread reads or closes it,
* coroutines that go on past a reconnect, with the list of another session,
* a user who points at rows of a list that has changed.

`PROJECT.json` lists these hazards line by line, with the property for each.

## 2. Modules

| Module | Models | State and actions |
|---|---|---|
| `DurableRooms` | the abstract promise of a room database | one `durable` snapshot; `Open`, `Submit`, `Commit`, `Return`, `Close` |
| `RoomVault` | `load_encrypted_rooms`, `save_encrypted_rooms`, the migration | `manifest` and `chunks` are the daemon's values; the locals of the save are variables; one action per request, each with its failure |
| `RoomVaultProofs` | - | invariant and refinement of `RoomVault`, proved |
| `EnginePersistence` | `save_locked`, `persist_pending_impl`, `operation_loop`, `reconnect_impl`, `connect_impl`, `stop` | the members of `RoomEngine` under their names; one action per block under the mutex and per unlocked request |
| `RoomHistory` | `apply_decoded_message` (chat), `persist_room`, `sync_room_impl`, `sync_from_record`, reload in `connect_impl` | `history` is `room.messages`; `pages`, `latest` are the stores; `copy` is the operation's room; `listed`, a history variable, what the source of a sync had published when its manifest was read |
| `RoomHistoryProofs` | - | that histories have no duplicates, what arrived is published and stays so, a sync gets what the manifest announced, and the store is not overrun, proved |
| `RoomAuthority` | `apply_decoded_message` (the rest), `apply_manifest`, `can_moderate`, role, ban, deletion, join and leave operations | `view` is each participant's member table; `inbox` the events under way; `manifest` the owner's published table |
| `RoomAuthorityProofs` | - | the owner's role, the origin of every office, ban and tombstone, and the publication of who is accepted, proved |
| `RoomReachability` | `note_room_failure`, `note_room_success`, `retry_selected_room` and their callers | `room` is the three fields; `ops`, `pc`, `copy` the operation thread |
| `RoomReachabilityProofs` | - | its invariants and the role of Retry, proved |
| `EngineLifecycle` | `subscription_loop`, `reconnect_impl`, `connect_impl` and `stop` as threads; `MessageSubscription` | extends `EnginePersistence`: each of its steps with the state of the threads added, and `listener`, `stage`, `stopper` for where each thread is |
| `EngineProofs` | - | of `EnginePersistence`: the accounts' isolation, the hand-over of saves, the save at a stop, the use of every vault as `DurableRooms` specifies; of `EngineLifecycle`: that it implements `EnginePersistence`, and its safety; proved |
| `RoomSelection` | `create_room`, `join_room`, `remove_selected_room`, `select_room`, `start_demo_mode`, reconnects; `render`, `refresh_idle`, `click`, `room_menu` | the engine's list and selection, the queue and `pc` of the operation thread, `shown` and `refresh` of the window |
| `RoomSelectionProofs` | - | the safety of list, selection, stored list, refresh and create button, proved |
| `AndroidAccounts` | `connectInternal`, `saveRoomsLocked`, `persistenceLoop`, `replaceRoom`, `createRoom`, `joinRoom`, `removeSelectedRoom` | `client`, `active`, `rooms`, `pending`, `signal`; `phase`, `work`, `adding` are the coroutines |
| `AndroidAccountsProofs` | - | accounts apart, saves and memberships kept, proved |
| `AndroidRoom` | `handleWireMessage`, `mergeRoomSnapshots`, `persistRoom`, `syncRoomInternal`, `syncFromRecord`, `noteRoomFailure`, `noteRoomSuccess`, `retrySelectedRoom` | `room` and `store`; `pc`, `copy`, `base`, `event` per coroutine |
| `AndroidRoomProofs` | - | the merge and the publishing, proved |

Each `MC...` module gives the constants of one model their values and extends it.
`RoomVault` and `EnginePersistence` compose through `DurableRooms`: the first
implements it with daemon requests (`ImplementsDurableRooms`), and the second uses
each account's `vault` by its protocol and no other (`VaultsAreDurable`), so a save
there is one step. `RoomAuthority` takes from `RoomHistory` that a persist publishes the
owner's table after a chat or a join. `EngineLifecycle` composes `EnginePersistence`
with the threads around it: its steps call the latter's actions, and
`LifecycleImplementsPersistence` carries the theorems over.

What the models abstract:

* `RoomVault`: rooms are opaque snapshots, and a manifest's hash is the snapshot's
  identity. Any put may be carried out and still throw, the manifest's too. There are
  two plaintext files, and each may be one that `load_rooms` cannot open
  (`persistence.cpp` 213-215). A `get` of the old manifest that fails at the start of a
  save ends it before anything has changed, and is no step.
* `EnginePersistence`: rooms are the number of the last change, and of the last one made
  outside demo mode. Demo mode keeps the client and the rooms, and queues no save.
* `RoomHistory`: an event is one every receiver accepts (signature, ban and phrase
  checks are passed).
* `RoomAuthority`: names, signatures and the phrase policy are left out, `max_helpers` is
  one constant, and a sync is one step. What an engine sends it applies to its own table
  later, to whatever that is by then (`echo`), unless the sending threw. The owner may
  remove its room and join it again, as a plain member without the store (`owning`). An
  event that is lost stays in the `inbox` for good. What arrives while a sync or
  `toggle_replica` works on its copy, which `RoomHistory` shows to be dropped, is an action
  of its own (`Overwritten`). Participants are honest: each checks what it sends.
* `RoomReachability`: one room, which the interface does not remove, on one account. It
  starts connected, with the room saved. A reconnect clears the list and installs what the
  vault holds (`stored`); a save is a step between two operations, which may come or not.
  The handler around the synchronization in `connect_impl` (609) is never reached, since
  `sync_room_impl` catches everything.
* `RoomSelection`: what is in a room is left out; an operation's list change and its save
  are one step, as the mutex makes them.
* `EngineLifecycle`: the Linux transport, where closing a descriptor does not wake a `recv`
  that sleeps on it. A malformed message makes `next` throw on an open stream. The
  heartbeat thread is started once, ends with `stop` and is joined by it.
* `AndroidAccounts`: of a room its id and the account whose identity it carries; of the
  synchronization only that a copy is written back. The list is a set: two joins of one
  room that both pass the check (385) append it twice (416-420), which is not told
  apart. The clear in `connectInternal` (117) does not take `lock`: it may come
  between the read and the write of whoever holds it, and is then undone (`held`).
* `AndroidRoom`: one room of its owner with one page of messages, in one session;
  members and phrases are left out.

Definitions introduced by "A slip:" are deliberate mistakes no action uses; they
exist to show that each property can fail.

## 3. Runs, bounds and what they show

| Run | Properties | Bounds |
|---|---|---|
| `vault` | `VaultReadable`, `NoGarbageWithoutFault`, `ImplementsDurableRooms` | replies to the puts of chunks and of the manifest may be lost (`LostReplies`); both plaintext files; three snapshots of one or two chunks, three generations: the replaced one, the new one and one left behind by a failed save, and saves of the same, a smaller and a larger database |
| `persistence` | `ProfilesIsolated`, `UnsavedIsQueued`, `DemoIsEphemeral`, `StopSaves`, `ChangesReachVault`, `VaultsAreDurable` | two accounts, three changes (before, during and after a write), one waiting reconnect at a time but any number in all |
| `history` | `TailPublished`, `PublishedStays` | the owner alone, four events in pages of two, a store of two pages, one reload |
| `history_replica` | `NoDuplicates`, `PagesInStore`, `SyncHoldsListed` | owner and replica both publishing, three events in pages of two, so that a page is written again while it is read and the store, which one page fills, overflows; two operations waiting at each (`CONSTRAINT QueueBounded`) |
| `authority` | `OwnerIntact`, `AuthorityTraced`, `AcceptedIsPublished` | owner, member and newcomer, the member a moderator already (`Moderators`), two events sent, so that a chain moderator - helper - act can be reordered, and a request, a removal or a rejoining of the owner meet an act; one message, a helper limit of one |
| `reachability` | `PausedByStreak`, `ResumedByRetry`, `RetryContacts` | the code's three failures, two waiting operations, any number of reconnects |
| `selection` | `SelectionValid`, `ListedOnce`, `RefreshComes`, `CreationTracked`, `ErasureKeepsSelection`, `CreationEnds` | two invites, three requests of any kind (`MaxRequests`), so that a removal or a reconnect can meet a creation and a join in the queue; either window, any vault |
| `lifecycle` | `ListenerIntact`, `ConnectedListens`, `OnlyDaemonDelays` | two accounts, one change (a save before, during or after a reconnect), two waiting reconnects: the user's and the listener's |
| `android_accounts` | `AccountsApart`, `SaveComes`, `MembershipsStay` | two accounts, one room that both may hold, two connections at once, one coroutine that writes back and one that adds, one removal |
| `android_room` | `PauseIsLocal`, `HistoryStays`, `PublishedStays` | two messages, each with its deletion, two coroutines, the code's three failures, two writes to the store |
| `history_live_sync` | `DeliveredKept` | a counterexample: a sync's copy drops an event delivered meanwhile |
| `android_reload` | `RoomsReloaded` | a counterexample: a coroutine begun before a reconnect saves the emptied list over the account's vault |

The runs check type invariants too (`TypeOK`; `LifecycleTypeOK` includes that of
`EnginePersistence`), but for `RoomHistory`, `AndroidRoom` and `RoomSelection`, whose
type invariants are proved. The last two runs are for sentences the repository says of the
program (`PROJECT.json`, `findings`, quotes them).

Further counterexamples. These configurations are kept beside the runs and checked
by hand, with `tlc -config <cfg> <module>`; each ends in the counterexample named:

| Configuration, module | Property | What the code does, and what the repository says |
|---|---|---|
| `RoomVaultManifestReply.cfg`, `MCRoomVault` | `AlwaysReadable` | A lost reply to the manifest's put makes the clean-up (`room_engine.cpp:196`) delete the chunks of what is now the current generation; `ENCRYPTED_STORAGE_MIGRATION.md:31` makes the manifest authoritative "only after every encrypted chunk has been committed". |
| `RoomVaultMigration.cfg`, `MCRoomVault` | `DeletedAfterMigration` | `load_rooms` returns no rooms for a plaintext file it cannot open (`persistence.cpp:213`); they are saved, and the file is deleted (`room_engine.cpp:525-538`). The second of two files is deleted unread (539-542). `ENCRYPTED_STORAGE_MIGRATION.md:42-44` has a plaintext file deleted only after "the complete state" is in the vault. |
| `EnginePersistenceDemo.cfg`, `MCEnginePersistence` | `ConnectedSaves` | Demo mode is entered with the client still there; what is then delivered or edited is never queued (`room_engine.cpp:281`), and a reconnect drops it. |
| `EnginePersistenceReconnect.cfg`, `MCEnginePersistence` | `ClearedRoomsAreStored` | A reconnect clears rooms whose save is only queued; `room_engine.cpp:430`: "Its state remains safely stored in its profile database." |
| `RoomHistoryBoundary.cfg`, `MCRoomHistory` | `HistoryIncluded` | Two events that cross a page boundary before one persist leave the completed page unpublished; `ARCHITECTURE.md:55` promises "canonical history inclusion". |
| `RoomAuthorityTombstone.cfg`, `MCRoomAuthority` | `TombstonesHold` | A sync takes back a tombstone; `USER_GUIDE.md:37`: "Cooperative clients hide tombstoned content". |
| `RoomAuthorityJoin.cfg`, `MCRoomAuthority` | `AcceptedIsCommitted` | A join request delivered while the owner's sync or `toggle_replica` works on its copy loses its entry at `*current = room` (`room_engine.cpp:1461`), but its queued operation publishes the manifest and sends `join_accepted` all the same; `RELEASE_NOTES_0.4.0.md:27`: "The room owner commits the member-bearing manifest before sending `join_accepted`." |
| `RoomReachabilityReplica.cfg`, `MCRoomReachability` | `PausedAfterFailures` | Toggling the replica role puts a pause back after Retry; `room_engine.cpp:1663` says "paused after repeated failures". |
| `RoomReachabilityReload.cfg`, `MCRoomReachability` | `PausedAfterReconnect` | A reconnect between Retry and its save loads the paused room again (`room_engine.cpp:554`), with no failure since. |
| `RoomReachabilityPause.cfg`, `MCRoomReachability` | `PausedUntilRetry` | A reconnect between a pause and its save loads the room as it was before, and ends the pause without Retry; `room_engine.cpp:1663`: "Right-click it and choose Retry." |
| `RoomSelectionOffline.cfg`, `MCRoomSelection` | `RefusedOffline` | After a reconnect that fails early, a creation uses a null client (`room_engine.cpp:907`) instead of being refused as at 888: "Connect to the daemon before creating a room". |
| `RoomSelectionRemove.cfg`, `MCRoomSelection` | `RemovesChosenRoom` | The removal takes the room selected when it runs, while `win32_app.cpp:926` asks about one by name. |
| `EngineLifecycleHang.cfg`, `MCEngineLifecycle` | `JoinEnds` | If the daemon stays silent after the close, the join at `room_engine.cpp:375` waits for good; `USER_GUIDE.md:66`: `/reconnect` "closes the current API connection and reconnects". |
| `EngineLifecycleStop.cfg`, `MCEngineLifecycle` | `StopClosesItsOwn` | `stop` reads `subscription_` without the mutex (`room_engine.cpp:251`) and may close one that `reconnect_impl` has destroyed. |
| `AndroidRoomDeleted.cfg`, `MCAndroidRoom` | `DeletedIsHidden` | A chat handled from a copy older than its deletion is merged unhidden; `RoomEngine.kt:1125`: "moderation represents deletion with a tombstone flag". |

The passing runs name these cases as exceptions where they concern the same
state:

* `vault`: a manifest whose put lost its reply, until the next save (`unconfirmed`), and
  two kinds of steps in the refinement, `Overlooks` (a plaintext file not found or not
  opened) and `CleansStored` (the clean-up after such a manifest);
* `persistence`: `discarded`, and changes made in demo mode, which `due` leaves out;
* `authority`: `dropped` (an entry that was `Overwritten`), and `unlisted` (a member
  accepted by an owner that had removed its room and joined it again: `persist_room`
  returns unwritten at 1327, and `join_accepted` is sent). `OwnerIntact` says nothing of
  the creator's own entry after that (`owning`), since 948-951 makes it a member;
* `reachability`: `restored`, which says whether `toggle_replica` or a reconnect has put an
  older state back since the last success or Retry; a pause that was not saved before a
  reconnect; and, in `RetryContacts`, a reconnect that failed, since without a client
  nothing is contacted (1304, 1403);
* `selection`: `pc = "crashed"`;
* `lifecycle`: `missed`, a stream that ends while `connect_impl` still runs;
* `android_accounts`: `strayed`. A coroutine strays when it changes something from before
  a reconnect that has happened since, the list that a clear was lost on included;
  the run explores every interleaving up to that step and no further
  (`CONSTRAINT Bounded`), `android_reload` goes on past it.

`CHECK_DEADLOCK` is on except in `RoomSelection`, where the user may stop for good
once `MaxRequests` is used up. `EnginePersistence` marks the end of `stop` by
`Stopped`, `EngineLifecycle` by `Finished`. Symmetry permutes events, messages,
coroutines, accounts, connections and, where all publish, nodes only in runs without liveness, where no
definition tells them apart.

Fairness. `EnginePersistence` and `RoomReachability` assume weak fairness of the
operation thread alone: the loop runs until stop, and a daemon request returns or
throws when its connection closes. Nothing is assumed of the interface, the
subscription thread, the daemon's account or the network. `RoomSelection` assumes
weak fairness of the operation thread and of the interface's thread (`Window`: it
handles what is posted to it), not of the user. `EngineLifecycle` assumes that its
threads run (`ThreadsRun`), and nothing of the daemon: whether a sleeping `recv` ever
returns is left open. `OnlyDaemonDelays` therefore says that the joins of
`reconnect_impl` and `stop` end, or that the subscription thread sleeps in `recv` for
good on a stream the daemon keeps silent; that the latter happens is the counterexample
of `EngineLifecycleHang.cfg`. In `RoomReachability`, `Save` is outside the fairness.
The other models state safety only.

## 4. Proofs

`RoomVaultProofs`: `VaultInv` is inductive for all snapshots, chunk counts,
generations and lost replies, the manifest's included. `VaultReadable` is not inductive
alone: `SaveInv` adds that a save writes to a generation the manifest does not name, that
the chunks it has counted are there, that the generation it retires is not the current
one, and that a clean-up touches the current one only after a manifest whose put lost its
reply; `MigrateInv` adds that until its manifest is put a migration finds none in the
vault, and `UnconfirmedInv` that only a stored manifest can be unconfirmed. From it follow
`VaultAlwaysReadable` and, step by step, `VaultImplementsDurableRooms`: the put of the
manifest is `Commit`, everything else before it a stutter, except the steps in which the
code breaks the promise. These are named: `Overlooks`, a connection that goes on with, or
migrates, other rooms than those of the plaintext file, and `CleansStored`, the clean-up
after a manifest that was stored although its put threw. `GarbageInv`: while no save has
been cut off or had a request fail, every chunk in the vault is named by the manifest,
counted by the save under way, or of the replaced generation and still to be retired. It
gives `NothingLeftBehind`, and with it comes `VaultTypeCorrect`.

`EngineProofs`, of `EnginePersistence`: `PersistenceInv` is inductive for all
accounts, numbers of changes and queued operations. `ProfilesIsolated` needs
`ClientInv`: the connected account, the rooms and the pending snapshot are of one
account, and so is the copy being written. `UnsavedIsQueued` needs `QueuedInv` (the
flag `queued` says truly that exactly one persist is waiting or under way) and
`HandOverInv` (that persist writes what is `due`, or `newer` will make it queue another).
`due` is what a save is owed for: the rooms as of the last change outside demo mode, since
`save_locked` queues nothing in it; `rooms` may be newer. It gives `AccountsIsolated` and `NoSaveForgotten`. `StopSaves` speaks
only of the end of the thread; `StopInv` follows what `stop` found until then. While
what is due is of its account it is at least as new, later (a reconnect has
cleared the rooms after they were saved) the vault is, and the vault is as soon as no
persist is queued. It rests on the numbers of changes (`NumbersInv`), on the rooms
being empty and the loaded copy current during a reconnect (`LoadedInv`), and on the
thread exiting with nothing queued (`ExitInv`). It gives `StopAlwaysSaves`. `EphemeralInv`
bounds the copy being written by what is due, so that a change made in demo mode never
reaches a vault (`DemoNeverSaved`).

`VaultsStayDurable` is the other half of `VaultImplementsDurableRooms`, and the two
together are what lets a save be one step: for every account, each step of
`EnginePersistence` is a step of `DurableRooms` at that account's vault, or a stutter.
Installing the loaded rooms is `Open`, which must find what the vault holds: nothing is
saved between load and install (`LoadedInv`). `PersistCopy` is `Submit`, which needs
the vault open and no other save under way (`ClientInv`); the write is `Commit` and the
end of the save `Return`; dropping the client is `Close`, which only the operation
thread does and never inside a save. Of the other accounts' vaults every step is a
stutter. `LifecycleKeepsVaults` carries it to the threads.

Of `EngineLifecycle`: each action of the threads is shown to be a step of
`EnginePersistence` or a stutter (`LifecycleImplementsPersistence`), which gives
`LifecycleIsolatesAccounts`, `LifecycleForgetsNoSave` and `LifecycleStopSaves`
without proving them again. `LifecycleInv` then relates the listener, the stage of
`reconnect_impl` and the subscription: between the join and the new thread there is no
listener, and there is a subscription from the install to the next join; whoever is
past the check has one. It gives `ListenerStaysIntact` and `StaysListening`.

`RoomHistoryProofs`: `HistoryInv` is inductive for any writers, events, page size,
store size and number of reloads. Histories and the copies that syncs work on have no
duplicates (`NoDuplicates`, `CopiesDistinct`); every writer of pages has a persist
coming while its store is behind (`TailInv`); until a reload forgets events, the copy
an operation works on is a prefix of the history, which only grows meanwhile
(`CopyBehind`), and what was persisted last is a prefix of both (`StoreBehind`):
without the last two, a persist could write a page that lacks a published event. A
sync merges pages with folds over sequences, and what a fold returns needs induction.
The library's induction rules take a predicate, which the installed provers cannot
instantiate; `SetInduction` is the same rule for a set of
naturals, proved from the least element of its complement, and a fold's property is put
as the set of lengths up to which it holds. The theorems are `HistoryNeverDuplicates`,
`StoreNeverOverrun`, `TailAlwaysPublished` and, as an action property,
`PublishedAlwaysStays`.

`SyncAlwaysHoldsListed` is about the two requests of a sync. `ListedInv` adds to
`HistoryInv` what is true between them: every event the manifest announced is still on
a page the sync will ask for. It is inductive because a persist writes one page, from a
copy that continues what the store holds, so that a page only gains events and the
pages before it stay (`PagesGrow`); and a merge keeps what the copy has and adds every
event of every page it folds over (`MergeHolds`). It is false once a reload has
forgotten events, which `shortened` records.

`RoomAuthorityProofs`: `AuthorityInv` is inductive for any participants, newcomers,
moderators, messages, helper limit and number of events. What a member table must be is
`Rightful`: well typed, with no owner but the creator, who is the owner as long as it
keeps its room (`owning`), and every office, ban and tombstone issued by someone entitled
to it. The properties speak of the engines' tables alone; the invariant says the same of
the published manifest, where the creator is the owner whatever it does later, of the copy
in an accepting join and of every `join_accepted` under way, and that every other event
under way, or still to be applied by its own sender (`echo`), was issued. One lemma for each event
(`GrantRightful`, `ModerationRightful`, `EraseRightful`, `ManifestRightful`) shows
that its receiver keeps a table rightful, and `IssuedGrows` that entitlement is
never lost. It gives `OwnerStaysOwner` and `AuthorityAlwaysTraced`.

`JoinInv` is about a member's way in. While the owner keeps its room, whoever has asked,
or is in the manifest, is in the owner's table, has announced that it left (`Departed`),
or had its entry overwritten (`dropped`): no event the owner applies but a leave takes a
member out (`OwnerKeeps`). Whoever is about to be accepted is in the manifest too, or
`Departed`, or `dropped`, or was accepted by an owner without its store (`unlisted`). It gives
`AcceptedAlwaysPublished`; without the exception for `dropped` it is false
(`RoomAuthorityJoin.cfg`).

`RoomReachabilityProofs`: `ReachabilityInv` is inductive for any limit of failures
and any queue. Beside the properties it needs that every copy that may be written back,
an operation's or the vault's (`stored`), agrees in its fields (`CopiesConsistent`),
that a sync works from an unpaused copy (`SyncUnpaused`), that there is no client while a
reconnect loads (`ConnectDrops`), and that the counter never runs ahead of the failures
in a row unless an older state has been put back (`CounterByStreak`). It gives
`RoomPausedAtLimit`, `RoomPausedByStreak` and, as an action property,
`OnlyRetryResumes`: a pause ends by Retry, or by a reconnect that loads a room the vault
holds unpaused.

`RoomSelectionProofs`: `SelectionInv` is inductive for any rooms, invites and number
of requests. `ListedOnce` needs that a room about to be pushed is in neither the
list nor, for a created one, the stored list, and that the stored list has no
duplicates either, since a reconnect installs it; `DemoNeverStored` needs that the
demo room is listed in demo mode alone. It gives `SelectionAlwaysValid`,
`RoomsListedOnce` and, as an action property, `ErasureFollowsSelection`. `RefreshAlwaysComes`
is inductive by itself. `CreationAlwaysTracked` is the safety half of `CreationEnds`:
the flag is set with the operation that is queued and follows it through queue and
thread; it needs beside it only that nothing but a creation reaches the point where the
flag is cleared (`CreatedInv`).

`AndroidAccountsProofs`: `UntilStrayed` is inductive for any accounts, rooms,
connections and other coroutines: types always, and until `strayed` that the
session is of one account (`SessionInv`), that list, vaults, pending and running
save each hold one account's memberships (`PureInv`), that so do the copies the
coroutines hold (`CopiesInv`), that what a connection has loaded is what the vault
still holds (`LoadInv`), and that an installed list is stored or on its way
(`InstalledInv`). It gives `AccountsStayApart`, `AndroidSaveComes` and, as an action
property, `AndroidMembershipsStay`. A write-back that undoes a clear (`held`) strays, so that
no step before it sees a list of two sessions.

`AndroidRoomProofs`: the merge is a union, so that it loses nothing is a fact about
sets; that no step loses anything else is `AndroidHistoryStays`. `PauseIsLocal`
needs that the counter equals the failures in a row while the room is not paused.
`AndroidPublishedStays` needs `StoreHeld`: a copy that names the store's generation
holds everything that is published, because a copy takes a generation only together
with the messages written under it; the store's check of the generation does the
rest.

The assumptions of all these are those on the constants that each model names.

Only model-checked: the liveness properties (`ChangesReachVault`,
`RetryContacts`, `CreationEnds`, `OnlyDaemonDelays`), which are outside the
prover's reach. Every invariant and action property of a passing run is proved. Proved
but in no run are `PausedAtLimit`, `DemoIsNotStored` and the type invariants of
`EnginePersistence`, `RoomHistory`, `AndroidRoom` and `RoomSelection`, on which other proofs rest.

## 5. Not modelled

* Registration and authentication (`room_engine.cpp` 440-505, `RoomEngine.kt`
  127-182): the prompt, the polling, the credential files and their migration. In
  the models a connection is authenticated or fails; what a late approval leaves
  behind is in the daemon's registry, which is not in this repository. The legacy
  credential is moved as soon as it has been used (497-505), so a connection that fails
  after that may not try the plaintext rooms again; `vault` leaves them to be tried.
* Envelopes, invitations, cryptography and JSON (`room_protocol.cpp`, `crypto.cpp`,
  `util.cpp`, `persistence.cpp` and their Kotlin twins): functions of bytes without
  state. An accepted envelope is taken to be its sender's. The cut of a saved room
  to its last 1000 messages, which drops the oldest, is not modelled: a room reaches it
  only after more messages than a run can hold, and `Reload` in `RoomHistory` forgets only
  the newest events, the ones an older snapshot lacks.
* The newcomer's history after `join_accepted`, composed from `RoomHistory` and
  `RoomAuthority`: both are there, their product is too large for a run, and what
  the sync does with the pages is `history`.
* In `RoomAuthority`, an owner that has joined its room again and turns on the replica
  role, and the older member tables a reconnect loads from the vault (554): what the latter
  does to a room is `reachability` for the pause and `history` for the messages.
* In `RoomReachability`, a reconnect that never returns (`EngineLifecycleHang.cfg` shows
  it), and the crash of a chat (1052) or of `toggle_replica` (1593) that finds no client
  after a failed reconnect: `RoomSelectionOffline.cfg` shows the same of a creation.
* In `AndroidRoom`, the generation that a reconnect takes from the store's descriptor
  (`RoomEngine.kt:227`), and the cut to 1000 messages.
* Roles, bans, phrases and replicas on Android: the handlers follow the desktop's,
  which `RoomAuthority` models; the merge takes these fields from the copy.
* The Android repository: the same protocol as `RoomVault`; the Android connector:
  one request at a time, answered or failed.
* The console, the Compose screens, the message and member lists, the diagnostic
  log: they draw snapshots and send requests the models accept at any time.
* Windows' named pipes in `EngineLifecycle`: what `CloseHandle` does to a blocked
  `ReadFile` is not the Linux case, and is not modelled.
* The vendored QR generator; wording and layout; the daemon itself, which appears as
  requests that succeed, fail, or lose their reply, and as an account that changes.
