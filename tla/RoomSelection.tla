---------------------------- MODULE RoomSelection ----------------------------
(***************************************************************************)
(* The room list of the desktop engine, its selection, and the window that *)
(* shows them.  Creating, joining, removing and reconnecting are queued    *)
(* for the operation thread; selecting a room and demo mode act at once on *)
(* the interface's thread.  The window draws a snapshot and is told of     *)
(* changes by a refresh it may receive much later, so the user points at   *)
(* rows of an older list than the engine's.                                *)
(*                                                                         *)
(* Two windows are modelled: the Win32 one (right click, menu, question)   *)
(* and the GTK one, whose render selects a row again and so calls back     *)
(* into select_room.  Indices start at 1; selected_room = -1 is 0 here.    *)
(***************************************************************************)
EXTENDS Naturals, Sequences, SequencesExt, FiniteSets

CONSTANTS
  InviteRooms,   \* rooms the user holds an invite of
  NewRooms,      \* identifiers create_room_impl draws
  DemoRoom,      \* the room of demo mode
  NoRoom,        \* no room
  MaxRequests    \* bound: requests the user makes

ASSUME SelectionAssumption ==
  /\ InviteRooms \cap NewRooms = {}
  /\ DemoRoom \notin InviteRooms \cup NewRooms
  /\ NoRoom \notin InviteRooms \cup NewRooms \cup {DemoRoom}
  /\ MaxRequests \in Nat
  /\ IsFiniteSet(InviteRooms)
  /\ IsFiniteSet(NewRooms)
  /\ Cardinality(NewRooms) >= MaxRequests

VARIABLES
  rooms,      \* state_.rooms
  selected,   \* state_.selected_room
  online,     \* state_.main_dht is set
  client,     \* client_ is not null
  demo,       \* state_.demo_mode
  creating,   \* state_.room_creation_in_progress
  stored,     \* the list the last save_locked sends to the vault
  ops,        \* operations_
  pc,         \* what the operation thread does
  cur,        \* the operation it runs
  window,     \* "win32" or "gtk"
  shown,      \* the snapshot on the screen
  refresh,    \* a refresh is on its way to the window
  draw,       \* what the interface's thread does
  pointed,    \* the row it was given, or the one it selects again
  menu,       \* the room whose menu or question is open
  requests,   \* history: requests so far
  wrong       \* history: a room was removed that the user did not choose

engine == <<rooms, selected, online, client, demo, creating, stored>>
worker == <<ops, pc, cur>>
screen == <<window, shown, refresh, draw, pointed, menu>>
vars == <<engine, worker, screen, requests, wrong>>

AllRooms == InviteRooms \cup NewRooms \cup {DemoRoom}
Operations ==
  [op : {"create", "reconnect"}, room : {NoRoom}]
    \cup [op : {"join"}, room : InviteRooms]
    \cup [op : {"remove"}, room : AllRooms]
Creations == [op : {"create"}, room : NewRooms]
Idle == [op |-> "create", room |-> NoRoom]

TypeOK ==
  /\ rooms \in Seq(AllRooms)
  /\ selected \in 0..Len(rooms)
  /\ online \in BOOLEAN
  /\ client \in BOOLEAN
  /\ demo \in BOOLEAN
  /\ creating \in BOOLEAN
  /\ stored \in Seq(AllRooms)
  /\ ops \in Seq(Operations)
  /\ pc \in {"idle", "start", "push", "pushed", "created", "erase", "drop", "install",
            "notify", "crashed"}
  /\ cur \in Operations \cup Creations
  /\ window \in {"win32", "gtk"}
  /\ shown \in [rooms : Seq(AllRooms), selected : Nat]
  /\ refresh \in BOOLEAN
  /\ draw \in {"idle", "menu", "snapshot", "callback", "gone"}
  /\ pointed \in Nat
  /\ menu \in AllRooms \cup {NoRoom}
  /\ requests \in 0..MaxRequests
  /\ wrong \in BOOLEAN

(* The engine starts empty and connect_async has queued the first connect. *)
Init ==
  /\ rooms = <<>>
  /\ selected = 0
  /\ online = FALSE
  /\ client = FALSE
  /\ demo = FALSE
  /\ creating = FALSE
  /\ \E saved \in SUBSET InviteRooms : stored \in SetToSeqs(saved)
  /\ ops = <<[op |-> "reconnect", room |-> NoRoom]>>
  /\ pc = "idle"
  /\ cur = Idle
  /\ window \in {"win32", "gtk"}
  /\ shown = [rooms |-> <<>>, selected |-> 0]
  /\ refresh = FALSE
  /\ draw = "idle"
  /\ pointed = 0
  /\ menu = NoRoom
  /\ requests = 0
  /\ wrong = FALSE

-----------------------------------------------------------------------------
(* save_locked: nothing is saved in demo mode or without a client.         *)
Save(list) == stored' = IF demo \/ ~client THEN stored ELSE list

Request(op, room) ==
  /\ requests < MaxRequests
  /\ requests' = requests + 1
  /\ ops' = Append(ops, [op |-> op, room |-> room])

(* select_room, with the bounds check against the engine's own list.       *)
Select(i) ==
  IF i \in DOMAIN rooms
  THEN selected' = i /\ refresh' = TRUE
  ELSE UNCHANGED <<selected, refresh>>

-----------------------------------------------------------------------------
(* The user, on the interface's thread.                                    *)
RequestCreate ==
  /\ draw = "idle"
  /\ menu = NoRoom
  /\ ~creating
  /\ creating' = TRUE
  /\ Request("create", NoRoom)
  /\ refresh' = TRUE
  /\ UNCHANGED <<rooms, selected, online, client, demo, stored, pc, cur, window, shown,
                 draw, pointed, menu, wrong>>

RequestJoin(r) ==
  /\ draw = "idle"
  /\ menu = NoRoom
  /\ Request("join", r)
  /\ UNCHANGED <<engine, pc, cur, screen, wrong>>

RequestReconnect ==
  /\ draw = "idle"
  /\ menu = NoRoom
  /\ Request("reconnect", NoRoom)
  /\ refresh' = TRUE
  /\ UNCHANGED <<engine, pc, cur, window, shown, draw, pointed, menu, wrong>>

StartDemo ==
  /\ window = "win32"
  /\ draw = "idle"
  /\ menu = NoRoom
  /\ requests < MaxRequests
  /\ requests' = requests + 1
  /\ demo' = TRUE
  /\ online' = TRUE
  /\ IF rooms = <<>>
     THEN rooms' = <<DemoRoom>> /\ selected' = 1
     ELSE UNCHANGED <<rooms, selected>>
  /\ refresh' = TRUE
  /\ UNCHANGED <<client, creating, stored, worker, window, shown, draw, pointed, menu,
                 wrong>>

(* A click on a drawn row; a right click in the Win32 window then opens    *)
(* the menu of the room that has that index by now.                        *)
Click(i, right) ==
  /\ draw = "idle"
  /\ menu = NoRoom
  /\ i \in DOMAIN shown.rooms
  /\ right => window = "win32"
  /\ Select(i)
  /\ draw' = IF right THEN "menu" ELSE "idle"
  /\ pointed' = i
  /\ UNCHANGED <<rooms, online, client, demo, creating, stored, worker, window, shown,
                 menu, requests, wrong>>

OpenMenu ==
  /\ draw = "menu"
  /\ draw' = "idle"
  /\ menu' = IF pointed \in DOMAIN rooms THEN rooms[pointed] ELSE NoRoom
  /\ UNCHANGED <<engine, worker, window, shown, refresh, pointed, requests, wrong>>

CloseMenu ==
  /\ menu # NoRoom
  /\ menu' = NoRoom
  /\ UNCHANGED <<engine, worker, window, shown, refresh, draw, pointed, requests, wrong>>

(* "Remove ... from this device?" is answered with yes; the GTK button asks *)
(* nothing.  The operation itself carries no room: cur.room is history.    *)
ConfirmRemove ==
  /\ menu # NoRoom
  /\ Request("remove", menu)
  /\ menu' = NoRoom
  /\ UNCHANGED <<engine, pc, cur, window, shown, refresh, draw, pointed, wrong>>

Leave ==
  /\ window = "gtk"
  /\ draw = "idle"
  /\ shown.selected \in DOMAIN shown.rooms
  /\ Request("remove", shown.rooms[shown.selected])
  /\ UNCHANGED <<engine, pc, cur, screen, wrong>>

-----------------------------------------------------------------------------
(* The window: refresh_idle clears refresh_pending, or WM_ENGINE_UPDATE is *)
(* taken off the message queue.                                            *)
HandleRefresh ==
  /\ draw = "idle"
  /\ refresh
  /\ refresh' = FALSE
  /\ draw' = "snapshot"
  /\ UNCHANGED <<engine, worker, window, shown, pointed, menu, requests, wrong>>

(* The window is drawn from one snapshot.                                  *)
Draw ==
  /\ draw = "snapshot"
  /\ shown' = [rooms |-> rooms, selected |-> selected]
  /\ pointed' = selected
  /\ draw' = IF window = "gtk" /\ selected # 0 THEN "callback" ELSE "idle"
  /\ UNCHANGED <<engine, worker, window, refresh, menu, requests, wrong>>

(* gtk_list_box_select_row emits row-selected for the row just rebuilt:    *)
(* the selection of the snapshot is written back to the engine.            *)
RowSelected ==
  /\ draw = "callback"
  /\ Select(pointed)
  /\ draw' = "idle"
  /\ UNCHANGED <<rooms, online, client, demo, creating, stored, worker, window, shown,
                 pointed, menu, requests, wrong>>

-----------------------------------------------------------------------------
(* The operation thread.                                                   *)
TakeOperation ==
  /\ pc = "idle"
  /\ ops # <<>>
  /\ cur' = Head(ops)
  /\ ops' = Tail(ops)
  /\ pc' = "start"
  /\ UNCHANGED <<engine, screen, requests, wrong>>

(* random_hex(16): identifiers no room has.                                *)
FreshRooms == NewRooms \ (ToSet(rooms) \cup ToSet(stored))

(* create_room_impl.  In demo mode the room is only listed; otherwise its  *)
(* store is created and its first page published through client_.          *)
StartCreate ==
  /\ pc = "start"
  /\ cur.op = "create"
  /\ online
  /\ demo \/ client
  /\ FreshRooms # {}
  /\ cur' = [cur EXCEPT !.room = CHOOSE r \in FreshRooms : TRUE]
  /\ pc' = "push"
  /\ UNCHANGED <<engine, ops, screen, requests, wrong>>

(* After a reconnect that failed before connect_impl cleared the identity, *)
(* main_dht is still set and client_->create_store dereferences null: the  *)
(* process ends, and its window with it.                                   *)
CreateWithoutClient ==
  /\ pc = "start"
  /\ cur.op = "create"
  /\ online
  /\ ~demo
  /\ ~client
  /\ pc' = "crashed"
  /\ draw' = "gone"
  /\ menu' = NoRoom
  /\ UNCHANGED <<engine, ops, cur, window, shown, refresh, pointed, requests, wrong>>

(* A slip: a creation that fails ends without the catch block.             *)
CreateFailsUncaught ==
  /\ pc = "start"
  /\ cur.op = "create"
  /\ online => ~demo /\ client
  /\ pc' = "notify"
  /\ UNCHANGED <<engine, ops, cur, screen, requests, wrong>>

(* No identity, or a daemon request throws.                                *)
CreateFails ==
  /\ pc = "start"
  /\ cur.op = "create"
  /\ online => ~demo /\ client
  /\ pc' = "created"
  /\ UNCHANGED <<engine, ops, cur, screen, requests, wrong>>

(* Either way the flag is cleared under the mutex, then notify.            *)
EndCreate ==
  /\ pc = "created"
  /\ creating' = FALSE
  /\ pc' = "notify"
  /\ UNCHANGED <<rooms, selected, online, client, demo, stored, ops, cur, screen, requests,
                 wrong>>

(* A slip: the list is not searched for the invite's room.                 *)
StartJoinUnchecked ==
  /\ pc = "start"
  /\ cur.op = "join"
  /\ pc' = IF online THEN "push" ELSE "notify"
  /\ UNCHANGED <<engine, ops, cur, screen, requests, wrong>>

(* join_room_impl: an unknown identity or a room already listed throws.    *)
StartJoin ==
  /\ pc = "start"
  /\ cur.op = "join"
  /\ pc' = IF online /\ cur.room \notin ToSet(rooms) THEN "push" ELSE "notify"
  /\ UNCHANGED <<engine, ops, cur, screen, requests, wrong>>

(* A slip: the selection is set from the length before the push.           *)
PushRoomSelectingEarly ==
  /\ pc = "push"
  /\ rooms' = Append(rooms, cur.room)
  /\ selected' = Len(rooms)
  /\ Save(rooms')
  /\ pc' = "pushed"
  /\ UNCHANGED <<online, client, demo, creating, ops, cur, screen, requests, wrong>>

(* The new room is appended and selected.                                  *)
PushRoom ==
  /\ pc = "push"
  /\ rooms' = Append(rooms, cur.room)
  /\ selected' = Len(rooms')
  /\ Save(rooms')
  /\ pc' = "pushed"
  /\ UNCHANGED <<online, client, demo, creating, ops, cur, screen, requests, wrong>>

(* remove_selected_room copies the room selected by now, then announces    *)
(* the departure without the mutex.                                        *)
StartRemove ==
  /\ pc = "start"
  /\ cur.op = "remove"
  /\ IF selected = 0
     THEN pc' = "idle" /\ UNCHANGED <<cur, wrong>>
     ELSE /\ pc' = "erase"
          /\ cur' = [cur EXCEPT !.room = rooms[selected]]
          /\ wrong' = (wrong \/ rooms[selected] # cur.room)
  /\ UNCHANGED <<engine, ops, screen, requests>>

IndexOf(r) == CHOOSE i \in DOMAIN rooms : rooms[i] = r

(* A slip: the selection is only kept inside the shorter list.             *)
EraseClamping(i) ==
  /\ rooms' = RemoveAt(rooms, i)
  /\ selected' = IF selected > Len(rooms') THEN Len(rooms') ELSE selected

(* The erasure, and the selection that follows it.                         *)
Erase(i) ==
  /\ rooms' = RemoveAt(rooms, i)
  /\ selected' = IF Len(rooms') = 0 THEN 0
                 ELSE IF selected > i THEN selected - 1
                 ELSE IF selected > Len(rooms') THEN Len(rooms') ELSE selected

(* A slip: the window is not told.                                         *)
RemoveErasesSilently ==
  /\ pc = "erase"
  /\ IF cur.room \in ToSet(rooms)
     THEN Erase(IndexOf(cur.room)) /\ Save(rooms')
     ELSE UNCHANGED <<rooms, selected, stored>>
  /\ pc' = "idle"
  /\ UNCHANGED <<online, client, demo, creating, ops, cur, screen, requests, wrong>>

RemoveErases ==
  /\ pc = "erase"
  /\ IF cur.room \in ToSet(rooms)
     THEN Erase(IndexOf(cur.room)) /\ Save(rooms') /\ pc' = "notify"
     ELSE UNCHANGED <<rooms, selected, stored>> /\ pc' = "idle"
  /\ UNCHANGED <<online, client, demo, creating, ops, cur, screen, requests, wrong>>

(* reconnect_impl drops the subscription and the client.                   *)
ReconnectDrops ==
  /\ pc = "start"
  /\ cur.op = "reconnect"
  /\ client' = FALSE
  /\ pc' = "drop"
  /\ UNCHANGED <<rooms, selected, online, demo, creating, stored, ops, cur, screen, requests,
                 wrong>>

(* connect_impl, once the daemon is found and answers the ping, clears the *)
(* list and the identity before it authenticates.                          *)
ReconnectClears ==
  /\ pc = "drop"
  /\ rooms' = <<>>
  /\ selected' = 0
  /\ online' = FALSE
  /\ pc' = "install"
  /\ UNCHANGED <<client, demo, creating, stored, ops, cur, screen, requests, wrong>>

(* It installs what the vault holds; demo mode ends.                       *)
ReconnectInstalls ==
  /\ pc = "install"
  /\ rooms' = stored
  /\ selected' = IF stored = <<>> THEN 0 ELSE 1
  /\ online' = TRUE
  /\ client' = TRUE
  /\ demo' = FALSE
  /\ pc' = "notify"
  /\ UNCHANGED <<creating, stored, ops, cur, screen, requests, wrong>>

(* Discovery, ping, authentication or the load throws.                     *)
ReconnectFails ==
  /\ pc \in {"drop", "install"}
  /\ pc' = "notify"
  /\ UNCHANGED <<engine, ops, cur, screen, requests, wrong>>

(* notify, after the mutex is released; set_status ends a failed one.      *)
Notify ==
  /\ pc \in {"pushed", "notify"}
  /\ refresh' = TRUE
  /\ pc' = IF pc = "pushed" /\ cur.op = "create" THEN "created" ELSE "idle"
  /\ UNCHANGED <<engine, ops, cur, window, shown, draw, pointed, menu, requests, wrong>>

-----------------------------------------------------------------------------
User ==
  \/ RequestCreate \/ RequestReconnect \/ StartDemo
  \/ \E r \in InviteRooms : RequestJoin(r)
  \/ \E i \in DOMAIN shown.rooms, right \in BOOLEAN : Click(i, right)
  \/ CloseMenu \/ ConfirmRemove \/ Leave

Window == OpenMenu \/ HandleRefresh \/ Draw \/ RowSelected

OperationThread ==
  \/ TakeOperation
  \/ StartCreate
  \/ CreateWithoutClient \/ CreateFails \/ EndCreate \/ StartJoin \/ PushRoom
  \/ StartRemove \/ RemoveErases
  \/ ReconnectDrops \/ ReconnectClears \/ ReconnectInstalls \/ ReconnectFails
  \/ Notify

Next == User \/ Window \/ OperationThread

Spec == Init /\ [][Next]_vars

(* Both threads keep running and a request to the daemon returns or        *)
(* throws; the user need not do anything.                                  *)
FairSpec == Spec /\ WF_vars(Window) /\ WF_vars(OperationThread)

-----------------------------------------------------------------------------
(* The selected index is valid whenever there are rooms, and none          *)
(* otherwise, however erasures, pushes, reconnects, demo mode and the      *)
(* select_room of a stale row interleave.                                  *)
SelectionValid == IF rooms = <<>> THEN selected = 0 ELSE selected \in DOMAIN rooms

(* A room is listed once, however often its invite is queued: the check    *)
(* and the push are both made by the operation thread.                     *)
ListedOnce == IsInjective(rooms)

(* Removing a room leaves the selected one selected, unless it is the one  *)
(* removed.                                                                *)
ErasureKeepsSelection ==
  [][pc = "erase" /\ rooms' # rooms /\ selected # 0 /\ rooms[selected] # cur.room
       => rooms'[selected'] = rooms[selected]]_vars

(* No refresh is lost between the operation thread's notify, the window's  *)
(* coalesced refresh and its drawing: a screen that is behind the engine   *)
(* has a refresh coming.                                                   *)
RefreshComes ==
  shown # [rooms |-> rooms, selected |-> selected]
    => \/ refresh
       \/ draw = "snapshot"
       \/ pc \in {"install", "pushed", "notify", "crashed"}

(* room_engine.cpp says demo state is ephemeral: its room is never saved   *)
(* into an account's list, whatever is created, joined, removed or         *)
(* reconnected around it.                                                  *)
DemoIsNotStored == DemoRoom \notin ToSet(stored)

(* The creation under way until its flag is cleared, and those waiting.    *)
Creating == cur.op = "create" /\ pc \in {"start", "push", "pushed", "created"}
QueuedCreations == {i \in DOMAIN ops : ops[i].op = "create"}

(* The flag that disables the create button says truly that one creation,  *)
(* and never two, is queued or under way: it is set with the operation on  *)
(* one thread and cleared on the other, on every path.                     *)
CreationTracked ==
  pc # "crashed" =>
    /\ creating <=> Creating \/ QueuedCreations # {}
    /\ Creating => QueuedCreations = {}
    /\ \A i, j \in QueuedCreations : i = j

(* The create button comes back: a creation ends with the flag cleared,    *)
(* also when the daemon refuses it or it is queued behind a reconnect that *)
(* fails.  The exception is the crash of CreateWithoutClient.              *)
CreationEnds == creating ~> ~creating \/ pc = "crashed"

(* "Connect to the daemon before creating a room" (create_room_impl): a    *)
(* creation without a connection is refused.                               *)
RefusedOffline == pc # "crashed"

(* The question of win32_app.cpp names the room to be removed.             *)
RemovesChosenRoom == ~wrong

=============================================================================
