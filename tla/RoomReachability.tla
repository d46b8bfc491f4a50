-------------------------- MODULE RoomReachability --------------------------
(***************************************************************************)
(* When the engine pauses a room it cannot reach (room_engine.cpp:         *)
(* note_room_failure, note_room_success, retry_selected_room, and the      *)
(* operations that call them: chats, controls and heartbeats, relays,      *)
(* syncs, toggle_replica, reconnects).  Operations run one after another   *)
(* on the operation thread, each from a copy of the room; meanwhile the    *)
(* interface retries the room and the subscription thread receives events. *)
(* A relay's copy is made when the event it relays arrives.                *)
(*                                                                         *)
(* A reconnect drops the client, clears the rooms and loads them from the  *)
(* vault, which holds the room as it was when it was last saved: saves are *)
(* operations too, so one may be waiting behind the reconnect.             *)
(***************************************************************************)
EXTENDS Naturals, Sequences

CONSTANTS
  MaxFailures,   \* failures that pause a room (3)
  MaxOps         \* bound: operations waiting

ASSUME ReachabilityAssumption ==
  /\ MaxFailures \in Nat \ {0}
  /\ MaxOps \in Nat \ {0}

VARIABLES
  room,       \* suspended, reachability_failures, last_reachability_error # ""
  listed,     \* state_.rooms holds it: if not, room is what it was before
  connected,  \* client_ is not null
  stored,     \* the room in the vault
  ops,        \* operations_
  pc,         \* what the operation thread does
  op,         \* its operation
  copy,       \* and that operation's copy of the room
  streak,     \* history: failures since the last success or retry
  restored,   \* history: what has put back an older state since then
  contacted   \* history: the operation thread contacted the room since a retry

session == <<listed, connected, stored>>
vars == <<room, session, ops, pc, op, copy, streak, restored, contacted>>

Rooms == [suspended : BOOLEAN, failures : 0..MaxFailures, error : BOOLEAN]

Reachable == [suspended |-> FALSE, failures |-> 0, error |-> FALSE]

Kinds == {"chat", "control", "relay", "sync", "retry", "replica", "connect"}

(* An operation, and the copy of the room it was enqueued with.            *)
Operations == [kind : Kinds, copy : Rooms]

TypeOK ==
  /\ room \in Rooms
  /\ listed \in BOOLEAN
  /\ connected \in BOOLEAN
  /\ connected => listed
  /\ stored \in Rooms
  /\ ops \in Seq(Operations)
  /\ Len(ops) <= MaxOps
  /\ pc \in {"idle", "send", "sync", "synced", "store", "connect", "load", "loaded", "announce"}
  /\ op \in Kinds
  /\ copy \in Rooms
  /\ streak \in 0..MaxFailures
  /\ restored \subseteq {"toggle_replica", "connect"}
  /\ contacted \in BOOLEAN

Init ==
  /\ room = Reachable
  /\ listed = TRUE
  /\ connected = TRUE
  /\ stored = Reachable
  /\ ops = <<>>
  /\ pc = "idle"
  /\ op = "control"
  /\ copy = Reachable
  /\ streak = 0
  /\ restored = {}
  /\ contacted = TRUE

-----------------------------------------------------------------------------
Paused(failures) == failures >= MaxFailures

(* A slip: the counter goes on, in a paused room too.                      *)
NoteFailureUncapped ==
  /\ room' = [suspended |-> Paused(room.failures + 1), failures |-> room.failures + 1,
              error |-> TRUE]
  /\ streak' = IF streak < MaxFailures THEN streak + 1 ELSE MaxFailures
  /\ UNCHANGED restored

(* note_room_failure on the room as it is.                                 *)
NoteFailure ==
  IF room.suspended
  THEN UNCHANGED <<room, streak, restored>>
  ELSE LET n == IF room.failures < MaxFailures THEN room.failures + 1 ELSE MaxFailures
       IN /\ room' = [suspended |-> Paused(n), failures |-> n, error |-> TRUE]
          /\ streak' = IF streak < MaxFailures THEN streak + 1 ELSE MaxFailures
          /\ UNCHANGED restored

(* A slip: a success also ends a pause.                                    *)
NoteSuccessPaused ==
  /\ room' = Reachable
  /\ streak' = 0
  /\ restored' = {}

(* note_room_success: a paused room stays paused.                          *)
NoteSuccess ==
  IF room.suspended
  THEN UNCHANGED <<room, streak, restored>>
  ELSE /\ room' = Reachable
       /\ streak' = 0
       /\ restored' = {}

(* An operation's copy replaces the room, but not a pause since then.      *)
Replace == IF room.suspended THEN room ELSE copy

-----------------------------------------------------------------------------
Enqueue(kind, r) == ops' = Append(ops, [kind |-> kind, copy |-> r])

(* The interface, or the heartbeat, enqueues an operation, or the end of   *)
(* the message stream a reconnect.  A sync of a paused room is refused at  *)
(* once.                                                                   *)
Request(kind) ==
  /\ Len(ops) < MaxOps
  /\ kind \in {"chat", "sync"} => listed
  /\ kind = "sync" => ~room.suspended
  /\ Enqueue(kind, Reachable)
  /\ UNCHANGED <<room, session, pc, op, copy, streak, restored, contacted>>

(* A slip: no sync is enqueued when operations are waiting anyway.         *)
RetryWhenIdle ==
  /\ listed
  /\ Len(ops) < MaxOps
  /\ room' = Reachable
  /\ streak' = 0
  /\ restored' = {}
  /\ contacted' = FALSE
  /\ IF ops = <<>> THEN Enqueue("retry", Reachable) ELSE UNCHANGED ops
  /\ UNCHANGED <<session, pc, op, copy>>

(* retry_selected_room.                                                    *)
Retry ==
  /\ listed
  /\ Len(ops) < MaxOps
  /\ room' = Reachable
  /\ streak' = 0
  /\ restored' = {}
  /\ contacted' = FALSE
  /\ Enqueue("retry", Reachable)
  /\ UNCHANGED <<session, pc, op, copy>>

(* The subscription thread applies an event, and a chat is relayed.        *)
Receive(relayed) ==
  /\ connected
  /\ ~room.suspended
  /\ NoteSuccess
  /\ IF relayed THEN Len(ops) < MaxOps /\ Enqueue("relay", room) ELSE UNCHANGED ops
  /\ UNCHANGED <<session, pc, op, copy, contacted>>

-----------------------------------------------------------------------------
(* The copy an operation works from.                                       *)
CopyOf(o) == IF o.kind = "relay" THEN o.copy ELSE room

(* Where it goes with that copy: nothing but toggle_replica does anything  *)
(* without a client, or goes on with a paused room.                        *)
FirstStep(o) ==
  CASE o.kind = "connect" -> "connect"
    [] o.kind = "replica" -> IF listed THEN "store" ELSE "idle"
    [] o.kind \in {"sync", "retry"} ->
         IF connected /\ ~CopyOf(o).suspended THEN "sync" ELSE "idle"
    [] OTHER -> IF connected /\ ~CopyOf(o).suspended THEN "send" ELSE "idle"

(* The thread takes the next operation.  A chat is first applied to the    *)
(* sender's own room, by handle_wire_message, which notes a success.  A    *)
(* reconnect joins the subscription thread and drops the client.           *)
Start ==
  /\ pc = "idle"
  /\ ops # <<>>
  /\ ops' = Tail(ops)
  /\ pc' = FirstStep(Head(ops))
  /\ op' = Head(ops).kind
  /\ copy' = CopyOf(Head(ops))
  /\ IF Head(ops).kind = "chat" /\ connected
     THEN NoteSuccess
     ELSE UNCHANGED <<room, streak, restored>>
  /\ connected' = (connected /\ Head(ops).kind # "connect")
  /\ UNCHANGED <<listed, stored, contacted>>

(* A chat with a banned phrase, of a banned member or in demo mode ends    *)
(* before it is sent.                                                      *)
ChatRefused ==
  /\ pc = "idle"
  /\ ops # <<>>
  /\ Head(ops).kind = "chat"
  /\ ops' = Tail(ops)
  /\ UNCHANGED <<room, session, pc, op, copy, streak, restored, contacted>>

(* send_envelope_to_room, or a direct send_control: some recipient's       *)
(* message is queued.                                                      *)
SendSucceeds ==
  /\ pc = "send"
  /\ NoteSuccess
  /\ contacted' = TRUE
  /\ pc' = "idle"
  /\ UNCHANGED <<session, ops, op, copy>>

SendFails ==
  /\ pc = "send"
  /\ NoteFailure
  /\ contacted' = TRUE
  /\ pc' = "idle"
  /\ UNCHANGED <<session, ops, op, copy>>

(* There is no other member to send it to, or it could not be signed.      *)
SendUnnoted ==
  /\ pc = "send"
  /\ pc' = "idle"
  /\ UNCHANGED <<room, session, ops, op, copy, streak, restored, contacted>>

(* sync_from_record ends by replacing the room.                            *)
SyncReplaces ==
  /\ pc = "sync"
  /\ room' = Replace
  /\ contacted' = TRUE
  /\ pc' = "synced"
  /\ UNCHANGED <<session, ops, op, copy, streak, restored>>

(* A retry goes on to send a join request, or the owner's presence; a      *)
(* reconnect has other rooms to synchronize first.                         *)
AfterSync ==
  /\ copy' = room'
  /\ pc' = CASE op = "retry" -> IF room'.suspended THEN "idle" ELSE "send"
             [] op = "connect" -> "announce"
             [] OTHER -> "idle"
  /\ UNCHANGED <<session, ops, op>>

(* A slip: the sync leaves the counter it has put back.                    *)
SyncEndsUnnoted ==
  /\ pc = "synced"
  /\ UNCHANGED <<room, streak, restored>>
  /\ AfterSync
  /\ UNCHANGED contacted

SyncEnds ==
  /\ pc = "synced"
  /\ NoteSuccess
  /\ AfterSync
  /\ UNCHANGED contacted

(* No store could be read.                                                 *)
SyncFails ==
  /\ pc = "sync"
  /\ NoteFailure
  /\ contacted' = TRUE
  /\ AfterSync

(* toggle_replica has made and written the store: the whole room is        *)
(* replaced, and a copy made while the room was paused sends no ad.        *)
ReplicaReplaces ==
  /\ pc = "store"
  /\ room' = Replace
  /\ restored' = IF room' = room THEN restored ELSE restored \cup {"toggle_replica"}
  /\ pc' = IF connected /\ ~copy.suspended THEN "send" ELSE "idle"
  /\ UNCHANGED <<session, ops, op, copy, streak, contacted>>

(* create_store or persist_room throws, which is not counted.              *)
StoreFails ==
  /\ pc = "store"
  /\ pc' = "idle"
  /\ UNCHANGED <<room, session, ops, op, copy, streak, restored, contacted>>

(* connect_impl clears the rooms,                                          *)
ClearRooms ==
  /\ pc = "connect"
  /\ listed' = FALSE
  /\ pc' = "load"
  /\ UNCHANGED <<room, connected, stored, ops, op, copy, streak, restored, contacted>>

(* and installs those of the vault with the new client: a failure, a       *)
(* pause, a success or a retry that has not been saved is undone.          *)
InstallRooms ==
  /\ pc = "load"
  /\ room' = stored
  /\ restored' = IF room' = room THEN restored ELSE restored \cup {"connect"}
  /\ listed' = TRUE
  /\ connected' = TRUE
  /\ pc' = "loaded"
  /\ UNCHANGED <<stored, ops, op, copy, streak, contacted>>

(* The daemon is not found, does not authenticate or does not answer.      *)
ConnectFails ==
  /\ pc \in {"connect", "load"}
  /\ pc' = "idle"
  /\ UNCHANGED <<room, session, ops, op, copy, streak, restored, contacted>>

(* It synchronizes the rooms that are not paused,                          *)
SyncAfterConnect ==
  /\ pc = "loaded"
  /\ copy' = room
  /\ pc' = IF room.suspended THEN "announce" ELSE "sync"
  /\ UNCHANGED <<room, session, ops, op, streak, restored, contacted>>

(* and sends a join request for those of other owners.                     *)
AnnounceJoin(owned) ==
  /\ pc = "announce"
  /\ copy' = room
  /\ pc' = IF room.suspended \/ owned THEN "idle" ELSE "send"
  /\ UNCHANGED <<room, session, ops, op, streak, restored, contacted>>

(* A save_locked's persist operation, between two others: whether and when *)
(* it runs, and whether the vault takes it, is left open.                  *)
Save ==
  /\ pc = "idle"
  /\ connected
  /\ stored' = room
  /\ UNCHANGED <<room, listed, connected, ops, pc, op, copy, streak, restored, contacted>>

OperationThread ==
  \/ Start \/ ChatRefused
  \/ SendSucceeds \/ SendFails \/ SendUnnoted
  \/ SyncReplaces \/ SyncEnds \/ SyncFails
  \/ ReplicaReplaces \/ StoreFails
  \/ ClearRooms \/ InstallRooms \/ ConnectFails \/ SyncAfterConnect
  \/ \E owned \in BOOLEAN : AnnounceJoin(owned)

Next ==
  \/ OperationThread
  \/ Save
  \/ \E kind \in Kinds \ {"relay", "retry"} : Request(kind)
  \/ Retry
  \/ \E relayed \in BOOLEAN : Receive(relayed)

Spec == Init /\ [][Next]_vars

(* The operation thread keeps running, and a request to the daemon ends.   *)
FairSpec == Spec /\ WF_vars(OperationThread)

-----------------------------------------------------------------------------
(* The flag and the counter agree, although they are copied, put back and  *)
(* changed by three threads.                                               *)
PausedAtLimit == room.suspended <=> room.failures = MaxFailures

(* A room is paused only by MaxFailures failures in a row: what a sync     *)
(* puts back is not counted again, unless toggle_replica or a reconnect    *)
(* has put back an older state.                                            *)
PausedByStreak == room.suspended /\ restored = {} => streak = MaxFailures

(* A late success, as of a relay sent from a copy older than the pause,    *)
(* does not end the pause, and a pause the vault holds outlasts every      *)
(* reconnect: it ends by Retry, or by a reconnect that comes before its    *)
(* save.                                                                   *)
ResumedByRetry ==
  [][room.suspended /\ ~room'.suspended => Retry \/ (InstallRooms /\ ~stored.suspended)]_vars

(* Retry makes the engine try the room again, unless it is paused anew or  *)
(* a reconnect has failed: without a client nothing is contacted.          *)
RetryContacts == ~contacted ~> (contacted \/ room.suspended \/ (pc = "idle" /\ ~connected))

(* room_engine.cpp says of a paused room: paused after repeated failures.  *)
(* Retry in the middle of a toggle_replica shows otherwise,                *)
PausedAfterFailures ==
  room.suspended /\ "connect" \notin restored => streak = MaxFailures

(* and so does a reconnect that comes before the save of a Retry.          *)
PausedAfterReconnect ==
  room.suspended /\ "toggle_replica" \notin restored => streak = MaxFailures

(* A pause ends by Retry alone: a reconnect before its save ends it too.   *)
PausedUntilRetry == [][room.suspended /\ ~room'.suspended => Retry]_vars

=============================================================================
