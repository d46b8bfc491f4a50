----------------------------- MODULE AndroidRoom -----------------------------
(***************************************************************************)
(* One room on the Android device of its owner, and the store it publishes *)
(* to (RoomEngine.kt: handleWireMessage, replaceRoom, mergeRoomSnapshots,  *)
(* persistRoom, syncRoomInternal, syncFromRecord, heartbeatLoop,           *)
(* noteRoomFailure, noteRoomSuccess, retrySelectedRoom).  Every event and  *)
(* every operation runs in a coroutine that reads the room, waits for the  *)
(* daemon, and writes its copy back; replaceRoom merges the copy into the  *)
(* room as it is by then.                                                  *)
(*                                                                         *)
(* The messages fit in one page and under the 1000 a room keeps; members,  *)
(* roles and phrases, which the merge takes from the copy, are left out.   *)
(***************************************************************************)
EXTENDS Naturals, FiniteSets

CONSTANTS
  Events,         \* chat messages
  Coroutines,     \* coroutines that work on the room
  FailureLimit,   \* failures in a row that pause the room
  MaxGeneration   \* bound: writes to the store

ASSUME AndroidRoomAssumption ==
  /\ IsFiniteSet(Events)
  /\ FailureLimit \in Nat \ {0}
  /\ MaxGeneration \in Nat

VARIABLES
  room,     \* the Room object in mutableState
  store,    \* the store: its generation, the page and the manifest's tombstones
  pc,       \* pc[c]: where coroutine c is
  copy,     \* copy[c]: the Room object it will write back
  base,     \* base[c]: syncRoomInternal's own, while the pages are replayed
  event,    \* event[c]: the message it handles, or those it has to replay
  syncing,  \* the coroutines that are inside syncFromRecord
  streak    \* history: failures since the last success or retry

vars == <<room, store, pc, copy, base, event, syncing, streak>>

RoomStates ==
  [messages : SUBSET Events, hidden : SUBSET Events, tombstones : SUBSET Events,
   generation : 0..MaxGeneration, failures : 0..FailureLimit, suspended : BOOLEAN]

EmptyRoom ==
  [messages |-> {}, hidden |-> {}, tombstones |-> {}, generation |-> 0, failures |-> 0,
   suspended |-> FALSE]

Steps ==
  {"idle", "chat", "delete", "other", "noted", "persist", "written", "relay", "manifest",
   "pages", "replay", "final", "succeeded", "failed"}

TypeOK ==
  /\ room \in RoomStates
  /\ room.hidden \subseteq room.messages
  /\ store \in [generation : 0..MaxGeneration, messages : SUBSET Events,
                tombstones : SUBSET Events]
  /\ pc \in [Coroutines -> Steps]
  /\ copy \in [Coroutines -> RoomStates]
  /\ base \in [Coroutines -> RoomStates]
  /\ event \in [Coroutines -> SUBSET Events]
  /\ syncing \subseteq Coroutines
  /\ streak \in 0..FailureLimit

Init ==
  /\ room = EmptyRoom
  /\ store = [generation |-> 0, messages |-> {}, tombstones |-> {}]
  /\ pc = [c \in Coroutines |-> "idle"]
  /\ copy = [c \in Coroutines |-> EmptyRoom]
  /\ base = [c \in Coroutines |-> EmptyRoom]
  /\ event = [c \in Coroutines |-> {}]
  /\ syncing = {}
  /\ streak = 0

-----------------------------------------------------------------------------
Larger(m, n) == IF m < n THEN n ELSE m

(* A slip: the copy replaces the room, as it did once.                     *)
MergeReplacing(existing, incoming) ==
  [incoming EXCEPT !.failures = existing.failures, !.suspended = existing.suspended]

(* A slip: the pause is taken from the copy too.                           *)
MergeWithPause(existing, incoming) ==
  [incoming EXCEPT
    !.messages = existing.messages \cup incoming.messages,
    !.hidden = existing.hidden \cup incoming.hidden,
    !.tombstones = existing.tombstones \cup incoming.tombstones,
    !.generation = Larger(existing.generation, incoming.generation)]

(* mergeRoomSnapshots.                                                     *)
Merge(existing, incoming) ==
  [messages |-> existing.messages \cup incoming.messages,
   hidden |-> existing.hidden \cup incoming.hidden,
   tombstones |-> existing.tombstones \cup incoming.tombstones,
   generation |-> Larger(existing.generation, incoming.generation),
   failures |-> existing.failures,
   suspended |-> existing.suspended]

Goto(c, step) == pc' = [pc EXCEPT ![c] = step]

Keep(c, r) == copy' = [copy EXCEPT ![c] = r]
Forget(c) == Keep(c, EmptyRoom)

-----------------------------------------------------------------------------
(* handleWireMessage: the room is read, then the daemon verifies the       *)
(* signature.                                                              *)
Handle(c, kind, e) ==
  /\ pc[c] = "idle"
  /\ ~room.suspended
  /\ Keep(c, room)
  /\ event' = [event EXCEPT ![c] = {e}]
  /\ Goto(c, kind)
  /\ UNCHANGED <<room, store, base, syncing, streak>>

ReceiveChat(c, e) == Handle(c, "chat", e)
ReceiveDelete(c, e) == Handle(c, "delete", e)

WithMessage(r, e) ==
  [r EXCEPT !.messages = @ \cup {e}, !.hidden = @ \cup ({e} \cap r.tombstones)]

WithTombstone(r, e) ==
  [r EXCEPT !.tombstones = @ \cup {e}, !.hidden = @ \cup ({e} \cap r.messages)]

(* A message the copy has already is not added again.                      *)
ApplyChat(c) ==
  \E e \in event[c] :
    /\ pc[c] \in {"chat", "replay"}
    /\ event' = [event EXCEPT ![c] = @ \ {e}]
    /\ IF e \in copy[c].messages
       THEN Forget(c) /\ Goto(c, "succeeded") /\ UNCHANGED room
       ELSE /\ Keep(c, WithMessage(copy[c], e))
            /\ room' = Merge(room, WithMessage(copy[c], e))
            /\ Goto(c, "noted")
    /\ UNCHANGED <<store, base, syncing, streak>>

ApplyDelete(c) ==
  \E e \in event[c] :
    /\ pc[c] = "delete"
    /\ event' = [event EXCEPT ![c] = {}]
    /\ room' = Merge(room, WithTombstone(copy[c], e))
    /\ Forget(c)
    /\ Goto(c, "succeeded")
    /\ UNCHANGED <<store, base, syncing, streak>>

(* noteRoomSuccess.  After a new message the handler goes on to persist;   *)
(* otherwise it is done, and syncFromRecord goes on with its pages.        *)
NoteSuccess(c) ==
  /\ pc[c] \in {"noted", "succeeded"}
  /\ room' = IF room.suspended THEN room ELSE [room EXCEPT !.failures = 0]
  /\ streak' = IF room.suspended THEN streak ELSE 0
  /\ Goto(c, IF pc[c] = "noted" THEN "persist" ELSE IF c \in syncing THEN "pages" ELSE "idle")
  /\ UNCHANGED <<store, copy, base, event, syncing>>

(* noteRoomFailure.                                                        *)
NoteFailure(c) ==
  /\ pc[c] = "failed"
  /\ IF room.suspended
     THEN UNCHANGED <<room, streak>>
     ELSE /\ room' = [room EXCEPT !.failures = @ + 1,
                                  !.suspended = room.failures + 1 >= FailureLimit]
          /\ streak' = streak + 1
  /\ Goto(c, "idle")
  /\ UNCHANGED <<store, copy, base, event, syncing>>

-----------------------------------------------------------------------------
(* A slip: the write does not name the generation it follows.              *)
PersistUnchecked(c) ==
  /\ pc[c] = "persist"
  /\ store.generation < MaxGeneration
  /\ store' = [generation |-> store.generation + 1, messages |-> copy[c].messages,
               tombstones |-> copy[c].tombstones]
  /\ Keep(c, [copy[c] EXCEPT !.generation = store'.generation])
  /\ Goto(c, "written")
  /\ UNCHANGED <<room, base, event, syncing, streak>>

(* persistRoom publishes the handler's own copy, not the merged room; the  *)
(* daemon takes it when the store is at the generation the copy knows.     *)
Persist(c) ==
  /\ pc[c] = "persist"
  /\ copy[c].generation = store.generation
  /\ store.generation < MaxGeneration
  /\ store' = [generation |-> store.generation + 1, messages |-> copy[c].messages,
               tombstones |-> copy[c].tombstones]
  /\ Keep(c, [copy[c] EXCEPT !.generation = store'.generation])
  /\ Goto(c, "written")
  /\ UNCHANGED <<room, base, event, syncing, streak>>

(* The new generation is put into the room.                                *)
PersistReturns(c) ==
  /\ pc[c] = "written"
  /\ room' = Merge(room, copy[c])
  /\ Forget(c)
  /\ Goto(c, "relay")
  /\ UNCHANGED <<store, base, event, syncing, streak>>

(* The write is refused, or fails, or its reply is lost: nobody is told.   *)
PersistFails(c) ==
  /\ pc[c] \in {"persist", "written"}
  /\ Forget(c)
  /\ Goto(c, "relay")
  /\ UNCHANGED <<room, store, base, event, syncing, streak>>

(* A message that has just come is relayed to the members, when there are  *)
(* any; one that is replayed is not.                                       *)
Relay(c) ==
  /\ pc[c] = "relay"
  /\ IF c \in syncing
     THEN Goto(c, "pages")
     ELSE \E outcome \in {"idle", "succeeded", "failed"} : Goto(c, outcome)
  /\ UNCHANGED <<room, store, copy, base, event, syncing, streak>>

-----------------------------------------------------------------------------
StartSync(c) ==
  /\ pc[c] = "idle"
  /\ ~room.suspended
  /\ base' = [base EXCEPT ![c] = room]
  /\ Goto(c, "manifest")
  /\ UNCHANGED <<room, store, copy, event, syncing, streak>>

(* applyManifest takes the tombstones of the manifest for its own.         *)
Applied(r, tombstones) ==
  [r EXCEPT !.tombstones = tombstones, !.hidden = @ \cup (r.messages \cap tombstones)]

ReadManifest(c) ==
  /\ pc[c] = "manifest"
  /\ store.generation > 0
  /\ room' = Merge(room, Applied(base[c], store.tombstones))
  /\ syncing' = syncing \cup {c}
  /\ event' = [event EXCEPT ![c] = store.messages]
  /\ Goto(c, "pages")
  /\ UNCHANGED <<store, copy, base, streak>>

(* Every message of the pages is handled like one that has just come.      *)
Replay(c) ==
  /\ pc[c] = "pages"
  /\ event[c] # {}
  /\ IF room.suspended
     THEN event' = [event EXCEPT ![c] = {}] /\ UNCHANGED <<copy, pc>>
     ELSE Keep(c, room) /\ Goto(c, "replay") /\ UNCHANGED event
  /\ UNCHANGED <<room, store, base, syncing, streak>>

(* syncFromRecord returns the room as it is now, and syncRoomInternal      *)
(* writes that back.                                                       *)
PagesDone(c) ==
  /\ pc[c] = "pages"
  /\ event[c] = {}
  /\ base' = [base EXCEPT ![c] = room]
  /\ syncing' = syncing \ {c}
  /\ Goto(c, "final")
  /\ UNCHANGED <<room, store, copy, event, streak>>

EndSync(c) ==
  /\ pc[c] = "final"
  /\ room' = Merge(room, base[c])
  /\ base' = [base EXCEPT ![c] = EmptyRoom]
  /\ Goto(c, "succeeded")
  /\ UNCHANGED <<store, copy, event, syncing, streak>>

(* What syncRoomInternal writes back then is the copy it started with.     *)
SyncFails(c) ==
  /\ pc[c] \in {"manifest", "pages"}
  /\ room' = Merge(room, base[c])
  /\ base' = [base EXCEPT ![c] = EmptyRoom]
  /\ syncing' = syncing \ {c}
  /\ event' = [event EXCEPT ![c] = {}]
  /\ Goto(c, "failed")
  /\ UNCHANGED <<store, copy, streak>>

-----------------------------------------------------------------------------
(* A heartbeat, a presence, a role, a phrase list, a replica switched on,  *)
(* a member's reputation, a notice of the app's own: the fields modelled   *)
(* here are written back as they were read, some also while the room is    *)
(* paused.                                                                 *)
StartOther(c) ==
  /\ pc[c] = "idle"
  /\ Keep(c, room)
  /\ Goto(c, "other")
  /\ UNCHANGED <<room, store, base, event, syncing, streak>>

EndOther(c) ==
  /\ pc[c] = "other"
  /\ room' = Merge(room, copy[c])
  /\ Forget(c)
  /\ \E outcome \in {"succeeded", "failed"} : Goto(c, outcome)
  /\ UNCHANGED <<store, base, event, syncing, streak>>

(* retrySelectedRoom, under the lock; it synchronizes the room next.       *)
Retry ==
  /\ room.suspended
  /\ room' = [room EXCEPT !.suspended = FALSE, !.failures = 0]
  /\ streak' = 0
  /\ UNCHANGED <<store, pc, copy, base, event, syncing>>

Next ==
  \/ \E c \in Coroutines :
       \/ \E e \in Events : ReceiveChat(c, e) \/ ReceiveDelete(c, e)
       \/ ApplyChat(c) \/ ApplyDelete(c) \/ NoteSuccess(c) \/ NoteFailure(c)
       \/ Persist(c) \/ PersistReturns(c) \/ PersistFails(c) \/ Relay(c)
       \/ StartSync(c) \/ ReadManifest(c) \/ Replay(c) \/ PagesDone(c) \/ EndSync(c)
       \/ SyncFails(c)
       \/ StartOther(c) \/ EndOther(c)
  \/ Retry

Spec == Init /\ [][Next]_vars

-----------------------------------------------------------------------------
(* No coroutine's older copy takes a message, a tombstone or the hiding of *)
(* a deleted message back ("a union is safe", mergeRoomSnapshots).         *)
HistoryStays ==
  [][/\ room.messages \subseteq room'.messages
     /\ room.hidden \subseteq room'.hidden
     /\ room.tombstones \subseteq room'.tombstones]_vars

(* Suspension is strictly local state: a room is paused by the last        *)
(* failures in a row and resumed by Retry alone, whatever older copies are *)
(* written back ("never let that stale snapshot re-pause the room").       *)
PauseIsLocal == room.suspended <=> streak = FailureLimit

(* A handler publishes its own older copy: the generation it must name     *)
(* keeps it from taking back what another one has published.               *)
PublishedStays ==
  [][/\ store.messages \subseteq store'.messages
     /\ store.tombstones \subseteq store'.tombstones]_vars

(* "Room events are immutable and identified by eventId, so a union is     *)
(* safe; moderation represents deletion with a tombstone flag"             *)
(* (mergeRoomSnapshots): a message whose tombstone is held is not shown.   *)
DeletedIsHidden == room.tombstones \cap room.messages \subseteq room.hidden

=============================================================================
