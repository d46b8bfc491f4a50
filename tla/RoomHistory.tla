----------------------------- MODULE RoomHistory -----------------------------
(***************************************************************************)
(* A room's chat history in the engines of its participants and in the     *)
(* public stores of those who publish it, the owner and the replicas       *)
(* (room_engine.cpp: handle_wire_message and the chat branch of            *)
(* apply_decoded_message, persist_room, sync_room_impl, sync_from_record). *)
(*                                                                         *)
(* The subscription thread appends an event under the mutex whenever the   *)
(* daemon delivers it, first hand, relayed or from the mailbox.  One       *)
(* operation thread runs persists, which publish the last page of a copy   *)
(* of the room, and syncs, which read pages into a copy of the room that   *)
(* then replaces the room.                                                 *)
(*                                                                         *)
(* An event stands for a signed chat envelope that its receivers accept.   *)
(* A store has one writer, so its generation is kept as whether the        *)
(* writer's copy of it is behind.                                          *)
(***************************************************************************)
EXTENDS Naturals, SequencesExt

CONSTANTS
  Nodes,       \* participants
  Writers,     \* those with an owned store: the owner and the replicas
  Events,      \* chat events
  PageSize,    \* messages_per_page
  Subkeys,     \* owned_store_subkeys: the manifest and Subkeys - 1 pages
  MaxReloads   \* bound: restarts and reconnects

ASSUME HistoryAssumption ==
  /\ Writers \subseteq Nodes
  /\ PageSize \in Nat \ {0}
  /\ Subkeys \in Nat \ {0, 1}
  /\ MaxReloads \in Nat

VARIABLES
  history,   \* room.messages, the chats among them
  pages,     \* a store's locations 1, 2, ...
  latest,    \* latest_page in its manifest, location 0
  stale,     \* owned_store_generation is not the store's generation
  ops,       \* operations_
  pc,        \* what the operation thread does
  copy,      \* its copy of the room
  source,    \* the writer whose store its sync reads
  bound,     \* and the latest_page it found there
  listed,    \* history: what that store had published then
  failed,    \* history: the last persist failed, or a reload came after it
  shortened, \* history: a reload forgot events
  dropped,   \* history: a sync's copy replaced a room with events it lacked
  reloads    \* history: number of reloads

store == <<pages, latest>>
thread == <<pc, copy, source, bound, listed>>
ghost == <<failed, shortened, dropped, reloads>>
vars == <<history, store, stale, ops, thread, ghost>>

TypeOK ==
  /\ history \in [Nodes -> Seq(Events)]
  /\ pages \in [Writers -> [1..Subkeys -> Seq(Events)]]
  /\ latest \in [Writers -> 1..Subkeys]
  /\ stale \in [Writers -> BOOLEAN]
  /\ ops \in [Nodes -> Seq({"persist", "sync"})]
  /\ pc \in [Nodes -> {"idle", "persist", "sync", "pages", "replace"}]
  /\ copy \in [Nodes -> Seq(Events)]
  /\ source \in [Nodes -> Nodes]
  /\ bound \in [Nodes -> 1..Subkeys]
  /\ listed \in [Nodes -> SUBSET Events]
  /\ \A n \in Nodes : pc[n] = "pages" => source[n] \in Writers
  /\ \A n \in Nodes : pc[n] = "persist" => n \in Writers
  /\ failed \in [Writers -> BOOLEAN]
  /\ shortened \in BOOLEAN
  /\ dropped \in BOOLEAN
  /\ reloads \in 0..MaxReloads

(* create_room and toggle_replica publish an empty page 1.                 *)
Init ==
  /\ history = [n \in Nodes |-> <<>>]
  /\ pages = [w \in Writers |-> [p \in 1..Subkeys |-> <<>>]]
  /\ latest = [w \in Writers |-> 1]
  /\ stale = [w \in Writers |-> FALSE]
  /\ ops = [n \in Nodes |-> <<>>]
  /\ pc = [n \in Nodes |-> "idle"]
  /\ copy = [n \in Nodes |-> <<>>]
  /\ source = [n \in Nodes |-> n]
  /\ bound = [n \in Nodes |-> 1]
  /\ listed = [n \in Nodes |-> {}]
  /\ failed = [w \in Writers |-> FALSE]
  /\ shortened = FALSE
  /\ dropped = FALSE
  /\ reloads = 0

-----------------------------------------------------------------------------
EventSeen(h, e) == \E i \in DOMAIN h : h[i] = e

(* A slip: a chat read from a page is appended unseen or not.              *)
ApplyEventAgain(h, e) == Append(h, e)

(* apply_decoded_message appends a chat it has not seen.                   *)
ApplyEvent(h, e) == IF EventSeen(h, e) THEN h ELSE Append(h, e)

(* Each chat appended by a writer enqueues a persist of its own.           *)
Persists(n, count) ==
  IF n \in Writers THEN [i \in 1..count |-> "persist"] ELSE <<>>

(* A slip: a persist already running is taken to publish the event too.    *)
DeliverCoalesced(n, e) ==
  /\ ~EventSeen(history[n], e)
  /\ history' = [history EXCEPT ![n] = ApplyEvent(@, e)]
  /\ ops' = [ops EXCEPT ![n] = @ \o Persists(n, IF pc[n] = "persist" THEN 0 ELSE 1)]
  /\ UNCHANGED <<store, stale, thread, ghost>>

(* The subscription thread receives an event, or the operation thread has  *)
(* signed one of this node: the mutex is held from the test to the append, *)
(* and nothing tells a repeated delivery from the first but the history.   *)
Deliver(n, e) ==
  /\ ~EventSeen(history[n], e)
  /\ history' = [history EXCEPT ![n] = ApplyEvent(@, e)]
  /\ ops' = [ops EXCEPT ![n] = @ \o Persists(n, 1)]
  /\ UNCHANGED <<store, stale, thread, ghost>>

(* sync_selected_room, a retry, or a join_accepted event; one at a time.   *)
RequestSync(n) ==
  /\ pc[n] \in {"idle", "persist"}
  /\ \A i \in DOMAIN ops[n] : ops[n][i] # "sync"
  /\ ops' = [ops EXCEPT ![n] = Append(@, "sync")]
  /\ UNCHANGED <<history, store, stale, thread, ghost>>

(* The operation thread starts the next operation with a copy of the room. *)
Start(n) ==
  /\ pc[n] = "idle"
  /\ ops[n] # <<>>
  /\ ops' = [ops EXCEPT ![n] = Tail(@)]
  /\ pc' = [pc EXCEPT ![n] = Head(ops[n])]
  /\ copy' = [copy EXCEPT ![n] = history[n]]
  /\ UNCHANGED <<history, store, stale, source, bound, listed, ghost>>

(* An operation ends, and its locals with it.                              *)
End(n) ==
  /\ pc' = [pc EXCEPT ![n] = "idle"]
  /\ copy' = [copy EXCEPT ![n] = <<>>]
  /\ source' = [source EXCEPT ![n] = n]
  /\ bound' = [bound EXCEPT ![n] = 1]
  /\ listed' = [listed EXCEPT ![n] = {}]

-----------------------------------------------------------------------------
(* persist_room: the history's last page, the only one it writes.          *)
LatestPage(h) == IF h = <<>> THEN 1 ELSE (Len(h) - 1) \div PageSize + 1

(* A slip: the page is written with the newest message alone.              *)
NewestMessage(h) == IF h = <<>> THEN <<>> ELSE <<Last(h)>>

LatestMessages(h) == SubSeq(h, (LatestPage(h) - 1) * PageSize + 1, Len(h))

(* A slip: the store is taken to have one location more.                   *)
FullPastEnd(h) == LatestPage(h) > Subkeys

Full(h) == LatestPage(h) >= Subkeys

(* write_store writes manifest and page at once, if the generation is the  *)
(* expected one; published says whether its reply arrived.                 *)
WritePage(w, published) ==
  /\ pages' = [pages EXCEPT ![w][LatestPage(copy[w])] = LatestMessages(copy[w])]
  /\ latest' = [latest EXCEPT ![w] = LatestPage(copy[w])]
  /\ stale' = [stale EXCEPT ![w] = ~published]
  /\ failed' = [failed EXCEPT ![w] = ~published]

Persist(w) ==
  /\ pc[w] = "persist"
  /\ ~Full(copy[w])
  /\ ~stale[w]
  /\ \E published \in BOOLEAN : WritePage(w, published)
  /\ End(w)
  /\ UNCHANGED <<history, ops, shortened, dropped, reloads>>

(* The store is full, its generation is another one, or the request fails. *)
PersistFails(w) ==
  /\ pc[w] = "persist"
  /\ failed' = [failed EXCEPT ![w] = TRUE]
  /\ End(w)
  /\ UNCHANGED <<history, store, stale, ops, shortened, dropped, reloads>>

-----------------------------------------------------------------------------
Published(w, last) == FlattenSeq([p \in 1..last |-> pages[w][p]])

Stored(w) == ToSet(Published(w, latest[w]))

(* sync_from_record reads the manifest of the owner's store or, where that *)
(* fails, of a replica's, possibly its own.                                *)
ReadManifest(n, w) ==
  /\ pc[n] = "sync"
  /\ source' = [source EXCEPT ![n] = w]
  /\ bound' = [bound EXCEPT ![n] = latest[w]]
  /\ listed' = [listed EXCEPT ![n] = Stored(w)]
  /\ pc' = [pc EXCEPT ![n] = "pages"]
  /\ UNCHANGED <<history, store, stale, ops, copy, ghost>>

Merge(h, events) == FoldLeft(ApplyEvent, h, events)

(* A second request reads its pages, and their events are applied to the   *)
(* copy; a writer enqueues a persist for each that is new to it.           *)
ReadPages(n) ==
  LET merged == Merge(copy[n], Published(source[n], bound[n]))
  IN /\ pc[n] = "pages"
     /\ copy' = [copy EXCEPT ![n] = merged]
     /\ ops' = [ops EXCEPT ![n] = @ \o Persists(n, Len(merged) - Len(copy[n]))]
     /\ pc' = [pc EXCEPT ![n] = "replace"]
     /\ UNCHANGED <<history, store, stale, source, bound, listed, ghost>>

(* The copy replaces the room, under the mutex.                            *)
ReplaceRoom(n) ==
  /\ pc[n] = "replace"
  /\ history' = [history EXCEPT ![n] = copy[n]]
  /\ dropped' = (dropped \/ ~(ToSet(history[n]) \subseteq ToSet(copy[n])))
  /\ End(n)
  /\ UNCHANGED <<store, stale, ops, failed, shortened, reloads>>

(* No store can be read: the room stays as it is.                          *)
SyncFails(n) ==
  /\ pc[n] \in {"sync", "pages"}
  /\ End(n)
  /\ UNCHANGED <<history, store, stale, ops, ghost>>

-----------------------------------------------------------------------------
(* The process restarts, or between two operations it reconnects and keeps *)
(* its queue.  The vault gives back the room as it was when last saved,    *)
(* list_stores the store's generation, and connect_impl syncs the room.    *)
Reload(n, restarted) ==
  /\ reloads < MaxReloads
  /\ restarted \/ pc[n] = "idle"
  /\ \E k \in 0..Len(history[n]) :
       /\ history' = [history EXCEPT ![n] = SubSeq(@, 1, k)]
       /\ shortened' = (shortened \/ k < Len(history[n]))
  /\ failed' = [w \in Writers |-> failed[w] \/ w = n]
  /\ stale' = [w \in Writers |-> stale[w] /\ w # n]
  /\ ops' = [ops EXCEPT ![n] = <<"sync">> \o (IF restarted THEN <<>> ELSE @)]
  /\ reloads' = reloads + 1
  /\ End(n)
  /\ UNCHANGED <<store, dropped>>

Next ==
  \/ \E n \in Nodes :
       \/ \E e \in Events : Deliver(n, e)
       \/ RequestSync(n)
       \/ Start(n)
       \/ \E w \in Writers : ReadManifest(n, w)
       \/ ReadPages(n)
       \/ ReplaceRoom(n)
       \/ SyncFails(n)
       \/ \E restarted \in BOOLEAN : Reload(n, restarted)
  \/ \E w \in Writers : Persist(w) \/ PersistFails(w)

Spec == Init /\ [][Next]_vars

-----------------------------------------------------------------------------
(* However an event reaches a node, first hand, relayed, from the mailbox  *)
(* or in a page being merged meanwhile, it is in the history once.         *)
NoDuplicates == \A n \in Nodes : IsInjective(history[n])

(* When a writer has nothing left to do and its last persist succeeded,    *)
(* its manifest points to the page that ends its history, whatever events  *)
(* and syncs came between copying the room and writing the page.           *)
TailPublished ==
  \A w \in Writers :
    (pc[w] = "idle" /\ ~failed[w] /\ \A i \in DOMAIN ops[w] : ops[w][i] # "persist")
      => /\ latest[w] = LatestPage(history[w])
         /\ pages[w][latest[w]] = LatestMessages(history[w])

(* No page is written past the end of the store, where no sync reads it.   *)
PagesInStore ==
  \A w \in Writers : latest[w] < Subkeys /\ pages[w][Subkeys] = <<>>

(* A published event stays published, although a page is written again     *)
(* from a copy that syncs replace, unless a reload forgot events.          *)
PublishedStays == [][\A w \in Writers : shortened \/ Stored(w) \subseteq Stored(w)']_vars

(* The manifest and its pages are read by two requests, and the writer may *)
(* publish in between.  What a sync installs still holds all that was      *)
(* published when it read the manifest, unless a reload forgot events.     *)
SyncHoldsListed ==
  \A n \in Nodes : pc[n] = "replace" /\ ~shortened => listed[n] \subseteq ToSet(copy[n])

(* docs/ARCHITECTURE.md: a message ends up in the canonical history.       *)
HistoryIncluded ==
  \A w \in Writers :
    (pc[w] = "idle" /\ ~failed[w] /\ \A i \in DOMAIN ops[w] : ops[w][i] # "persist")
      => ToSet(history[w]) \subseteq Stored(w)

(* docs/RELEASE_NOTES_0.4.0.md: live and mailbox delivery remain usable    *)
(* while history is still replicating, so a sync drops nothing delivered.  *)
DeliveredKept == ~dropped

=============================================================================
