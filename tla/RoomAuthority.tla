---------------------------- MODULE RoomAuthority ----------------------------
(***************************************************************************)
(* Who may do what in a room, as each participant's engine sees it         *)
(* (room_engine.cpp: apply_decoded_message, apply_manifest, can_moderate,  *)
(* change_member_role, toggle_member_ban, delete_message, the join_request *)
(* operation, leaving and joining).  Every engine keeps its own member     *)
(* table and tombstones.  They change by signed events, sent to each known *)
(* member on its own and so delivered in any order or not at all, and by   *)
(* manifests: snapshots of the owner's table, read from its store or       *)
(* carried by join_accepted.                                               *)
(*                                                                         *)
(* A manifest is published by the persists that RoomHistory models, after  *)
(* a chat or a join request at the owner, not after a moderation event.    *)
(* The owner may remove its room like anyone else, and open its own        *)
(* invitation again: it then has the room without the store (owning).      *)
(* A sync is one step here, and what is delivered during it is either      *)
(* delivered before it or Overwritten by it.                               *)
(***************************************************************************)
EXTENDS FiniteSets, Naturals

CONSTANTS
  Nodes,        \* identities (main_dht)
  Owner,        \* owner_main_dht
  Newcomers,    \* those who have not joined yet
  Moderators,   \* those whom the owner has appointed by the start
  Messages,     \* ids of chats everyone holds
  HelperLimit,  \* max_helpers of a moderator (4)
  Nobody,       \* no recipient
  MaxSent       \* bound: events sent

ASSUME AuthorityAssumption ==
  /\ Owner \in Nodes \ Newcomers
  /\ Moderators \subseteq Nodes \ (Newcomers \cup {Owner})
  /\ Nobody \notin Nodes
  /\ HelperLimit \in Nat
  /\ MaxSent \in Nat

VARIABLES
  view,      \* a node's members, bans and deleted_message_ids
  manifest,  \* the view in the owner's store
  inbox,     \* events on their way to a node, or lost: then they stay here
  echo,      \* the event of a node's send_control that it has yet to apply itself
  owning,    \* the owner's room has its owned_store_id
  joins,     \* the owner's queued join_request operations, by recipient
  accepting, \* the one under way
  issued,    \* history: events sent
  sent,      \* history: their number
  dropped,   \* history: those whose entry at the owner was Overwritten
  unlisted   \* history: those accepted by an owner without the store

past == <<issued, sent, dropped, unlisted>>
vars == <<view, manifest, inbox, echo, owning, joins, accepting, past>>

Roles == {"member", "helper", "moderator", "owner"}

(* A member's entry exists when its role is not "none".                    *)
Views == [role : [Nodes -> Roles \cup {"none"}], banned : SUBSET Nodes,
          tombs : SUBSET Messages]

NoRoom == [role |-> [m \in Nodes |-> "none"], banned |-> {}, tombs |-> {}]

Known(v) == {m \in Nodes : v.role[m] # "none"}
InRoom(n) == view[n].role[Owner] # "none"

Grant(i, m, r) == [kind |-> "role_grant", from |-> i, subject |-> m, role |-> r]
Ban(i, m) == [kind |-> "ban", from |-> i, subject |-> m]
Unban(i, m) == [kind |-> "unban", from |-> i, subject |-> m]
Delete(i, id) == [kind |-> "delete", from |-> i, message |-> id]
Leave(m) == [kind |-> "leave", from |-> m]
JoinRequest(m) == [kind |-> "join_request", from |-> m]
JoinAccepted(v) == [kind |-> "join_accepted", from |-> Owner, body |-> v]

Events ==
  [kind : {"role_grant"}, from : Nodes, subject : Nodes, role : Roles]
    \cup [kind : {"ban", "unban"}, from : Nodes, subject : Nodes]
    \cup [kind : {"delete"}, from : Nodes, message : Messages]
    \cup [kind : {"leave", "join_request"}, from : Nodes]
    \cup [kind : {"join_accepted"}, from : {Owner}, body : Views]

Idle == [step |-> "idle", to |-> Nobody, body |-> NoRoom]

TypeOK ==
  /\ view \in [Nodes -> Views]
  /\ \A n \in Nodes : view[n].banned \subseteq Known(view[n])
  /\ manifest \in Views
  /\ inbox \in [Nodes -> SUBSET Events]
  /\ echo \in [Nodes -> SUBSET Events]
  /\ owning \in BOOLEAN
  /\ joins \subseteq Nodes
  /\ accepting \in [step : {"idle", "published", "accepted"}, to : Nodes \cup {Nobody}, body : Views]
  /\ issued \subseteq Events
  /\ sent \in 0..MaxSent
  /\ dropped \subseteq Nodes
  /\ unlisted \subseteq Nodes

Founded ==
  [NoRoom EXCEPT !.role = [m \in Nodes |-> IF m = Owner THEN "owner"
                                           ELSE IF m \in Newcomers THEN "none"
                                           ELSE IF m \in Moderators THEN "moderator"
                                           ELSE "member"]]

Init ==
  /\ view = [n \in Nodes |-> IF n \in Newcomers THEN NoRoom ELSE Founded]
  /\ manifest = Founded
  /\ inbox = [n \in Nodes |-> {}]
  /\ echo = [n \in Nodes |-> {}]
  /\ owning = TRUE
  /\ joins = {}
  /\ accepting = Idle
  /\ issued = {Grant(Owner, m, "moderator") : m \in Moderators}
  /\ sent = 0
  /\ dropped = {}
  /\ unlisted = {}

-----------------------------------------------------------------------------
(* A slip: a helper may do what a moderator may.                           *)
CanModerateLoose(v, issuer, action) ==
  \/ issuer = Owner
  \/ issuer \notin v.banned /\ v.role[issuer] \in {"moderator", "helper"}

CanModerate(v, issuer, action) ==
  \/ issuer = Owner
  \/ /\ issuer \notin v.banned
     /\ \/ v.role[issuer] = "moderator"
        \/ v.role[issuer] = "helper" /\ action = "delete"

(* apply_manifest: what the manifest lists replaces what the view has.     *)
ApplyManifest(v, m) ==
  [role |-> [x \in Nodes |-> IF x \in Known(m) THEN m.role[x] ELSE v.role[x]],
   banned |-> (v.banned \ Known(m)) \cup m.banned,
   tombs |-> m.tombs]

(* operator[] of the member map.                                           *)
Upsert(v, m) == IF m \in Known(v) THEN v ELSE [v EXCEPT !.role[m] = "member"]

(* A slip: a member who leaves stays banned.                               *)
EraseRole(v, m) == [v EXCEPT !.role[m] = "none"]

Erase(v, m) == [v EXCEPT !.role[m] = "none", !.banned = @ \ {m}]

AppliedGrant(v, e) ==
  IF /\ e.role = "moderator" => e.from = Owner
     /\ e.role = "helper" => v.role[e.from] = "moderator"
     /\ e.role = "member" => CanModerate(v, e.from, "roles")
  THEN [v EXCEPT !.role[e.subject] = e.role]
  ELSE v

AppliedModeration(v, e) ==
  IF ~CanModerate(v, e.from, e.kind) THEN v
  ELSE IF e.kind = "delete" THEN [v EXCEPT !.tombs = @ \cup {e.message}]
  ELSE IF e.subject = Owner THEN v
  ELSE [Upsert(v, e.subject) EXCEPT
          !.banned = IF e.kind = "ban" THEN @ \cup {e.subject} ELSE @ \ {e.subject}]

(* apply_decoded_message: the sender gets an entry before anything else is *)
(* looked at, and keeps it when the event is rejected.                     *)
Applied(v, e) ==
  LET u == Upsert(v, e.from)
  IN CASE e.kind = "role_grant" -> AppliedGrant(u, e)
       [] e.kind \in {"ban", "unban", "delete"} -> AppliedModeration(u, e)
       [] e.kind = "join_accepted" -> ApplyManifest(u, e.body)
       [] e.kind = "leave" -> IF e.from = Owner THEN u ELSE Erase(u, e.from)
       [] e.kind = "join_request" ->
            IF u.role[e.from] = "owner" THEN [u EXCEPT !.role[e.from] = "member"] ELSE u

See(n, v) == view' = [view EXCEPT ![n] = v]

-----------------------------------------------------------------------------
(* The operation thread may start on something else: it is not between    *)
(* sending an event and applying it, nor accepting a join at the owner.    *)
Free(n) == InRoom(n) /\ echo[n] = {} /\ (n = Owner => accepting = Idle)

Recipients(n) == ((Known(view[n]) \ view[n].banned) \cup {Owner}) \ {n}

Sending(e, recipients) ==
  /\ sent < MaxSent
  /\ sent' = sent + 1
  /\ issued' = issued \cup {e}
  /\ inbox' = [m \in Nodes |-> IF m \in recipients THEN inbox[m] \cup {e} ELSE inbox[m]]

(* send_control sends its event without the mutex ...                      *)
SendControl(n, e, recipients) ==
  /\ Free(n)
  /\ Sending(e, recipients)
  /\ echo' = [echo EXCEPT ![n] = {e}]
  /\ UNCHANGED <<view, manifest, owning, joins, accepting, dropped, unlisted>>

(* The join that applying a join request queues at the owner.              *)
Queued(n, e) ==
  IF n = Owner /\ InRoom(n) /\ e.kind = "join_request" THEN {e.from} ELSE {}

(* ... and then applies it to whatever the room is by then,                *)
ApplyOwn(n) ==
  \E e \in echo[n] :
    /\ See(n, Applied(view[n], e))
    /\ joins' = joins \cup Queued(n, e)
    /\ echo' = [echo EXCEPT ![n] = {}]
    /\ UNCHANGED <<manifest, inbox, owning, accepting, past>>

(* unless the sending threw.                                               *)
SendThrows(n) ==
  /\ echo[n] # {}
  /\ echo' = [echo EXCEPT ![n] = {}]
  /\ UNCHANGED <<view, manifest, inbox, owning, joins, accepting, past>>

Helpers(v) == {m \in Nodes : v.role[m] = "helper"}

(* A slip: the creator's own role is offered for change.                   *)
MayGrantToAnyone(n, m, r) ==
  LET mine == view[n].role[n]
  IN /\ r = "moderator" => mine = "owner"
     /\ r = "helper" => mine = "moderator" /\ Cardinality(Helpers(view[n])) < HelperLimit
     /\ mine \in {"owner", "moderator"}

(* The sender's checks in change_member_role.                              *)
MayGrant(n, m, r) ==
  LET mine == view[n].role[n]
  IN /\ r = "moderator" => mine = "owner"
     /\ r = "helper" => mine = "moderator" /\ Cardinality(Helpers(view[n])) < HelperLimit
     /\ m # Owner
     /\ mine \in {"owner", "moderator"}

ChangeMemberRole(n, m, r) ==
  /\ MayGrant(n, m, r)
  /\ SendControl(n, Grant(n, m, r), Recipients(n))

ToggleMemberBan(n, m) ==
  /\ CanModerate(view[n], n, "ban")
  /\ m # Owner
  /\ view[n].role[m] = "moderator" => n = Owner
  /\ SendControl(n, IF m \in view[n].banned THEN Unban(n, m) ELSE Ban(n, m), Recipients(n))

DeleteMessage(n, id) ==
  /\ CanModerate(view[n], n, "delete")
  /\ SendControl(n, Delete(n, id), Recipients(n))

(* remove_selected_room: the room goes, whether or not anyone is told.     *)
RemoveRoom(n) ==
  /\ n # Owner
  /\ Free(n)
  /\ Sending(Leave(n), Recipients(n))
  /\ See(n, NoRoom)
  /\ UNCHANGED <<manifest, echo, owning, joins, accepting, dropped, unlisted>>

(* The owner announces nothing, and keeps no link to the store it leaves.  *)
RemoveOwnRoom ==
  /\ Free(Owner)
  /\ See(Owner, NoRoom)
  /\ owning' = FALSE
  /\ UNCHANGED <<manifest, inbox, echo, joins, accepting, past>>

(* join_room_impl makes a room of the owner and oneself, who is a member   *)
(* even if it is the owner; its sync and its join request follow, and      *)
(* requests are repeated by retry and reconnect.                           *)
JoinRoom(n) ==
  /\ ~InRoom(n)
  /\ See(n, [NoRoom EXCEPT !.role = [m \in Nodes |-> IF m = n THEN "member"
                                                     ELSE IF m = Owner THEN "owner" ELSE "none"]])
  /\ UNCHANGED <<manifest, inbox, echo, owning, joins, accepting, past>>

RequestJoin(n) ==
  /\ n = Owner => ~owning
  /\ SendControl(n, JoinRequest(n), {Owner})

(* The subscription thread receives an event; that of a room the engine    *)
(* does not have is ignored.  At the owner, a join request is queued.      *)
Deliver(n, e) ==
  /\ e \in inbox[n]
  /\ inbox' = [inbox EXCEPT ![n] = @ \ {e}]
  /\ IF InRoom(n) THEN See(n, Applied(view[n], e)) ELSE UNCHANGED view
  /\ joins' = joins \cup Queued(n, e)
  /\ UNCHANGED <<manifest, echo, owning, accepting, past>>

(* It is received while the operation thread is about to replace the room  *)
(* by a copy made before, in sync_from_record or toggle_replica: nothing   *)
(* stays of it but the queued join.                                        *)
Overwritten(n, e) ==
  /\ Free(n)
  /\ e \in inbox[n]
  /\ inbox' = [inbox EXCEPT ![n] = @ \ {e}]
  /\ joins' = joins \cup Queued(n, e)
  /\ dropped' = dropped \cup Queued(n, e)
  /\ UNCHANGED <<view, manifest, echo, owning, accepting, issued, sent, unlisted>>

-----------------------------------------------------------------------------
(* The owner persists the room after a chat.                               *)
Publish ==
  /\ Free(Owner)
  /\ owning
  /\ manifest' = view[Owner]
  /\ UNCHANGED <<view, inbox, echo, owning, joins, accepting, past>>

(* The operation thread takes a queued join.                               *)
TakeJoin(m) ==
  /\ echo[Owner] = {}
  /\ accepting = Idle
  /\ m \in joins
  /\ joins' = joins \ {m}

(* A slip: the member is told before the manifest is written.              *)
AcceptUnpublished(m) ==
  /\ TakeJoin(m)
  /\ InRoom(Owner)
  /\ accepting' = [Idle EXCEPT !.step = "published", !.to = m]
  /\ UNCHANGED <<view, manifest, inbox, echo, owning, past>>

(* The queued join operation persists the room first; persist_room returns *)
(* without writing anything if the owner has no store.                     *)
PublishJoin(m) ==
  /\ TakeJoin(m)
  /\ InRoom(Owner)
  /\ manifest' = IF owning THEN view[Owner] ELSE manifest
  /\ unlisted' = IF owning THEN unlisted ELSE unlisted \cup {m}
  /\ accepting' = [Idle EXCEPT !.step = "published", !.to = m]
  /\ UNCHANGED <<view, inbox, echo, owning, issued, sent, dropped>>

(* The room is gone, or the persist throws, a full store's always: the     *)
(* operation ends with it.                                                 *)
PublishJoinFails(m) ==
  /\ TakeJoin(m)
  /\ UNCHANGED <<view, manifest, inbox, echo, owning, accepting, past>>

(* It copies the room again for the body of join_accepted ...              *)
CopyJoin ==
  /\ accepting.step = "published"
  /\ accepting' = [accepting EXCEPT !.step = "accepted", !.body = view[Owner]]
  /\ UNCHANGED <<view, manifest, inbox, echo, owning, joins, past>>

(* ... and after sending it applies the copy to its own room.              *)
AcceptJoin ==
  LET e == JoinAccepted(accepting.body)
  IN /\ accepting.step = "accepted"
     /\ inbox' = [inbox EXCEPT ![accepting.to] = @ \cup {e}]
     /\ echo' = [echo EXCEPT ![Owner] = {e}]
     /\ accepting' = Idle
     /\ UNCHANGED <<view, manifest, owning, joins, past>>

(* sync_room_impl: anyone, the owner too, applies the owner's manifest.    *)
Sync(n) ==
  /\ Free(n)
  /\ See(n, ApplyManifest(view[n], manifest))
  /\ UNCHANGED <<manifest, inbox, echo, owning, joins, accepting, past>>

Next ==
  \/ \E n, m \in Nodes :
       \/ \E r \in Roles \ {"owner"} : ChangeMemberRole(n, m, r)
       \/ ToggleMemberBan(n, m)
  \/ \E n \in Nodes :
       \/ \E id \in Messages : DeleteMessage(n, id)
       \/ RemoveRoom(n)
       \/ JoinRoom(n)
       \/ RequestJoin(n)
       \/ ApplyOwn(n)
       \/ SendThrows(n)
       \/ \E e \in inbox[n] : Deliver(n, e) \/ Overwritten(n, e)
       \/ Sync(n)
       \/ PublishJoin(n)
       \/ PublishJoinFails(n)
  \/ RemoveOwnRoom
  \/ Publish
  \/ CopyJoin
  \/ AcceptJoin

Spec == Init /\ [][Next]_vars

-----------------------------------------------------------------------------
(* No event, manifest or order of the two makes anybody but the creator    *)
(* the owner, nor takes that from it in what it has published.  Until the  *)
(* creator removes its room and joins it again, as a member (join_room_impl *)
(* and the join request both say so), every table has it as the owner.     *)
OwnerIntact ==
  /\ manifest.role[Owner] = "owner"
  /\ \A n \in Nodes : InRoom(n) =>
       /\ \A m \in Nodes \ {Owner} : view[n].role[m] # "owner"
       /\ owning => view[n].role[Owner] = "owner"

Appointed(m) == m = Owner \/ Grant(Owner, m, "moderator") \in issued

(* Whatever way it came to this node, an office, a ban or a tombstone goes *)
(* back to the owner: moderators to its grants, helpers to a moderator's,  *)
(* bans to either, tombstones to any of the three.                         *)
AuthorityTraced ==
  \A n, m \in Nodes :
    LET Helped(x) == \E i \in Nodes : Appointed(i) /\ Grant(i, x, "helper") \in issued
    IN /\ view[n].role[m] = "moderator" => Appointed(m)
       /\ view[n].role[m] = "helper" => Helped(m)
       /\ m \in view[n].banned => \E i \in Nodes : Appointed(i) /\ Ban(i, m) \in issued
       /\ \A id \in view[n].tombs :
            \E i \in Nodes : (Appointed(i) \/ Helped(i)) /\ Delete(i, id) \in issued

(* join_accepted follows the manifest that lists the new member, and no    *)
(* later publication drops it, whatever is delivered, banned, granted or   *)
(* synced meanwhile: unless the member leaves, its entry was Overwritten,  *)
(* or the owner accepted it without the store it would be published in.    *)
AcceptedIsPublished ==
  \A m \in Nodes : \A e \in inbox[m] :
    e.kind = "join_accepted"
      => m \in Known(manifest) \cup dropped \cup unlisted \/ Leave(m) \in issued

(* docs/RELEASE_NOTES_0.4.0.md: the owner commits the member-bearing       *)
(* manifest before sending join_accepted, if the member does not leave.    *)
AcceptedIsCommitted ==
  \A m \in Nodes : \A e \in inbox[m] :
    e.kind = "join_accepted" => m \in Known(manifest) \/ Leave(m) \in issued

(* docs/USER_GUIDE.md: cooperative clients hide tombstoned content.        *)
TombstonesHold ==
  [][\A n \in Nodes : InRoom(n) /\ InRoom(n)' => view[n].tombs \subseteq view'[n].tombs]_vars

=============================================================================
