------------------------- MODULE RoomAuthorityProofs -------------------------
(***************************************************************************)
(* Proofs about RoomAuthority for any participants, messages, helper limit *)
(* and number of events: nobody but the creator becomes the owner, every   *)
(* office, ban and tombstone was issued by someone entitled to it, and     *)
(* whoever is accepted is published.                                       *)
(***************************************************************************)
EXTENDS RoomAuthority, TLAPS

(* The history S of issued events entitles m to moderate, to help.         *)
AppointedBy(m, S) == m = Owner \/ Grant(Owner, m, "moderator") \in S
HelpedBy(m, S) == \E i \in Nodes : AppointedBy(i, S) /\ Grant(i, m, "helper") \in S
BannedBy(m, S) == \E i \in Nodes : AppointedBy(i, S) /\ Ban(i, m) \in S
DeletedBy(id, S) ==
  \E i \in Nodes : (AppointedBy(i, S) \/ HelpedBy(i, S)) /\ Delete(i, id) \in S

WellTyped(v) == v \in Views /\ v.banned \subseteq Known(v)

(* As long as the owner keeps its room (own) its entry says owner.         *)
OwnerOf(v, own) ==
  /\ \A m \in Nodes \ {Owner} : v.role[m] # "owner"
  /\ v.role[Owner] \in {"owner", "member"}
  /\ own => v.role[Owner] = "owner"

TracedBy(v, S) ==
  /\ \A m \in Nodes : /\ v.role[m] = "moderator" => AppointedBy(m, S)
                      /\ v.role[m] = "helper" => HelpedBy(m, S)
  /\ \A m \in v.banned : BannedBy(m, S)
  /\ \A id \in v.tombs : DeletedBy(id, S)

(* What every table of a room is, wherever it is kept.                     *)
Rightful(v, S, own) == WellTyped(v) /\ OwnerOf(v, own) /\ TracedBy(v, S)

(* And every event on its way.                                             *)
RightfulEvent(e, S, own) ==
  /\ e \in Events
  /\ IF e.kind = "join_accepted" THEN Rightful(e.body, S, own) ELSE e \in S
  /\ e.kind = "role_grant" => e.subject # Owner /\ e.role # "owner"
  /\ e.kind = "join_request" /\ own => e.from # Owner

AuthorityInv ==
  /\ TypeOK
  /\ \A n \in Nodes : view[n] = NoRoom \/ Rightful(view[n], issued, owning)
  /\ owning \/ accepting.step # "idle" => view[Owner] # NoRoom
  /\ \A n \in Nodes : echo[n] # {} => view[n] # NoRoom
  /\ Rightful(manifest, issued, TRUE)
  /\ accepting.step = "accepted" => Rightful(accepting.body, issued, owning)
  /\ accepting.step # "idle" => accepting.to \in Nodes
  /\ \A n \in Nodes : \A e \in inbox[n] \cup echo[n] : RightfulEvent(e, issued, owning)

-----------------------------------------------------------------------------
(* The fields of an event, by its kind.                                    *)
LEMMA EventFields ==
  ASSUME NEW e \in Events
  PROVE  /\ e.from \in Nodes
         /\ e.kind \in {"role_grant", "ban", "unban", "delete", "leave", "join_request",
                        "join_accepted"}
         /\ e.kind = "role_grant" => /\ e.subject \in Nodes /\ e.role \in Roles
                                     /\ e = Grant(e.from, e.subject, e.role)
         /\ e.kind \in {"ban", "unban"} => e.subject \in Nodes
         /\ e.kind = "ban" => e = Ban(e.from, e.subject)
         /\ e.kind = "delete" => e.message \in Messages /\ e = Delete(e.from, e.message)
         /\ e.kind = "leave" => e = Leave(e.from)
         /\ e.kind = "join_request" => e = JoinRequest(e.from)
         /\ e.kind = "join_accepted" => e.from = Owner /\ e.body \in Views
<1> USE AuthorityAssumption DEF Grant, Ban, Delete, Leave, JoinRequest
<1>1. CASE e \in [kind : {"role_grant"}, from : Nodes, subject : Nodes, role : Roles]
  BY <1>1
<1>2. CASE e \in [kind : {"ban", "unban"}, from : Nodes, subject : Nodes]
  BY <1>2
<1>3. CASE e \in [kind : {"delete"}, from : Nodes, message : Messages]
  BY <1>3
<1>4. CASE e \in [kind : {"leave", "join_request"}, from : Nodes]
  BY <1>4
<1>5. CASE e \in [kind : {"join_accepted"}, from : {Owner}, body : Views]
  BY <1>5
<1> QED
  BY <1>1, <1>2, <1>3, <1>4, <1>5 DEF Events

(* The events the engines make are events.                                 *)
LEMMA MadeEvents ==
  ASSUME NEW n \in Nodes, NEW m \in Nodes
  PROVE  /\ \A r \in Roles : Grant(n, m, r) \in Events
         /\ Ban(n, m) \in Events /\ Unban(n, m) \in Events
         /\ \A id \in Messages : Delete(n, id) \in Events
         /\ Leave(n) \in Events /\ JoinRequest(n) \in Events
         /\ \A v \in Views : JoinAccepted(v) \in Events
BY AuthorityAssumption DEF Grant, Ban, Unban, Delete, Leave, JoinRequest, JoinAccepted, Events

(* What was rightful stays rightful when more events are issued, and when  *)
(* the owner removes its room.                                             *)
LEMMA IssuedGrows ==
  ASSUME NEW S, NEW T, S \subseteq T, NEW own, NEW own2, own2 => own
  PROVE  /\ \A v : Rightful(v, S, own) => Rightful(v, T, own2)
         /\ \A e : RightfulEvent(e, S, own) => RightfulEvent(e, T, own2)
<1>1. \A m : /\ AppointedBy(m, S) => AppointedBy(m, T)
             /\ HelpedBy(m, S) => HelpedBy(m, T)
  BY DEF AppointedBy, HelpedBy
<1>2. \A m : /\ BannedBy(m, S) => BannedBy(m, T)
             /\ DeletedBy(m, S) => DeletedBy(m, T)
  BY <1>1 DEF BannedBy, DeletedBy
<1>3. \A v : Rightful(v, S, own) => Rightful(v, T, own2)
  BY <1>1, <1>2 DEF Rightful, OwnerOf, TracedBy
<1> QED
  BY <1>3 DEF RightfulEvent

(* The entry made for a sender nobody knew changes nobody's standing.      *)
LEMMA UpsertRightful ==
  ASSUME NEW v, NEW S, NEW own, NEW m \in Nodes, Rightful(v, S, own)
  PROVE  /\ Rightful(Upsert(v, m), S, own)
         /\ Known(v) \subseteq Known(Upsert(v, m)) /\ m \in Known(Upsert(v, m))
         /\ Upsert(v, m).banned = v.banned
         /\ Upsert(v, m).tombs = v.tombs
<1>1. CASE m \in Known(v)
  BY <1>1 DEF Upsert
<1>2. CASE m \notin Known(v)
  <2> DEFINE u == [v EXCEPT !.role[m] = "member"]
  <2>1. v \in Views /\ v.role[m] = "none"
    BY <1>2 DEF Rightful, WellTyped, Known
  <2>2. /\ u \in Views /\ u.banned = v.banned /\ u.tombs = v.tombs
        /\ \A x \in Nodes : u.role[x] = IF x = m THEN "member" ELSE v.role[x]
    BY <2>1 DEF Views, Roles
  <2>3. Upsert(v, m) = u
    BY <1>2 DEF Upsert
  <2> HIDE DEF u
  <2>4. Known(v) \subseteq Known(u) /\ m \in Known(u)
    BY <2>2 DEF Known
  <2>5. OwnerOf(u, own)
    BY <2>1, <2>2, AuthorityAssumption DEF Rightful, OwnerOf
  <2>6. TracedBy(u, S)
    BY <2>2 DEF Rightful, TracedBy
  <2> QED
    BY <2>2, <2>3, <2>4, <2>5, <2>6 DEF Rightful, WellTyped
<1> QED
  BY <1>1, <1>2

(* apply_manifest of one rightful table to another.                        *)
LEMMA ManifestRightful ==
  ASSUME NEW v, NEW m, NEW S, NEW own, Rightful(v, S, own), Rightful(m, S, own)
  PROVE  Rightful(ApplyManifest(v, m), S, own)
<1> DEFINE w == ApplyManifest(v, m)
<1>1. v \in Views /\ m \in Views
  BY DEF Rightful, WellTyped
<1>2. /\ w \in Views
      /\ \A x \in Nodes : w.role[x] = IF x \in Known(m) THEN m.role[x] ELSE v.role[x]
      /\ w.banned = (v.banned \ Known(m)) \cup m.banned
      /\ w.tombs = m.tombs
  BY <1>1 DEF ApplyManifest, Views
<1> HIDE DEF w
<1>3. w.banned \subseteq Known(w)
  BY <1>1, <1>2 DEF Rightful, WellTyped, Known
<1>4. OwnerOf(w, own)
  BY <1>2, AuthorityAssumption DEF Rightful, OwnerOf, Known
<1>5. TracedBy(w, S)
  BY <1>2 DEF Rightful, TracedBy
<1> QED
  BY <1>2, <1>3, <1>4, <1>5 DEF w, Rightful, WellTyped

(* A grant checked by its receiver.                                        *)
LEMMA GrantRightful ==
  ASSUME NEW v, NEW S, NEW own, NEW e, Rightful(v, S, own), RightfulEvent(e, S, own), e.kind = "role_grant"
  PROVE  Rightful(AppliedGrant(v, e), S, own)
<1>1. CASE AppliedGrant(v, e) = v
  BY <1>1
<1>2. CASE AppliedGrant(v, e) # v
  <2> DEFINE w == [v EXCEPT !.role[e.subject] = e.role]
  <2>1. /\ e.from \in Nodes /\ e.subject \in Nodes \ {Owner} /\ e.role \in Roles \ {"owner"}
        /\ Grant(e.from, e.subject, e.role) \in S
    BY EventFields DEF RightfulEvent
  <2>2. /\ AppliedGrant(v, e) = w
        /\ e.role = "moderator" => e.from = Owner
        /\ e.role = "helper" => v.role[e.from] = "moderator"
    BY <1>2 DEF AppliedGrant
  <2>3. /\ w \in Views /\ w.banned = v.banned /\ w.tombs = v.tombs
        /\ \A x \in Nodes : w.role[x] = IF x = e.subject THEN e.role ELSE v.role[x]
    BY <2>1 DEF Rightful, WellTyped, Views
  <2> HIDE DEF w
  <2>4. e.role = "moderator" => AppointedBy(e.subject, S)
    BY <2>1, <2>2 DEF AppointedBy
  <2>5. e.role = "helper" => HelpedBy(e.subject, S)
    BY <2>1, <2>2 DEF Rightful, TracedBy, HelpedBy
  <2>6. w.banned \subseteq Known(w)
    BY <2>1, <2>3 DEF Rightful, WellTyped, Known, Roles
  <2>7. OwnerOf(w, own)
    BY <2>1, <2>3, AuthorityAssumption DEF Rightful, OwnerOf
  <2>8. TracedBy(w, S)
    BY <2>3, <2>4, <2>5 DEF Rightful, TracedBy
  <2> QED
    BY <2>2, <2>3, <2>6, <2>7, <2>8 DEF Rightful, WellTyped
<1> QED
  BY <1>1, <1>2

(* A ban, an unban or a deletion checked by its receiver.                  *)
LEMMA ModerationRightful ==
  ASSUME NEW v, NEW S, NEW own, NEW e, Rightful(v, S, own), RightfulEvent(e, S, own),
         e.kind \in {"ban", "unban", "delete"}
  PROVE  Rightful(AppliedModeration(v, e), S, own)
<1>0. e \in S /\ e.from \in Nodes
  BY EventFields DEF RightfulEvent
<1>1. CASE AppliedModeration(v, e) = v
  BY <1>1
<1>2. CASE AppliedModeration(v, e) # v /\ e.kind = "delete"
  <2>1. AppliedModeration(v, e) = [v EXCEPT !.tombs = @ \cup {e.message}]
    BY <1>2 DEF AppliedModeration
  <2>2. DeletedBy(e.message, S)
    <3>1. AppointedBy(e.from, S) \/ HelpedBy(e.from, S)
      BY <1>0, <1>2 DEF AppliedModeration, CanModerate, Rightful, TracedBy, AppointedBy
    <3>2. Delete(e.from, e.message) \in S /\ e.message \in Messages
      BY <1>0, <1>2, EventFields DEF RightfulEvent
    <3> QED
      BY <1>0, <3>1, <3>2 DEF DeletedBy
  <2>3. e.message \in Messages
    BY <1>2, EventFields DEF RightfulEvent
  <2> DEFINE w == [v EXCEPT !.tombs = @ \cup {e.message}]
  <2>4. w \in Views /\ w.role = v.role /\ w.banned = v.banned /\ w.tombs = v.tombs \cup {e.message}
    BY <2>3 DEF Rightful, WellTyped, Views
  <2> HIDE DEF w
  <2>5. Rightful(w, S, own)
    BY <2>2, <2>4 DEF Rightful, WellTyped, OwnerOf, TracedBy, Known
  <2> QED
    BY <2>1, <2>5 DEF w
<1>3. CASE AppliedModeration(v, e) # v /\ e.kind # "delete"
  <2> DEFINE u == Upsert(v, e.subject)
             b == IF e.kind = "ban" THEN u.banned \cup {e.subject} ELSE u.banned \ {e.subject}
             w == [u EXCEPT !.banned = b]
  <2>1. AppliedModeration(v, e) = w
    BY <1>3 DEF AppliedModeration
  <2>2. e.subject \in Nodes
    BY <1>3, EventFields DEF RightfulEvent
  <2>3. Rightful(u, S, own) /\ e.subject \in Known(u)
    BY <2>2, UpsertRightful
  <2>4. e.kind = "ban" => BannedBy(e.subject, S)
    <3>1. e.kind = "ban" => AppointedBy(e.from, S)
      BY <1>0, <1>3 DEF AppliedModeration, CanModerate, Rightful, TracedBy, AppointedBy
    <3>2. e.kind = "ban" => Ban(e.from, e.subject) \in S
      BY <1>0, EventFields DEF RightfulEvent
    <3> QED
      BY <1>0, <3>1, <3>2 DEF BannedBy
  <2> HIDE DEF u
  <2>5. b \subseteq u.banned \cup {e.subject} /\ (e.kind # "ban" => b \subseteq u.banned)
    OBVIOUS
  <2>6. Known(u) \subseteq Nodes
    BY DEF Known
  <2> HIDE DEF b
  <2>7. w \in Views /\ w.role = u.role /\ w.tombs = u.tombs /\ w.banned = b
    BY <2>2, <2>3, <2>5 DEF Rightful, WellTyped, Views
  <2> HIDE DEF w
  <2>8. Rightful(w, S, own)
    BY <2>3, <2>4, <2>5, <2>7 DEF Rightful, WellTyped, OwnerOf, TracedBy, Known
  <2> QED
    BY <2>1, <2>8
<1> QED
  BY <1>1, <1>2, <1>3

(* A member who leaves.                                                    *)
LEMMA EraseRightful ==
  ASSUME NEW v, NEW S, NEW own, NEW m \in Nodes \ {Owner}, Rightful(v, S, own)
  PROVE  Rightful(Erase(v, m), S, own)
<1> DEFINE w == Erase(v, m)
<1>1. /\ w \in Views /\ w.banned = v.banned \ {m} /\ w.tombs = v.tombs
      /\ \A x \in Nodes : w.role[x] = IF x = m THEN "none" ELSE v.role[x]
  BY DEF Erase, Rightful, WellTyped, Views
<1> HIDE DEF w
<1>2. w.banned \subseteq Known(w) /\ OwnerOf(w, own)
  BY <1>1, AuthorityAssumption DEF Rightful, WellTyped, Known, OwnerOf
<1>3. TracedBy(w, S)
  BY <1>1 DEF Rightful, TracedBy
<1> QED
  BY <1>1, <1>2, <1>3 DEF w, Rightful, WellTyped

(* apply_decoded_message keeps a table rightful.                           *)
LEMMA AppliedRightful ==
  ASSUME NEW v, NEW S, NEW own, NEW e, Rightful(v, S, own), RightfulEvent(e, S, own)
  PROVE  Rightful(Applied(v, e), S, own)
<1> DEFINE u == Upsert(v, e.from)
<1>1. e \in Events /\ e.from \in Nodes
  BY EventFields DEF RightfulEvent
<1>2. Rightful(u, S, own)
  BY <1>1, UpsertRightful
<1>3. CASE e.kind = "role_grant"
  <2>1. Applied(v, e) = AppliedGrant(u, e)
    BY <1>3 DEF Applied
  <2> HIDE DEF u
  <2> QED
    BY <1>2, <1>3, <2>1, GrantRightful
<1>4. CASE e.kind \in {"ban", "unban", "delete"}
  <2>1. Applied(v, e) = AppliedModeration(u, e)
    BY <1>4 DEF Applied
  <2> HIDE DEF u
  <2> QED
    BY <1>2, <1>4, <2>1, ModerationRightful
<1>5. CASE e.kind = "join_accepted"
  <2>1. Applied(v, e) = ApplyManifest(u, e.body)
    BY <1>5 DEF Applied
  <2> HIDE DEF u
  <2> QED
    BY <1>2, <1>5, <2>1, ManifestRightful DEF RightfulEvent
<1>6. CASE e.kind = "leave"
  <2>1. Applied(v, e) = IF e.from = Owner THEN u ELSE Erase(u, e.from)
    BY <1>6 DEF Applied
  <2> HIDE DEF u
  <2> QED
    BY <1>1, <1>2, <2>1, EraseRightful
<1>7. CASE e.kind = "join_request"
  <2> DEFINE w == [u EXCEPT !.role[e.from] = "member"]
  <2>1. Applied(v, e) = IF u.role[e.from] = "owner" THEN w ELSE u
    BY <1>7 DEF Applied
  <2>2. own => e.from # Owner
    BY <1>7 DEF RightfulEvent
  <2> HIDE DEF u
  <2>3. /\ w \in Views /\ w.banned = u.banned /\ w.tombs = u.tombs
        /\ \A x \in Nodes : w.role[x] = IF x = e.from THEN "member" ELSE u.role[x]
    BY <1>1, <1>2 DEF Rightful, WellTyped, Views, Roles
  <2> HIDE DEF w
  <2>4. w.banned \subseteq Known(w)
    BY <1>2, <2>3 DEF Rightful, WellTyped, Known
  <2>5. OwnerOf(w, own)
    BY <1>2, <2>2, <2>3, AuthorityAssumption DEF Rightful, OwnerOf
  <2>6. TracedBy(w, S)
    BY <1>2, <2>3 DEF Rightful, TracedBy
  <2> QED
    BY <1>2, <2>1, <2>3, <2>4, <2>5, <2>6 DEF Rightful, WellTyped
<1> QED
  BY <1>1, <1>3, <1>4, <1>5, <1>6, <1>7, EventFields

-----------------------------------------------------------------------------
LEMMA NoRoomTable ==
  /\ WellTyped(NoRoom)
  /\ \A m \in Nodes : NoRoom.role[m] = "none"
  /\ NoRoom.banned = {} /\ NoRoom.tombs = {}
BY DEF WellTyped, NoRoom, Views

(* A table of a room with just its owner and plain members.                *)
LEMMA PlainRightful ==
  ASSUME NEW v, NEW S, NEW own, v \in Views, v.banned = {}, v.tombs = {}, OwnerOf(v, own),
         \A m \in Nodes : v.role[m] \in {"owner", "member", "none"}
  PROVE  Rightful(v, S, own)
BY DEF Rightful, WellTyped, TracedBy

(* To have the room is to have a rightful table of it.                     *)
LEMMA InRoomRightful ==
  ASSUME AuthorityInv, NEW n \in Nodes
  PROVE  /\ InRoom(n) <=> view[n] # NoRoom
         /\ InRoom(n) => Rightful(view[n], issued, owning)
<1>1. view[n] = NoRoom => ~InRoom(n)
  BY NoRoomTable, AuthorityAssumption DEF InRoom
<1>2. Rightful(view[n], issued, owning) => InRoom(n)
  BY DEF InRoom, Rightful, OwnerOf
<1> QED
  BY <1>1, <1>2 DEF AuthorityInv

(* No rightful table is that of no room.                                   *)
LEMMA RightfulIsRoom ==
  ASSUME NEW v, NEW S, NEW own, Rightful(v, S, own)
  PROVE  v # NoRoom
BY NoRoomTable, AuthorityAssumption DEF Rightful, OwnerOf

(* What no step looks at stays as it was, with more events issued.         *)
LEMMA KeptRightful ==
  ASSUME AuthorityInv, issued \subseteq issued', owning' => owning
  PROVE  /\ \A n \in Nodes : view[n] = NoRoom \/ Rightful(view[n], issued', owning')
         /\ Rightful(manifest, issued', TRUE)
         /\ accepting.step = "accepted" => Rightful(accepting.body, issued', owning')
         /\ \A n \in Nodes : \A e \in inbox[n] \cup echo[n] : RightfulEvent(e, issued', owning')
BY IssuedGrows DEF AuthorityInv

(* A new table at one node, of no room or a rightful one.                  *)
LEMMA SeeRightful ==
  ASSUME AuthorityInv, NEW n \in Nodes, NEW v, See(n, v),
         issued \subseteq issued', owning' => owning,
         v = NoRoom \/ Rightful(v, issued', owning')
  PROVE  /\ view' \in [Nodes -> Views]
         /\ \A x \in Nodes : view'[x].banned \subseteq Known(view'[x])
         /\ \A x \in Nodes : view'[x] = IF x = n THEN v ELSE view[x]
         /\ \A x \in Nodes : view'[x] = NoRoom \/ Rightful(view'[x], issued', owning')
<1>1. WellTyped(v)
  BY NoRoomTable DEF Rightful
<1>2. view \in [Nodes -> Views] /\ \A x \in Nodes : view[x].banned \subseteq Known(view[x])
  BY DEF AuthorityInv, TypeOK
<1>3. \A x \in Nodes : view'[x] = IF x = n THEN v ELSE view[x]
  BY <1>2 DEF See
<1>4. view' \in [Nodes -> Views]
  BY <1>1, <1>2 DEF See, WellTyped
<1>5. \A x \in Nodes : view'[x].banned \subseteq Known(view'[x])
  BY <1>1, <1>2, <1>3 DEF WellTyped
<1>6. \A x \in Nodes : view'[x] = NoRoom \/ Rightful(view'[x], issued', owning')
  BY <1>3, KeptRightful
<1> QED
  BY <1>3, <1>4, <1>5, <1>6

(* send_control sends an event its sender may issue.                       *)
LEMMA SendControlRightful ==
  ASSUME AuthorityInv, NEW n \in Nodes, NEW e \in Events, NEW R,
         e.kind # "join_accepted",
         e.kind = "role_grant" => e.subject # Owner /\ e.role # "owner",
         e.kind = "join_request" /\ owning => e.from # Owner,
         SendControl(n, e, R)
  PROVE  AuthorityInv'
<1>1. /\ issued' = issued \cup {e} /\ issued \subseteq issued' /\ e \in issued'
      /\ UNCHANGED <<view, manifest, owning, joins, accepting, dropped, unlisted>>
  BY DEF SendControl, Sending
<1>2. RightfulEvent(e, issued', owning')
  BY <1>1 DEF RightfulEvent
<1>3. /\ \A x \in Nodes : inbox'[x] \subseteq inbox[x] \cup {e}
      /\ \A x \in Nodes : echo'[x] = IF x = n THEN {e} ELSE echo[x]
  BY DEF SendControl, Sending, AuthorityInv, TypeOK
<1>4. TypeOK'
  <2>1. inbox' \in [Nodes -> SUBSET Events]
    BY DEF SendControl, Sending, AuthorityInv, TypeOK
  <2>2. sent' \in 0..MaxSent
    BY AuthorityAssumption DEF SendControl, Sending, AuthorityInv, TypeOK
  <2>3. echo' \in [Nodes -> SUBSET Events]
    BY DEF SendControl, AuthorityInv, TypeOK
  <2> QED
    BY <1>1, <2>1, <2>2, <2>3 DEF AuthorityInv, TypeOK
<1>5. ASSUME NEW x \in Nodes, NEW d \in inbox'[x] \cup echo'[x]
      PROVE  RightfulEvent(d, issued', owning')
  <2>1. d = e \/ d \in inbox[x] \cup echo[x]
    BY <1>3
  <2>2. owning' => owning
    BY <1>1
  <2> QED
    BY <1>1, <1>2, <2>1, <2>2, KeptRightful
<1>6. \A x \in Nodes : echo'[x] # {} => view'[x] # NoRoom
  BY <1>1, <1>3, InRoomRightful DEF SendControl, Free, AuthorityInv
<1> QED
  BY <1>1, <1>4, <1>5, <1>6, KeptRightful DEF AuthorityInv

(* A new rightful table at a node while nothing is issued, and events that *)
(* were on their way.                                                      *)
LEMMA SeeingRightful ==
  ASSUME AuthorityInv, NEW n \in Nodes, NEW v, See(n, v), Rightful(v, issued, owning),
         UNCHANGED <<manifest, owning, accepting, past>>, joins' \subseteq Nodes,
         inbox' \in [Nodes -> SUBSET Events], echo' \in [Nodes -> SUBSET Events],
         \A x \in Nodes : inbox'[x] \subseteq inbox[x] /\ echo'[x] \subseteq echo[x]
  PROVE  AuthorityInv'
<1>1. /\ \A x \in Nodes : view'[x] = IF x = n THEN v ELSE view[x]
      /\ \A x \in Nodes : view'[x] = NoRoom \/ Rightful(view'[x], issued', owning')
      /\ v # NoRoom
  BY SeeRightful, RightfulIsRoom DEF past
<1>2. TypeOK'
  BY SeeRightful DEF AuthorityInv, TypeOK, past
<1>3. owning' \/ accepting'.step # "idle" => view'[Owner] # NoRoom
  BY <1>1, AuthorityAssumption DEF AuthorityInv
<1>4. \A x \in Nodes : echo'[x] # {} => view'[x] # NoRoom
  BY <1>1 DEF AuthorityInv
<1>5. \A x \in Nodes : \A d \in inbox'[x] \cup echo'[x] : RightfulEvent(d, issued', owning')
  BY DEF AuthorityInv, past
<1> QED
  BY <1>1, <1>2, <1>3, <1>4, <1>5 DEF AuthorityInv, past

(* A step of an operation thread that writes no member table.              *)
LEMMA OperationRightful ==
  ASSUME AuthorityInv, UNCHANGED <<view, inbox, echo, owning, issued, sent>>,
         joins' \subseteq Nodes, dropped' \subseteq Nodes, unlisted' \subseteq Nodes,
         manifest' = manifest \/ (owning /\ manifest' = view[Owner]),
         accepting' \in [step : {"idle", "published", "accepted"}, to : Nodes \cup {Nobody},
                         body : Views],
         accepting'.step = "accepted" => Rightful(accepting'.body, issued, owning),
         accepting'.step # "idle" => accepting'.to \in Nodes /\ view[Owner] # NoRoom
  PROVE  AuthorityInv'
<1>1. Rightful(manifest', issued, TRUE)
  <2>1. owning => Rightful(view[Owner], issued, TRUE)
    BY AuthorityAssumption DEF AuthorityInv, Rightful, OwnerOf
  <2> QED
    BY <2>1 DEF AuthorityInv
<1>2. TypeOK'
  BY <1>1 DEF AuthorityInv, TypeOK, Rightful, WellTyped
<1> QED
  BY <1>1, <1>2 DEF AuthorityInv

LEMMA InitAuthorityInv == Init => AuthorityInv
<1> SUFFICES ASSUME Init PROVE AuthorityInv
  OBVIOUS
<1>1. /\ Founded \in Views /\ Founded.banned = {} /\ Founded.tombs = {}
      /\ \A m \in Nodes : Founded.role[m] = IF m = Owner THEN "owner"
                                            ELSE IF m \in Newcomers THEN "none"
                                            ELSE IF m \in Moderators THEN "moderator"
                                            ELSE "member"
  BY DEF Founded, NoRoom, Views, Roles
<1>2. Rightful(Founded, issued, TRUE)
  <2>1. OwnerOf(Founded, TRUE)
    BY <1>1, AuthorityAssumption DEF OwnerOf
  <2>2. \A m \in Nodes : Founded.role[m] = "moderator" => AppointedBy(m, issued)
    BY <1>1 DEF Init, AppointedBy
  <2>3. TracedBy(Founded, issued)
    BY <1>1, <2>2 DEF TracedBy
  <2> QED
    BY <1>1, <2>1, <2>3 DEF Rightful, WellTyped
<1>3. Idle \in [step : {"idle", "published", "accepted"}, to : Nodes \cup {Nobody}, body : Views]
      /\ Idle.step = "idle"
  BY NoRoomTable DEF Idle, WellTyped
<1>4. \A n \in Nodes : view[n] = NoRoom \/ Rightful(view[n], issued, owning)
  BY <1>2 DEF Init
<1>5. view[Owner] = Founded
  BY AuthorityAssumption DEF Init
<1>6. TypeOK
  <2>1. view \in [Nodes -> Views] /\ \A n \in Nodes : view[n].banned \subseteq Known(view[n])
    BY <1>1, NoRoomTable DEF Init, WellTyped
  <2>2. issued \subseteq Events
    BY MadeEvents, AuthorityAssumption DEF Init, Roles
  <2> QED
    BY <1>1, <1>3, <2>1, <2>2, AuthorityAssumption DEF Init, TypeOK
<1>7. view[Owner] # NoRoom
  BY <1>2, <1>5, RightfulIsRoom
<1> QED
  BY <1>2, <1>3, <1>4, <1>6, <1>7 DEF Init, AuthorityInv

LEMMA NextAuthorityInv == AuthorityInv /\ [Next]_vars => AuthorityInv'
<1> SUFFICES ASSUME AuthorityInv, [Next]_vars PROVE AuthorityInv'
  OBVIOUS
<1>1. ASSUME NEW n \in Nodes, NEW m \in Nodes, NEW r \in Roles \ {"owner"},
             ChangeMemberRole(n, m, r)
      PROVE  AuthorityInv'
  <2>1. m # Owner
    BY <1>1 DEF ChangeMemberRole, MayGrant
  <2>2. /\ Grant(n, m, r) \in Events
        /\ Grant(n, m, r).kind = "role_grant"
        /\ Grant(n, m, r).subject = m /\ Grant(n, m, r).role = r
    BY MadeEvents DEF Grant
  <2> QED
    BY <1>1, <2>1, <2>2, SendControlRightful DEF ChangeMemberRole
<1>2. ASSUME NEW n \in Nodes, NEW m \in Nodes, ToggleMemberBan(n, m)
      PROVE  AuthorityInv'
  <2>1. /\ Ban(n, m) \in Events /\ Ban(n, m).kind = "ban"
        /\ Unban(n, m) \in Events /\ Unban(n, m).kind = "unban"
    BY MadeEvents DEF Ban, Unban
  <2> QED
    BY <1>2, <2>1, SendControlRightful DEF ToggleMemberBan
<1>3. ASSUME NEW n \in Nodes, NEW id \in Messages, DeleteMessage(n, id)
      PROVE  AuthorityInv'
  <2>1. Delete(n, id) \in Events /\ Delete(n, id).kind = "delete"
    BY MadeEvents DEF Delete
  <2> QED
    BY <1>3, <2>1, SendControlRightful DEF DeleteMessage
<1>4. ASSUME NEW n \in Nodes, RequestJoin(n)
      PROVE  AuthorityInv'
  <2>1. /\ JoinRequest(n) \in Events /\ JoinRequest(n).kind = "join_request"
        /\ JoinRequest(n).from = n
    BY MadeEvents DEF JoinRequest
  <2> QED
    BY <1>4, <2>1, SendControlRightful DEF RequestJoin
<1>5. ASSUME NEW n \in Nodes, ApplyOwn(n)
      PROVE  AuthorityInv'
  <2>1. PICK e \in echo[n] :
          /\ See(n, Applied(view[n], e))
          /\ joins' = joins \cup Queued(n, e)
          /\ echo' = [echo EXCEPT ![n] = {}]
          /\ UNCHANGED <<manifest, inbox, owning, accepting, past>>
    BY <1>5 DEF ApplyOwn
  <2>2. e \in Events /\ RightfulEvent(e, issued, owning) /\ view[n] # NoRoom
    BY DEF AuthorityInv, RightfulEvent
  <2>3. Rightful(Applied(view[n], e), issued, owning)
    BY <2>2, AppliedRightful DEF AuthorityInv
  <2>4. joins' \subseteq Nodes
    BY <2>1, <2>2, EventFields DEF Queued, AuthorityInv, TypeOK
  <2>5. /\ echo' \in [Nodes -> SUBSET Events]
        /\ \A x \in Nodes : echo'[x] \subseteq echo[x]
    BY <2>1 DEF AuthorityInv, TypeOK
  <2> QED
    BY <2>1, <2>3, <2>4, <2>5, SeeingRightful DEF AuthorityInv, TypeOK
<1>6. ASSUME NEW n \in Nodes, SendThrows(n)
      PROVE  AuthorityInv'
  <2>1. /\ echo' \in [Nodes -> SUBSET Events]
        /\ \A x \in Nodes : echo'[x] \subseteq echo[x]
        /\ UNCHANGED <<view, manifest, inbox, owning, joins, accepting, past>>
    BY <1>6 DEF SendThrows, AuthorityInv, TypeOK
  <2> QED
    BY <2>1 DEF AuthorityInv, TypeOK, past
<1>7. ASSUME NEW n \in Nodes, RemoveRoom(n)
      PROVE  AuthorityInv'
  <2> DEFINE e == Leave(n)
  <2>1. e \in Events /\ e.kind = "leave"
    BY MadeEvents DEF Leave
  <2>2. /\ n # Owner /\ echo[n] = {} /\ Sending(e, Recipients(n)) /\ See(n, NoRoom)
        /\ UNCHANGED <<manifest, echo, owning, joins, accepting, dropped, unlisted>>
    BY <1>7 DEF RemoveRoom, Free
  <2> HIDE DEF e
  <2>3. /\ issued' = issued \cup {e} /\ issued \subseteq issued'
        /\ \A x \in Nodes : inbox'[x] \subseteq inbox[x] \cup {e}
        /\ inbox' \in [Nodes -> SUBSET Events] /\ sent' \in 0..MaxSent
    BY <2>1, <2>2, AuthorityAssumption DEF Sending, AuthorityInv, TypeOK
  <2>4. /\ view' \in [Nodes -> Views]
        /\ \A x \in Nodes : view'[x].banned \subseteq Known(view'[x])
        /\ \A x \in Nodes : view'[x] = IF x = n THEN NoRoom ELSE view[x]
        /\ \A x \in Nodes : view'[x] = NoRoom \/ Rightful(view'[x], issued', owning')
    BY <2>2, <2>3, SeeRightful
  <2>5. RightfulEvent(e, issued', owning')
    BY <2>1, <2>3 DEF RightfulEvent
  <2>6. \A x \in Nodes : \A d \in inbox'[x] \cup echo'[x] : RightfulEvent(d, issued', owning')
    BY <2>2, <2>3, <2>5, KeptRightful
  <2>7. TypeOK'
    BY <2>1, <2>2, <2>3, <2>4 DEF AuthorityInv, TypeOK
  <2>8. /\ owning' \/ accepting'.step # "idle" => view'[Owner] # NoRoom
        /\ \A x \in Nodes : echo'[x] # {} => view'[x] # NoRoom
    BY <2>2, <2>4, AuthorityAssumption DEF AuthorityInv
  <2> QED
    BY <2>2, <2>3, <2>4, <2>6, <2>7, <2>8, KeptRightful DEF AuthorityInv
<1>8. CASE RemoveOwnRoom
  <2>1. /\ echo[Owner] = {} /\ accepting = Idle /\ See(Owner, NoRoom) /\ owning' = FALSE
        /\ UNCHANGED <<manifest, inbox, echo, joins, accepting, past>>
    BY <1>8 DEF RemoveOwnRoom, Free
  <2>2. /\ view' \in [Nodes -> Views]
        /\ \A x \in Nodes : view'[x].banned \subseteq Known(view'[x])
        /\ \A x \in Nodes : view'[x] = IF x = Owner THEN NoRoom ELSE view[x]
        /\ \A x \in Nodes : view'[x] = NoRoom \/ Rightful(view'[x], issued', owning')
    BY <2>1, SeeRightful, AuthorityAssumption DEF past
  <2>3. TypeOK'
    <3>1. owning' \in BOOLEAN
      BY <2>1
    <3> QED
      BY <2>1, <2>2, <3>1 DEF AuthorityInv, TypeOK, past
  <2>4. accepting'.step = "idle"
    BY <2>1 DEF Idle
  <2>5. \A x \in Nodes : \A d \in inbox'[x] \cup echo'[x] : RightfulEvent(d, issued', owning')
    BY <2>1, KeptRightful DEF past
  <2> QED
    BY <2>1, <2>2, <2>3, <2>4, <2>5 DEF AuthorityInv, past
<1>9. ASSUME NEW n \in Nodes, JoinRoom(n)
      PROVE  AuthorityInv'
  <2> DEFINE v == [NoRoom EXCEPT !.role = [m \in Nodes |-> IF m = n THEN "member"
                                             ELSE IF m = Owner THEN "owner" ELSE "none"]]
  <2>1. /\ v \in Views /\ v.banned = {} /\ v.tombs = {}
        /\ \A m \in Nodes : v.role[m] = IF m = n THEN "member"
                                        ELSE IF m = Owner THEN "owner" ELSE "none"
    BY DEF NoRoom, Views, Roles
  <2>2. See(n, v) /\ UNCHANGED <<manifest, inbox, echo, owning, joins, accepting, past>>
    BY <1>9 DEF JoinRoom
  <2>3. n = Owner => ~owning
    BY <1>9, InRoomRightful DEF JoinRoom, AuthorityInv
  <2> HIDE DEF v
  <2>4. OwnerOf(v, owning)
    BY <2>1, <2>3, AuthorityAssumption DEF OwnerOf
  <2>5. Rightful(v, issued, owning)
    BY <2>1, <2>4, PlainRightful
  <2> QED
    BY <2>2, <2>5, SeeingRightful DEF AuthorityInv, TypeOK
<1>10. ASSUME NEW n \in Nodes, NEW e \in inbox[n], Deliver(n, e)
       PROVE  AuthorityInv'
  <2>1. e \in Events /\ RightfulEvent(e, issued, owning)
    BY DEF AuthorityInv, RightfulEvent
  <2>2. inbox' \in [Nodes -> SUBSET Events] /\ \A x \in Nodes : inbox'[x] \subseteq inbox[x]
    BY <1>10 DEF Deliver, AuthorityInv, TypeOK
  <2>3. joins' \subseteq Nodes
    BY <1>10, <2>1, EventFields DEF Deliver, Queued, AuthorityInv, TypeOK
  <2>4. CASE InRoom(n)
    <3>1. Rightful(Applied(view[n], e), issued, owning)
      BY <2>1, <2>4, InRoomRightful, AppliedRightful
    <3> QED
      BY <1>10, <2>2, <2>3, <2>4, <3>1, SeeingRightful DEF Deliver, AuthorityInv, TypeOK
  <2>5. CASE ~InRoom(n)
    <3>1. UNCHANGED <<view, manifest, echo, owning, accepting, past>>
      BY <1>10, <2>5 DEF Deliver
    <3> QED
      BY <2>2, <2>3, <3>1 DEF AuthorityInv, TypeOK, past
  <2> QED
    BY <2>4, <2>5
<1>11. ASSUME NEW n \in Nodes, NEW e \in inbox[n], Overwritten(n, e)
       PROVE  AuthorityInv'
  <2>1. inbox' \in [Nodes -> SUBSET Events] /\ \A x \in Nodes : inbox'[x] \subseteq inbox[x]
    BY <1>11 DEF Overwritten, AuthorityInv, TypeOK
  <2>2. Queued(n, e) \subseteq Nodes
    BY EventFields DEF Queued, AuthorityInv, RightfulEvent
  <2>3. /\ joins' = joins \cup Queued(n, e) /\ dropped' = dropped \cup Queued(n, e)
        /\ UNCHANGED <<view, manifest, echo, owning, accepting, issued, sent, unlisted>>
    BY <1>11 DEF Overwritten
  <2> QED
    BY <2>1, <2>2, <2>3 DEF AuthorityInv, TypeOK
<1>12. ASSUME NEW n \in Nodes, Sync(n)
       PROVE  AuthorityInv'
  <2>1. Rightful(manifest, issued, owning)
    BY IssuedGrows DEF AuthorityInv
  <2>2. Rightful(ApplyManifest(view[n], manifest), issued, owning)
    BY <1>12, <2>1, InRoomRightful, ManifestRightful DEF Sync, Free
  <2> QED
    BY <1>12, <2>2, SeeingRightful DEF Sync, AuthorityInv, TypeOK
<1>13. ASSUME NEW m \in Nodes, PublishJoin(m)
       PROVE  AuthorityInv'
  <2>1. /\ accepting' \in [step : {"idle", "published", "accepted"}, to : Nodes \cup {Nobody},
                           body : Views]
        /\ accepting'.step = "published" /\ accepting'.to = m
    BY <1>13, NoRoomTable DEF PublishJoin, Idle, WellTyped
  <2>2. /\ joins' \subseteq Nodes /\ unlisted' \subseteq Nodes /\ dropped' \subseteq Nodes
        /\ manifest' = manifest \/ (owning /\ manifest' = view[Owner])
        /\ UNCHANGED <<view, inbox, echo, owning, issued, sent>>
    BY <1>13 DEF PublishJoin, TakeJoin, AuthorityInv, TypeOK
  <2>3. view[Owner] # NoRoom
    BY <1>13, InRoomRightful, AuthorityAssumption DEF PublishJoin
  <2> QED
    BY <2>1, <2>2, <2>3, OperationRightful
<1>14. ASSUME NEW m \in Nodes, PublishJoinFails(m)
       PROVE  AuthorityInv'
  BY <1>14, OperationRightful DEF PublishJoinFails, TakeJoin, AuthorityInv, TypeOK, past
<1>15. CASE Publish
  BY <1>15, OperationRightful DEF Publish, AuthorityInv, TypeOK, past
<1>16. CASE CopyJoin
  <2>1. view[Owner] # NoRoom /\ Rightful(view[Owner], issued, owning)
    BY <1>16, AuthorityAssumption DEF CopyJoin, AuthorityInv
  <2>2. /\ accepting' \in [step : {"idle", "published", "accepted"}, to : Nodes \cup {Nobody},
                           body : Views]
        /\ accepting'.body = view[Owner] /\ accepting'.to = accepting.to
    BY <1>16, AuthorityAssumption DEF CopyJoin, AuthorityInv, TypeOK
  <2>3. accepting'.to \in Nodes
    BY <1>16, <2>2 DEF CopyJoin, AuthorityInv
  <2> QED
    BY <1>16, <2>1, <2>2, <2>3, OperationRightful DEF CopyJoin, AuthorityInv, TypeOK, past
<1>17. CASE AcceptJoin
  <2> DEFINE e == JoinAccepted(accepting.body)
  <2>1. Rightful(accepting.body, issued, owning) /\ accepting.body \in Views
    BY <1>17 DEF AcceptJoin, AuthorityInv, Rightful, WellTyped
  <2>2. e \in Events /\ RightfulEvent(e, issued, owning)
    BY <2>1, MadeEvents, AuthorityAssumption DEF JoinAccepted, RightfulEvent
  <2>3. /\ inbox' = [inbox EXCEPT ![accepting.to] = @ \cup {e}]
        /\ echo' = [echo EXCEPT ![Owner] = {e}] /\ accepting' = Idle
        /\ UNCHANGED <<view, manifest, owning, joins, past>>
    BY <1>17 DEF AcceptJoin
  <2>4. view[Owner] # NoRoom
    BY <1>17 DEF AcceptJoin, AuthorityInv
  <2> HIDE DEF e
  <2>5. /\ inbox' \in [Nodes -> SUBSET Events] /\ \A x \in Nodes : inbox'[x] \subseteq inbox[x] \cup {e}
        /\ echo' \in [Nodes -> SUBSET Events]
        /\ \A x \in Nodes : echo'[x] = IF x = Owner THEN {e} ELSE echo[x]
    BY <2>2, <2>3 DEF AuthorityInv, TypeOK
  <2>6. \A x \in Nodes : \A d \in inbox'[x] \cup echo'[x] : RightfulEvent(d, issued, owning)
    BY <2>2, <2>5 DEF AuthorityInv
  <2>7. Idle \in [step : {"idle", "published", "accepted"}, to : Nodes \cup {Nobody}, body : Views]
        /\ Idle.step = "idle"
    BY NoRoomTable DEF Idle, WellTyped
  <2>8. TypeOK'
    BY <2>3, <2>5, <2>7 DEF AuthorityInv, TypeOK, past
  <2> QED
    BY <2>3, <2>4, <2>5, <2>6, <2>7, <2>8 DEF AuthorityInv, past
<1>18. CASE UNCHANGED vars
  BY <1>18 DEF vars, past, AuthorityInv, TypeOK
<1> QED
  BY <1>1, <1>2, <1>3, <1>4, <1>5, <1>6, <1>7, <1>8, <1>9, <1>10, <1>11, <1>12, <1>13, <1>14,
     <1>15, <1>16, <1>17, <1>18 DEF Next

(* Whatever is sent, lost, delivered, published or synced, every member    *)
(* table anywhere is a rightful one.                                       *)
THEOREM AuthorityInvariant == Spec => []AuthorityInv
BY InitAuthorityInv, NextAuthorityInv, PTL DEF Spec

(* TypeOK for any participants, messages and number of events.             *)
THEOREM AuthorityTypeCorrect == Spec => []TypeOK
<1>1. AuthorityInv => TypeOK
  BY DEF AuthorityInv
<1> QED
  BY <1>1, AuthorityInvariant, PTL

(* OwnerIntact: nobody but the creator is the owner in any engine's table, *)
(* the published manifest has the creator as the owner, and so has every   *)
(* table until the creator removes its room.                               *)
THEOREM OwnerStaysOwner == Spec => []OwnerIntact
<1>1. AuthorityInv => OwnerIntact
  BY InRoomRightful DEF OwnerIntact, AuthorityInv, Rightful, OwnerOf
<1> QED
  BY <1>1, AuthorityInvariant, PTL

(* AuthorityTraced: an office, a ban or a tombstone in any engine's table  *)
(* was issued by someone entitled to, back to the owner.                   *)
THEOREM AuthorityAlwaysTraced == Spec => []AuthorityTraced
<1>1. ASSUME AuthorityInv PROVE AuthorityTraced
  <2>1. \A n \in Nodes : TracedBy(view[n], issued) /\ WellTyped(view[n])
    <3>1. TracedBy(NoRoom, issued) /\ WellTyped(NoRoom)
      BY NoRoomTable DEF TracedBy
    <3> QED
      BY <1>1, <3>1 DEF AuthorityInv, Rightful
  <2>2. \A m : Appointed(m) <=> AppointedBy(m, issued)
    BY DEF Appointed, AppointedBy
  <2> QED
    BY <2>1, <2>2 DEF AuthorityTraced, TracedBy, HelpedBy, BannedBy, DeletedBy
<1> QED
  BY <1>1, AuthorityInvariant, PTL

-----------------------------------------------------------------------------
(* Those who have announced that they left.                                *)
Departed == {m \in Nodes : Leave(m) \in issued}

(* From the queued join request to the reply on its way: whoever is to be  *)
(* accepted is in the owner's table, and then in the manifest, unless it   *)
(* has left since, its entry was overwritten or the owner has no store.    *)
JoinInv ==
  /\ owning => /\ joins \subseteq Known(view[Owner]) \cup Departed \cup dropped
               /\ Known(manifest) \subseteq Known(view[Owner]) \cup Departed
  /\ accepting.step # "idle"
       => accepting.to \in Known(manifest) \cup Departed \cup dropped \cup unlisted
  /\ AcceptedIsPublished

(* A grant or a moderation event makes entries and removes none.           *)
LEMMA HandledKnown ==
  ASSUME NEW v \in Views, NEW e \in Events
  PROVE  /\ e.kind = "role_grant" => Known(v) \subseteq Known(AppliedGrant(v, e))
         /\ e.kind \in {"ban", "unban", "delete"} => Known(v) \subseteq Known(AppliedModeration(v, e))
<1>1. CASE e.kind = "role_grant"
  <2>1. e.subject \in Nodes /\ e.role \in Roles
    BY <1>1, EventFields
  <2>2. \A x \in Nodes : AppliedGrant(v, e).role[x] \in {v.role[x], e.role}
    BY <2>1 DEF AppliedGrant, Views
  <2> QED
    BY <1>1, <2>1, <2>2 DEF Known, Roles
<1>2. CASE e.kind \in {"ban", "unban", "delete"}
  <2>1. \A w \in Views, T \in SUBSET Messages : Known([w EXCEPT !.tombs = T]) = Known(w)
    BY DEF Known, Views
  <2>2. \A w \in Views, B \in SUBSET Nodes : Known([w EXCEPT !.banned = B]) = Known(w)
    BY DEF Known, Views
  <2>3. CASE AppliedModeration(v, e) = v
    BY <1>2, <2>3
  <2>4. CASE AppliedModeration(v, e) # v /\ e.kind = "delete"
    <3>1. AppliedModeration(v, e) = [v EXCEPT !.tombs = v.tombs \cup {e.message}]
      BY <2>4 DEF AppliedModeration
    <3>2. v.tombs \cup {e.message} \in SUBSET Messages
      BY <2>4, EventFields DEF Views
    <3> QED
      BY <1>2, <2>1, <3>1, <3>2
  <2>5. CASE AppliedModeration(v, e) # v /\ e.kind # "delete"
    <3> DEFINE u == Upsert(v, e.subject)
    <3>1. e.subject \in Nodes
      BY <1>2, <2>5, EventFields
    <3>2. u \in Views /\ Known(v) \subseteq Known(u)
      BY <3>1 DEF Upsert, Views, Known, Roles
    <3>3. \E B \in SUBSET Nodes : AppliedModeration(v, e) = [u EXCEPT !.banned = B]
      <4>1. AppliedModeration(v, e)
              = [u EXCEPT !.banned = IF e.kind = "ban" THEN u.banned \cup {e.subject}
                                                       ELSE u.banned \ {e.subject}]
        BY <2>5 DEF AppliedModeration
      <4>2. /\ u.banned \cup {e.subject} \in SUBSET Nodes
            /\ u.banned \ {e.subject} \in SUBSET Nodes
        BY <3>1, <3>2 DEF Views
      <4> HIDE DEF u
      <4> QED
        BY <4>1, <4>2
    <3> HIDE DEF u
    <3> QED
      BY <1>2, <2>2, <3>2, <3>3
  <2> QED
    BY <2>3, <2>4, <2>5
<1> QED
  BY <1>1, <1>2

(* apply_manifest keeps every entry: it only replaces those it lists.      *)
LEMMA ManifestKnown ==
  ASSUME NEW v \in Views, NEW m \in Views
  PROVE  Known(v) \subseteq Known(ApplyManifest(v, m))
BY DEF Known, ApplyManifest, Views

(* apply_decoded_message removes no entry but that of a member who leaves, *)
(* and its sender has one before anything else is looked at.               *)
LEMMA AppliedKnown ==
  ASSUME NEW v \in Views, NEW e \in Events
  PROVE  /\ Known(v) \subseteq Known(Applied(v, e)) \cup (IF e.kind = "leave" THEN {e.from} ELSE {})
         /\ e.kind = "join_request" => e.from \in Known(Applied(v, e))
<1> DEFINE u == Upsert(v, e.from)
<1>1. e.from \in Nodes
  BY EventFields
<1>2. u \in Views /\ Known(v) \subseteq Known(u) /\ e.from \in Known(u)
  BY <1>1 DEF Upsert, Views, Known, Roles
<1>3. CASE e.kind = "role_grant"
  <2>1. Applied(v, e) = AppliedGrant(u, e)
    BY <1>3 DEF Applied
  <2> HIDE DEF u
  <2> QED
    BY <1>2, <1>3, <2>1, HandledKnown
<1>4. CASE e.kind \in {"ban", "unban", "delete"}
  <2>1. Applied(v, e) = AppliedModeration(u, e)
    BY <1>4 DEF Applied
  <2> HIDE DEF u
  <2> QED
    BY <1>2, <1>4, <2>1, HandledKnown
<1>5. CASE e.kind = "join_accepted"
  <2>1. Applied(v, e) = ApplyManifest(u, e.body) /\ e.body \in Views
    BY <1>5, EventFields DEF Applied
  <2> HIDE DEF u
  <2> QED
    BY <1>2, <1>5, <2>1, ManifestKnown
<1>6. CASE e.kind = "leave"
  <2>1. Applied(v, e) = IF e.from = Owner THEN u ELSE Erase(u, e.from)
    BY <1>6 DEF Applied
  <2> HIDE DEF u
  <2>2. Known(u) \subseteq Known(Erase(u, e.from)) \cup {e.from}
    BY <1>2 DEF Known, Erase, Views
  <2> QED
    BY <1>2, <1>6, <2>1, <2>2
<1>7. CASE e.kind = "join_request"
  <2> DEFINE w == [u EXCEPT !.role[e.from] = "member"]
  <2>1. Applied(v, e) = IF u.role[e.from] = "owner" THEN w ELSE u
    BY <1>7 DEF Applied
  <2> HIDE DEF u
  <2>2. \A x \in Nodes : w.role[x] = IF x = e.from THEN "member" ELSE u.role[x]
    BY <1>2 DEF Views
  <2> HIDE DEF w
  <2>3. Known(u) \subseteq Known(w)
    BY <2>2 DEF Known
  <2> QED
    BY <1>2, <1>7, <2>1, <2>3
<1> QED
  BY <1>1, <1>3, <1>4, <1>5, <1>6, <1>7, EventFields

(* A table the owner comes to have after an event.                         *)
LEMMA OwnerApplies ==
  ASSUME AuthorityInv, NEW e \in Events, issued \subseteq issued',
         e.kind = "leave" => e \in issued', view'[Owner] = Applied(view[Owner], e)
  PROVE  Known(view[Owner]) \subseteq Known(view'[Owner]) \cup Departed'
<1>1. view[Owner] \in Views
  BY AuthorityAssumption DEF AuthorityInv, TypeOK
<1>2. e.kind = "leave" => e.from \in Departed'
  BY EventFields DEF Departed, Leave
<1> QED
  BY <1>1, <1>2, AppliedKnown

(* As long as the owner keeps its room, its table loses an entry only to a *)
(* departure.                                                              *)
LEMMA OwnerKeeps ==
  ASSUME AuthorityInv, [Next]_vars
  PROVE  /\ issued \subseteq issued'
         /\ owning' => owning
         /\ owning' => Known(view[Owner]) \subseteq Known(view'[Owner]) \cup Departed'
<1> DEFINE Kept == Known(view[Owner]) \subseteq Known(view'[Owner]) \cup Departed'
<1>1. issued \subseteq issued' /\ (owning' => owning)
  <2>1. issued \subseteq issued'
    BY DEF Next, vars, past, ChangeMemberRole, ToggleMemberBan, DeleteMessage, SendControl, Sending,
           ApplyOwn, SendThrows, RemoveRoom, RemoveOwnRoom, JoinRoom, RequestJoin, Deliver,
           Overwritten, Publish, PublishJoin, PublishJoinFails, CopyJoin, AcceptJoin, Sync
  <2>2. owning' = owning \/ owning' = FALSE
    BY DEF Next, vars, ChangeMemberRole, ToggleMemberBan, DeleteMessage, SendControl,
           ApplyOwn, SendThrows, RemoveRoom, RemoveOwnRoom, JoinRoom, RequestJoin, Deliver,
           Overwritten, Publish, PublishJoin, PublishJoinFails, CopyJoin, AcceptJoin, Sync
  <2> QED
    BY <2>1, <2>2
<1>2. Owner \in Nodes /\ view \in [Nodes -> Views] /\ view[Owner] \in Views /\ manifest \in Views
  BY AuthorityAssumption DEF AuthorityInv, TypeOK
<1>3. ASSUME NEW n \in Nodes, NEW v, See(n, v)
      PROVE  view'[Owner] = IF n = Owner THEN v ELSE view[Owner]
  BY <1>2, <1>3 DEF See
<1>4. ASSUME UNCHANGED view PROVE Kept
  BY <1>4
<1>5. ASSUME NEW n \in Nodes, NEW e \in inbox[n] \cup echo[n], See(n, Applied(view[n], e))
      PROVE  Kept
  <2>1. e \in Events /\ (e.kind = "leave" => e \in issued)
    BY DEF AuthorityInv, RightfulEvent
  <2>2. CASE n = Owner
    BY <1>1, <1>3, <1>5, <2>1, <2>2, OwnerApplies
  <2>3. CASE n # Owner
    BY <1>3, <1>5, <2>3
  <2> QED
    BY <2>2, <2>3
<1>6. ASSUME NEW n \in Nodes, ApplyOwn(n)
      PROVE  Kept
  BY <1>5, <1>6 DEF ApplyOwn
<1>7. ASSUME NEW n \in Nodes, NEW e \in inbox[n], Deliver(n, e)
      PROVE  Kept
  BY <1>4, <1>5, <1>7 DEF Deliver
<1>8. ASSUME NEW n \in Nodes, RemoveRoom(n)
      PROVE  Kept
  BY <1>3, <1>8 DEF RemoveRoom
<1>9. RemoveOwnRoom => ~owning'
  BY DEF RemoveOwnRoom
<1>10. ASSUME NEW n \in Nodes, JoinRoom(n), owning'
       PROVE  Kept
  <2>1. InRoom(Owner)
    BY <1>1, <1>2, <1>10, InRoomRightful DEF AuthorityInv
  <2> QED
    BY <1>3, <1>10, <2>1 DEF JoinRoom
<1>11. ASSUME NEW n \in Nodes, Sync(n)
       PROVE  Kept
  BY <1>2, <1>3, <1>11, ManifestKnown DEF Sync
<1>12. ASSUME NEW n \in Nodes, NEW m \in Nodes,
              \/ \E r \in Roles \ {"owner"} : ChangeMemberRole(n, m, r)
              \/ ToggleMemberBan(n, m)
       PROVE  UNCHANGED view
  BY <1>12 DEF ChangeMemberRole, ToggleMemberBan, SendControl
<1>13. ASSUME NEW n \in Nodes,
              \/ \E id \in Messages : DeleteMessage(n, id)
              \/ RequestJoin(n) \/ SendThrows(n) \/ PublishJoin(n) \/ PublishJoinFails(n)
              \/ \E e \in inbox[n] : Overwritten(n, e)
       PROVE  UNCHANGED view
  BY <1>13 DEF DeleteMessage, RequestJoin, SendControl, SendThrows, PublishJoin,
               PublishJoinFails, Overwritten
<1>14. Publish \/ CopyJoin \/ AcceptJoin \/ UNCHANGED vars => UNCHANGED view
  BY DEF Publish, CopyJoin, AcceptJoin, vars
<1> HIDE DEF Kept
<1>15. ASSUME owning' PROVE Kept
  <2>1. ASSUME NEW n \in Nodes, NEW m \in Nodes,
               \/ \E r \in Roles \ {"owner"} : ChangeMemberRole(n, m, r)
               \/ ToggleMemberBan(n, m)
        PROVE  Kept
    BY <1>4, <1>12, <2>1
  <2>2. ASSUME NEW n \in Nodes, RequestJoin(n) \/ SendThrows(n) \/ PublishJoin(n)
                                 \/ PublishJoinFails(n) \/ \E id \in Messages : DeleteMessage(n, id)
        PROVE  Kept
    BY <1>4, <1>13, <2>2
  <2>3. ASSUME NEW n \in Nodes, NEW e \in inbox[n], Deliver(n, e) \/ Overwritten(n, e)
        PROVE  Kept
    BY <1>4, <1>7, <1>13, <2>3
  <2>4. ASSUME NEW n \in Nodes, ApplyOwn(n) \/ RemoveRoom(n) \/ JoinRoom(n) \/ Sync(n)
        PROVE  Kept
    BY <1>6, <1>8, <1>10, <1>11, <1>15, <2>4
  <2>5. CASE RemoveOwnRoom \/ Publish \/ CopyJoin \/ AcceptJoin \/ UNCHANGED vars
    BY <1>4, <1>9, <1>14, <1>15, <2>5
  <2> QED
    BY <2>1, <2>2, <2>3, <2>4, <2>5 DEF Next
<1> QED
  BY <1>1, <1>15 DEF Kept

(* Replies to joins come from AcceptJoin alone.                            *)
LEMMA RepliesOnTheirWay ==
  ASSUME AuthorityInv, [Next]_vars, ~AcceptJoin, NEW m \in Nodes, NEW e \in inbox'[m],
         e.kind = "join_accepted"
  PROVE  e \in inbox[m]
<1>1. inbox \in [Nodes -> SUBSET Events]
  BY DEF AuthorityInv, TypeOK
<1>2. ASSUME NEW d, NEW R, Sending(d, R), d.kind # "join_accepted"
      PROVE  e \in inbox[m]
  BY <1>2 DEF Sending
<1>3. ASSUME NEW n \in Nodes, NEW x \in Nodes, NEW r \in Roles, ChangeMemberRole(n, x, r)
      PROVE  e \in inbox[m]
  BY <1>2, <1>3 DEF ChangeMemberRole, SendControl, Grant
<1>4. ASSUME NEW n \in Nodes, NEW x \in Nodes, ToggleMemberBan(n, x)
      PROVE  e \in inbox[m]
  BY <1>2, <1>4 DEF ToggleMemberBan, SendControl, Ban, Unban
<1>5. ASSUME NEW n \in Nodes, NEW id \in Messages, DeleteMessage(n, id)
      PROVE  e \in inbox[m]
  BY <1>2, <1>5 DEF DeleteMessage, SendControl, Delete
<1>6. ASSUME NEW n \in Nodes, RemoveRoom(n) \/ RequestJoin(n)
      PROVE  e \in inbox[m]
  BY <1>2, <1>6 DEF RemoveRoom, RequestJoin, SendControl, Leave, JoinRequest
<1>7. ASSUME NEW n \in Nodes, NEW d \in inbox[n], Deliver(n, d) \/ Overwritten(n, d)
      PROVE  e \in inbox[m]
  BY <1>1, <1>7 DEF Deliver, Overwritten
<1>8. CASE UNCHANGED inbox
  BY <1>8
<1> QED
  BY <1>3, <1>4, <1>5, <1>6, <1>7, <1>8
  DEF Next, vars, ApplyOwn, SendThrows, RemoveOwnRoom, JoinRoom, Sync, Publish, PublishJoin,
      PublishJoinFails, CopyJoin

(* A join request that the owner applies is in its table by then.          *)
LEMMA QueuedIsKnown ==
  ASSUME AuthorityInv, NEW n \in Nodes, NEW e \in inbox[n] \cup echo[n],
         See(n, Applied(view[n], e))
  PROVE  Queued(n, e) \subseteq Known(view'[Owner])
<1>1. e \in Events
  BY DEF AuthorityInv, RightfulEvent
<1>2. CASE n = Owner /\ e.kind = "join_request"
  <2>1. view[Owner] \in Views /\ view'[Owner] = Applied(view[Owner], e)
    BY <1>2 DEF See, AuthorityInv, TypeOK
  <2>2. e.from \in Known(view'[Owner])
    BY <1>1, <1>2, <2>1, AppliedKnown
  <2> QED
    BY <2>2 DEF Queued
<1>3. CASE ~(n = Owner /\ e.kind = "join_request")
  BY <1>3 DEF Queued
<1> QED
  BY <1>2, <1>3

LEMMA NextJoinInv == AuthorityInv /\ JoinInv /\ [Next]_vars => JoinInv'
<1> SUFFICES ASSUME AuthorityInv, JoinInv, [Next]_vars PROVE JoinInv'
  OBVIOUS
<1> DEFINE KnownOrGone == Known(view[Owner]) \cup Departed \cup dropped
<1>1. /\ Departed \subseteq Departed' /\ dropped \subseteq dropped' /\ unlisted \subseteq unlisted'
      /\ owning' => owning
      /\ owning' => Known(view[Owner]) \subseteq Known(view'[Owner]) \cup Departed'
  <2>1. dropped \subseteq dropped' /\ unlisted \subseteq unlisted'
    BY DEF Next, vars, past, ChangeMemberRole, ToggleMemberBan, DeleteMessage, SendControl, ApplyOwn,
        SendThrows, RemoveRoom, RemoveOwnRoom, JoinRoom, RequestJoin, Deliver, Overwritten,
        Publish, PublishJoin, PublishJoinFails, CopyJoin, AcceptJoin, Sync
  <2> QED
    BY <2>1, OwnerKeeps DEF Departed
<1>2. view[Owner] \in Views /\ Owner \in Nodes
  BY AuthorityAssumption DEF AuthorityInv, TypeOK
<1>3. owning' => joins' \subseteq KnownOrGone'
  <2>1. ASSUME NEW n \in Nodes, NEW e \in inbox[n] \cup echo[n], See(n, Applied(view[n], e)),
               joins' = joins \cup Queued(n, e)
        PROVE  owning' => joins' \subseteq KnownOrGone'
    BY <1>1, <2>1, QueuedIsKnown DEF JoinInv
  <2>2. ASSUME NEW n \in Nodes, NEW e \in inbox[n], Deliver(n, e)
        PROVE  owning' => joins' \subseteq KnownOrGone'
    <3>1. CASE InRoom(n)
      BY <2>1, <2>2, <3>1 DEF Deliver
    <3>2. CASE ~InRoom(n)
      BY <1>1, <2>2, <3>2 DEF Deliver, Queued, JoinInv
    <3> QED
      BY <3>1, <3>2
  <2>3. ASSUME NEW n \in Nodes, ApplyOwn(n)
        PROVE  owning' => joins' \subseteq KnownOrGone'
    BY <2>1, <2>3 DEF ApplyOwn
  <2>4. CASE joins' \subseteq joins \cup dropped'
    BY <1>1, <2>4 DEF JoinInv
  <2>5. ASSUME NEW n \in Nodes, NEW e \in inbox[n], Overwritten(n, e)
        PROVE  joins' \subseteq joins \cup dropped'
    BY <2>5 DEF Overwritten
  <2> HIDE DEF KnownOrGone
  <2> QED
    BY <2>2, <2>3, <2>4, <2>5
    DEF Next, vars, ChangeMemberRole, ToggleMemberBan, DeleteMessage, SendControl, SendThrows,
        RemoveRoom, RemoveOwnRoom, JoinRoom, RequestJoin, Publish, TakeJoin, PublishJoin,
        PublishJoinFails, CopyJoin, AcceptJoin, Sync
<1>4. /\ owning' => Known(manifest') \subseteq Known(view'[Owner]) \cup Departed'
      /\ Known(manifest) \subseteq Known(manifest') \cup Departed'
  <2>1. CASE manifest' = manifest
    BY <1>1, <2>1 DEF JoinInv
  <2>2. CASE owning /\ manifest' = view[Owner]
    BY <1>1, <2>2 DEF JoinInv
  <2> QED
    BY <2>1, <2>2
    DEF Next, vars, ChangeMemberRole, ToggleMemberBan, DeleteMessage, SendControl, ApplyOwn,
        SendThrows, RemoveRoom, RemoveOwnRoom, JoinRoom, RequestJoin, Deliver, Overwritten,
        Publish, PublishJoin, PublishJoinFails, CopyJoin, AcceptJoin, Sync
<1> DEFINE ListedOrGone == Known(manifest) \cup Departed \cup dropped \cup unlisted
<1>5. ListedOrGone \subseteq ListedOrGone'
  BY <1>1, <1>4
<1>6. accepting'.step # "idle" => accepting'.to \in ListedOrGone'
  <2>1. ASSUME NEW m \in Nodes, PublishJoin(m)
        PROVE  m \in ListedOrGone' /\ accepting'.to = m
    <3>1. accepting'.to = m /\ m \in joins
      BY <2>1 DEF PublishJoin, TakeJoin, Idle
    <3>2. CASE owning
      BY <1>1, <2>1, <3>1, <3>2 DEF PublishJoin, JoinInv
    <3>3. CASE ~owning
      BY <2>1, <3>1, <3>3 DEF PublishJoin
    <3> QED
      BY <3>1, <3>2, <3>3
  <2>2. CASE AcceptJoin
    BY <2>2 DEF AcceptJoin, Idle
  <2>3. CASE CopyJoin
    <3>1. accepting.step # "idle" /\ accepting'.to = accepting.to
      BY <2>3 DEF CopyJoin, AuthorityInv, TypeOK
    <3> QED
      BY <1>5, <3>1 DEF JoinInv
  <2>4. CASE accepting' = accepting
    BY <1>5, <2>4 DEF JoinInv
  <2> HIDE DEF ListedOrGone
  <2> QED
    BY <2>1, <2>2, <2>3, <2>4
    DEF Next, vars, ChangeMemberRole, ToggleMemberBan, DeleteMessage, SendControl, ApplyOwn,
        SendThrows, RemoveRoom, RemoveOwnRoom, JoinRoom, RequestJoin, Deliver, Overwritten,
        Publish, PublishJoinFails, Sync
<1>7. AcceptedIsPublished'
  <2> SUFFICES ASSUME NEW m \in Nodes, NEW e \in inbox'[m], e.kind = "join_accepted"
               PROVE  m \in ListedOrGone'
    BY DEF AcceptedIsPublished, Departed
  <2>1. CASE e \in inbox[m]
    <3>1. m \in ListedOrGone
      BY <2>1 DEF JoinInv, AcceptedIsPublished, Departed
    <3> QED
      BY <1>5, <3>1
  <2>2. CASE e \notin inbox[m]
    <3>1. AcceptJoin
      BY <2>2, RepliesOnTheirWay
    <3>2. accepting.step # "idle" /\ m = accepting.to
      BY <2>2, <3>1 DEF AcceptJoin, AuthorityInv, TypeOK
    <3> QED
      BY <1>5, <3>2 DEF JoinInv
  <2> QED
    BY <2>1, <2>2
<1> QED
  BY <1>3, <1>4, <1>6, <1>7 DEF JoinInv

(* Joins, departures, publications and syncs in any order keep JoinInv.    *)
THEOREM JoinInvariant == Spec => [](AuthorityInv /\ JoinInv)
<1>1. Init => JoinInv
  BY AuthorityAssumption DEF Init, JoinInv, AcceptedIsPublished, Idle
<1> QED
  BY <1>1, InitAuthorityInv, NextAuthorityInv, NextJoinInv, PTL DEF Spec

(* AcceptedIsPublished: the manifest that bears the member is stored       *)
(* before join_accepted is sent, and no later publication drops it, but    *)
(* for a member whose entry a sync or toggle_replica has overwritten, and  *)
(* for one accepted by an owner that has removed its room and joined it    *)
(* again: it has no store to publish in.                                   *)
THEOREM AcceptedAlwaysPublished == Spec => []AcceptedIsPublished
<1>1. JoinInv => AcceptedIsPublished
  BY DEF JoinInv
<1> QED
  BY <1>1, JoinInvariant, PTL

=============================================================================
