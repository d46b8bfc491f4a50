---------------------------- MODULE DurableRooms ----------------------------
(***************************************************************************)
(* What a profile's room database promises, whatever it is stored in: one  *)
(* current snapshot, replaced by a save in a single step or not at all,    *)
(* and handed back unchanged by the next connection.  RoomVault implements *)
(* it with a manifest, chunks and the plaintext file of older builds.      *)
(***************************************************************************)

CONSTANTS
  Snapshots,   \* the room databases the engine may want to save
  Empty        \* the database of a profile that has no rooms yet

VARIABLES
  durable,     \* the snapshot a connection would be given now
  phase,       \* "offline", "ready", "saving" or "saved"
  draft        \* the engine's rooms: loaded by Open or submitted to be saved

vars == <<durable, phase, draft>>

TypeOK ==
  /\ durable \in Snapshots
  /\ phase \in {"offline", "ready", "saving", "saved"}
  /\ draft \in Snapshots

Init ==
  /\ durable \in Snapshots
  /\ phase = "offline"
  /\ draft = Empty

(* A connection is given the durable snapshot. *)
Open ==
  /\ phase = "offline"
  /\ phase' = "ready"
  /\ draft' = durable
  /\ UNCHANGED durable

Submit(s) ==
  /\ phase = "ready"
  /\ phase' = "saving"
  /\ draft' = s
  /\ UNCHANGED durable

Commit ==
  /\ phase = "saving"
  /\ phase' = "saved"
  /\ durable' = draft
  /\ UNCHANGED draft

(* The caller learns of a commit, or of a save that changed nothing. *)
Return ==
  /\ phase \in {"saving", "saved"}
  /\ phase' = "ready"
  /\ UNCHANGED <<durable, draft>>

Close ==
  /\ phase # "offline"
  /\ phase' = "offline"
  /\ draft' = Empty
  /\ UNCHANGED durable

Next ==
  \/ Open
  \/ \E s \in Snapshots : Submit(s)
  \/ Commit
  \/ Return
  \/ Close

Spec == Init /\ [][Next]_vars

=============================================================================
