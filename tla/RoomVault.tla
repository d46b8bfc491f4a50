------------------------------ MODULE RoomVault ------------------------------
(***************************************************************************)
(* The desktop engine's room database in the daemon's private storage      *)
(* (room_engine.cpp: load_encrypted_rooms, save_encrypted_rooms, the       *)
(* migration in connect_impl and the save in persist_pending_impl).  A     *)
(* snapshot is cut into chunks that are put one request at a time under a  *)
(* fresh random generation; the manifest that names the generation is put  *)
(* last; then the chunks of the generation before are deleted.  Any        *)
(* request may fail, the process may stop between two requests, and older  *)
(* builds left the database in a plaintext file, or in two.                *)
(*                                                                         *)
(* All of it runs on the engine's operation thread, so one save or load is *)
(* under way at a time.  A chunk's bytes are abstracted to the snapshot it *)
(* was cut from, the manifest's length and hash to the snapshot itself.    *)
(***************************************************************************)
EXTENDS Naturals

CONSTANTS
  Snapshots,     \* room databases
  Empty,         \* the database with no rooms
  Generations,   \* values of random_hex(16); bounds the garbage a run can leave
  ChunkCount,    \* chunks a snapshot is cut into (size / 192 KiB, 1 at least)
  MaxChunks,     \* the largest of them
  LostReplies,   \* puts ("chunk", "manifest") the daemon may do without its reply arriving
  Absent         \* nothing is stored

Manifests == [generation : Generations, snapshot : Snapshots]
Keys == Generations \X (1..MaxChunks)

ASSUME VaultAssumption ==
  /\ Empty \in Snapshots
  /\ Absent \notin Snapshots \cup Generations \cup Manifests
  /\ MaxChunks \in Nat \ {0}
  /\ ChunkCount \in [Snapshots -> 1..MaxChunks]
  /\ LostReplies \subseteq {"chunk", "manifest"}

VARIABLES
  manifest,    \* daemon: value of rooms/state-v1/manifest
  chunks,      \* daemon: value of rooms/state-v1/<generation>/<index>
  scoped,      \* disk: the snapshot in profiles/<profile>/rooms-v1.json
  legacy,      \* disk: the snapshot in rooms-v1.json, from before accounts had their own
  pc,          \* where the operation thread is
  mode,        \* "persist" or "migrate": the save's caller
  owns,        \* legacy_credential_authenticated, of the migration that saves
  draft,       \* the rooms loaded, or being saved
  generation,  \* locals of save_encrypted_rooms
  written,
  previous,
  next,        \* index of the delete loops
  faulted,     \* history: a request failed, or the process stopped, during a save
  unconfirmed  \* history: the stored manifest's put lost its reply and threw

daemon == <<manifest, chunks>>
files == <<scoped, legacy>>
locals == <<mode, owns, draft, generation, previous>>
vars == <<manifest, chunks, scoped, legacy, pc, mode, owns, draft, generation, written,
          previous, next, faulted, unconfirmed>>

TypeOK ==
  /\ manifest \in Manifests \cup {Absent}
  /\ chunks \in [Keys -> Snapshots \cup {Absent}]
  /\ scoped \in Snapshots \cup {Absent}
  /\ legacy \in Snapshots \cup {Absent}
  /\ pc \in {"offline", "ready", "chunks", "cleanup", "retire"}
  /\ mode \in {"persist", "migrate"}
  /\ owns \in BOOLEAN
  /\ draft \in Snapshots
  /\ generation \in Generations \cup {Absent}
  /\ pc \in {"chunks", "cleanup", "retire"} => generation \in Generations
  /\ written \in 0..MaxChunks
  /\ previous \in Manifests \cup {Absent}
  /\ next \in 0..MaxChunks
  /\ faulted \in BOOLEAN
  /\ unconfirmed \in BOOLEAN

-----------------------------------------------------------------------------
(* The chunks a manifest names are all there and have its hash.            *)
Readable(m) ==
  \A i \in 1..ChunkCount[m.snapshot] : chunks[<<m.generation, i>>] = m.snapshot

Fresh(g) ==
  /\ \A i \in 1..MaxChunks : chunks[<<g, i>>] = Absent
  /\ manifest # Absent => manifest.generation # g

Init ==
  /\ manifest = Absent
  /\ chunks = [k \in Keys |-> Absent]
  /\ scoped \in Snapshots \cup {Absent}
  /\ legacy \in Snapshots \cup {Absent}
  /\ pc = "offline"
  /\ mode = "persist"
  /\ owns = FALSE
  /\ draft = Empty
  /\ generation = Absent
  /\ written = 0
  /\ previous = Absent
  /\ next = 0
  /\ faulted = FALSE
  /\ unconfirmed = FALSE

-----------------------------------------------------------------------------
(* std::filesystem::remove; an error is ignored.                           *)
RemoveScoped == scoped' \in {scoped, Absent}
RemoveLegacy(own) == legacy' \in IF own THEN {legacy, Absent} ELSE {legacy}

(* connect_impl finds a manifest: the vault is authoritative.  The chunks  *)
(* are read in one step, since nothing else writes the vault meanwhile.    *)
(* Leftover plaintext files are removed, the one without an account only   *)
(* if a credential from an older location authenticated (own).  Every      *)
(* connection first copies its credential to the account's own location    *)
(* (497), so the next one may find that it no longer owns the file.        *)
LoadVault ==
  /\ pc = "offline"
  /\ manifest # Absent
  /\ Readable(manifest)
  /\ draft' = manifest.snapshot
  /\ RemoveScoped
  /\ \E own \in BOOLEAN : RemoveLegacy(own)
  /\ pc' = "ready"
  /\ UNCHANGED <<daemon, mode, owns, generation, written, previous, next, faulted, unconfirmed>>

(* No manifest, and connect_impl sees no plaintext file: a new profile, a  *)
(* file of another account, or a file that is_regular_file cannot reach.   *)
LoadNothing ==
  /\ pc = "offline"
  /\ manifest = Absent
  /\ draft' = Empty
  /\ pc' = "ready"
  /\ UNCHANGED <<daemon, files, mode, owns, generation, written, previous, next, faulted,
                 unconfirmed>>

(* The daemon cannot be reached, a read fails, or a chunk is missing or    *)
(* does not match: connect_impl throws and the engine stays unconnected.   *)
LoadFails ==
  /\ pc = "offline"
  /\ UNCHANGED vars

(* save_encrypted_rooms reads the manifest it replaces and draws a fresh   *)
(* generation.  If that read fails nothing has changed.                    *)
BeginSave(caller, own, s) ==
  /\ previous' = manifest
  /\ \E g \in Generations : Fresh(g) /\ generation' = g
  /\ mode' = caller
  /\ owns' = own
  /\ draft' = s
  /\ written' = 0
  /\ next' = 0
  /\ pc' = "chunks"
  /\ UNCHANGED <<daemon, files, faulted, unconfirmed>>

(* load_rooms: a file that cannot be opened is read as no rooms at all.    *)
LoadRooms(file) == {file, Empty}

(* connect_impl finds a file of an older build and no manifest: the        *)
(* account's own file, or else the one it owns by its credential.  A file  *)
(* is_regular_file cannot reach is not found.                              *)
Migrate ==
  /\ pc = "offline"
  /\ manifest = Absent
  /\ \E own \in BOOLEAN, s \in {scoped, Absent} :
       LET found == IF s # Absent THEN s ELSE IF own THEN legacy ELSE Absent IN
         /\ found # Absent
         /\ \E rooms \in LoadRooms(found) : BeginSave("migrate", own, rooms)

Persist(s) ==
  /\ pc = "ready"
  /\ BeginSave("persist", FALSE, s)

PutChunk ==
  /\ pc = "chunks"
  /\ written < ChunkCount[draft]
  /\ chunks' = [chunks EXCEPT ![<<generation, written + 1>>] = draft]
  /\ written' = written + 1
  /\ UNCHANGED <<manifest, files, pc, locals, next, faulted, unconfirmed>>

(* The put throws.  A chunk stored although the reply was lost is not      *)
(* counted by written, so the clean-up leaves it behind.                   *)
PutChunkFails ==
  /\ pc = "chunks"
  /\ written < ChunkCount[draft]
  /\ \/ UNCHANGED chunks
     \/ /\ "chunk" \in LostReplies
        /\ chunks' = [chunks EXCEPT ![<<generation, written + 1>>] = draft]
  /\ pc' = "cleanup"
  /\ faulted' = TRUE
  /\ UNCHANGED <<manifest, files, locals, written, next, unconfirmed>>

NewManifest == [generation |-> generation, snapshot |-> draft]

(* A slip: the manifest is put one chunk early.                            *)
PutManifestTooEarly ==
  /\ pc = "chunks"
  /\ written + 1 >= ChunkCount[draft]
  /\ manifest' = NewManifest
  /\ unconfirmed' = FALSE
  /\ pc' = "retire"
  /\ UNCHANGED <<chunks, files, locals, written, next, faulted>>

PutManifest ==
  /\ pc = "chunks"
  /\ written = ChunkCount[draft]
  /\ manifest' = NewManifest
  /\ unconfirmed' = FALSE
  /\ pc' = "retire"
  /\ UNCHANGED <<chunks, files, locals, written, next, faulted>>

(* The put throws.  The clean-up deletes the chunks even if the manifest   *)
(* that names them has been stored.                                        *)
PutManifestFails ==
  /\ pc = "chunks"
  /\ written = ChunkCount[draft]
  /\ \/ UNCHANGED <<manifest, unconfirmed>>
     \/ /\ "manifest" \in LostReplies
        /\ manifest' = NewManifest
        /\ unconfirmed' = TRUE
  /\ pc' = "cleanup"
  /\ faulted' = TRUE
  /\ UNCHANGED <<chunks, files, locals, written, next>>

-----------------------------------------------------------------------------
(* A delete that fails is swallowed by catch (...) {} and the loop goes on. *)
DeleteChunk(g) ==
  /\ next' = next + 1
  /\ \/ /\ chunks' = [chunks EXCEPT ![<<g, next + 1>>] = Absent]
        /\ UNCHANGED faulted
     \/ /\ faulted' = TRUE
        /\ UNCHANGED chunks
  /\ UNCHANGED <<manifest, files, pc, locals, written, unconfirmed>>

(* The catch of save_encrypted_rooms deletes the chunks it has written.    *)
DropWritten ==
  /\ pc = "cleanup"
  /\ next < written
  /\ DeleteChunk(generation)

(* A slip: the plaintext file is removed although the save failed.         *)
RethrowRemovingPlaintext ==
  /\ pc = "cleanup"
  /\ next = written
  /\ pc' = IF mode = "migrate" THEN "offline" ELSE "ready"
  /\ scoped' = Absent
  /\ UNCHANGED <<daemon, legacy, locals, written, next, faulted, unconfirmed>>

(* The exception goes on: a failed migration ends the connection attempt,  *)
(* a failed persist is logged.                                             *)
Rethrow ==
  /\ pc = "cleanup"
  /\ next = written
  /\ pc' = IF mode = "migrate" THEN "offline" ELSE "ready"
  /\ UNCHANGED <<daemon, files, locals, written, next, faulted, unconfirmed>>

(* A slip: the last chunk is left behind.                                  *)
RetireCountShort == IF previous = Absent THEN 0 ELSE ChunkCount[previous.snapshot] - 1

RetireCount == IF previous = Absent THEN 0 ELSE ChunkCount[previous.snapshot]

(* A slip: the loop runs one index too far.                                *)
RetireChunkPastEnd ==
  /\ pc = "retire"
  /\ previous # Absent
  /\ next <= RetireCount
  /\ DeleteChunk(previous.generation)

(* After the manifest: the chunks of the replaced generation are deleted.  *)
RetireChunk ==
  /\ pc = "retire"
  /\ next < RetireCount
  /\ DeleteChunk(previous.generation)

(* Both callers then remove the account's plaintext file, the migration    *)
(* also the file without an account, whichever of the two it has read.     *)
FinishSave ==
  /\ pc = "retire"
  /\ next = RetireCount
  /\ RemoveScoped
  /\ RemoveLegacy(mode = "migrate" /\ owns)
  /\ pc' = "ready"
  /\ UNCHANGED <<daemon, locals, written, next, faulted, unconfirmed>>

(* The process exits or is killed, or the engine reconnects.               *)
Stop ==
  /\ pc # "offline"
  /\ pc' = "offline"
  /\ faulted' = (faulted \/ pc # "ready")
  /\ UNCHANGED <<daemon, files, locals, written, next, unconfirmed>>

Next ==
  \/ LoadVault
  \/ LoadNothing
  \/ LoadFails
  \/ Migrate
  \/ \E s \in Snapshots : Persist(s)
  \/ PutChunk
  \/ PutChunkFails
  \/ PutManifest
  \/ PutManifestFails
  \/ DropWritten
  \/ Rethrow
  \/ RetireChunk
  \/ FinishSave
  \/ Stop

Spec == Init /\ [][Next]_vars

-----------------------------------------------------------------------------
(* A manifest is only ever stored over a complete set of its own chunks:   *)
(* whatever failed and wherever the process stopped, the next connection   *)
(* can load the database (load_encrypted_rooms throws otherwise).  The one *)
(* exception is a manifest whose put lost its reply: the clean-up takes    *)
(* its chunks away, and only another save puts that right.                 *)
VaultReadable == ~unconfirmed /\ manifest # Absent => Readable(manifest)

(* The same without the exception, which does not hold.                    *)
AlwaysReadable == manifest # Absent => Readable(manifest)

(* Chunks no manifest names.                                               *)
Orphans ==
  {k \in Keys : /\ chunks[k] # Absent
                /\ \/ manifest = Absent
                   \/ k[1] # manifest.generation
                   \/ k[2] > ChunkCount[manifest.snapshot]}

(* Between two saves the vault holds nothing but the current snapshot,     *)
(* unless some save was interrupted or one of its requests failed.         *)
NoGarbageWithoutFault == pc \in {"ready", "offline"} /\ ~faulted => Orphans = {}

(* The refinement: what a connection would be given now, and the caller's  *)
(* view of the save.  A migration is invisible.                            *)
Plaintext == IF scoped # Absent THEN scoped
             ELSE IF legacy # Absent THEN legacy ELSE Empty

Durable == IF manifest = Absent THEN Plaintext
           ELSE IF Readable(manifest) THEN manifest.snapshot ELSE Absent

Connected == pc # "offline" /\ (pc = "ready" \/ mode = "persist")

Promise == INSTANCE DurableRooms WITH
  durable <- Durable,
  phase <- IF ~Connected THEN "offline"
           ELSE IF pc \in {"chunks", "cleanup"} THEN "saving"
           ELSE IF pc = "retire" THEN "saved" ELSE "ready",
  draft <- IF Connected THEN draft ELSE Empty

(* The two places where the code does not keep the promise.  A connection  *)
(* goes on with, or migrates, other rooms than those of the older build's  *)
(* file: it could not reach or open the file, or no longer owns it; and    *)
(* the clean-up of a manifest that was stored although its put threw.      *)
Overlooks ==
  /\ manifest = Absent
  /\ draft' # Plaintext
  /\ \/ pc = "offline" /\ pc' = "ready" /\ Durable' = Durable
     \/ pc = "chunks" /\ mode = "migrate" /\ Durable' = draft

CleansStored ==
  /\ unconfirmed'
  /\ pc' = "cleanup"
  /\ Durable' \in {draft, Absent}

(* In every other step the chunks, the manifest and the migration behave   *)
(* as one snapshot that a save replaces at once, at the put of the         *)
(* manifest, or not at all.                                                *)
ImplementsDurableRooms ==
  Promise!Init /\ [][Promise!Next \/ Overlooks \/ CleansStored]_(Promise!vars)

(* What ENCRYPTED_STORAGE_MIGRATION.md, lines 42 to 44, says of a          *)
(* migration: the complete state is in the vault before a plaintext file   *)
(* is deleted.  Stated without Overlooks it does not hold, and neither     *)
(* does it for the second of two files.                                    *)
DeletedAfterMigration ==
  [][pc = "retire" /\ mode = "migrate" => \A f \in {scoped, legacy} \ {scoped', legacy', Absent} :
       f = manifest.snapshot]_vars

=============================================================================
