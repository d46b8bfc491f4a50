--------------------------- MODULE RoomVaultProofs ---------------------------
(***************************************************************************)
(* Proofs about RoomVault for every set of snapshots, chunk count, set of  *)
(* generations and set of puts whose replies may be lost.                  *)
(***************************************************************************)
EXTENDS RoomVault, TLAPS

(* What a save in progress keeps true: the chunks counted by written are   *)
(* there, the generation is not the one the manifest names until the       *)
(* manifest is put (or has been put with its reply lost), and the replaced *)
(* generation is never the current one.                                    *)
SaveInv ==
  /\ pc = "cleanup" /\ manifest # Absent /\ ~unconfirmed
       => manifest.generation # generation
  /\ pc = "chunks"
       => /\ manifest # Absent => manifest.generation # generation
          /\ previous = manifest
          /\ next = 0
          /\ written <= ChunkCount[draft]
          /\ \A i \in 1..written : chunks[<<generation, i>>] = draft
  /\ pc = "retire"
       => /\ manifest = NewManifest
          /\ ~unconfirmed
          /\ previous # Absent => previous.generation # generation
          /\ next <= RetireCount
  /\ pc = "cleanup" => next <= written

(* A migration runs while nothing is in the vault.                         *)
MigrateInv == pc = "chunks" /\ mode = "migrate" => manifest = Absent

(* Only a stored manifest can have lost its put's reply.                   *)
UnconfirmedInv == unconfirmed => manifest # Absent

VaultInv == TypeOK /\ VaultReadable /\ SaveInv /\ MigrateInv /\ UnconfirmedInv

-----------------------------------------------------------------------------
(* Both callers of save_encrypted_rooms give it a snapshot.                *)
LEMMA SaveBegins ==
  ASSUME TypeOK, Migrate \/ \E s \in Snapshots : Persist(s)
  PROVE  \E s \in Snapshots, own \in BOOLEAN, caller \in {"persist", "migrate"} :
           BeginSave(caller, own, s)
<1>1. CASE Migrate
  <2>1. PICK own \in BOOLEAN, found \in {scoped, legacy} :
          found # Absent /\ \E rooms \in LoadRooms(found) : BeginSave("migrate", own, rooms)
    BY <1>1 DEF Migrate
  <2>2. found \in Snapshots /\ Empty \in Snapshots
    BY VaultAssumption, <2>1 DEF TypeOK
  <2> QED
    BY <2>1, <2>2 DEF LoadRooms
<1>2. CASE \E s \in Snapshots : Persist(s)
  BY <1>2 DEF Persist
<1> QED
  BY <1>1, <1>2

(* The variables keep their types: room_engine.cpp's counters stay within  *)
(* the chunk counts and a save under way always has a generation.          *)
LEMMA NextTypeOK == TypeOK /\ [Next]_vars => TypeOK'
<1> SUFFICES ASSUME TypeOK, [Next]_vars
             PROVE  TypeOK'
  OBVIOUS
<1> USE VaultAssumption DEF TypeOK, daemon, files, locals, RemoveScoped, RemoveLegacy
<1>1. CASE LoadVault
  BY <1>1 DEF LoadVault, Manifests
<1>2. CASE LoadNothing
  BY <1>2 DEF LoadNothing
<1>3. CASE Migrate \/ \E s \in Snapshots : Persist(s)
  <2>1. PICK s \in Snapshots, own \in BOOLEAN, caller \in {"persist", "migrate"} :
          BeginSave(caller, own, s)
    BY <1>3, SaveBegins
  <2>2. /\ owns' \in BOOLEAN
        /\ UNCHANGED <<manifest, chunks, scoped, legacy, faulted, unconfirmed>>
    BY <2>1 DEF BeginSave
  <2> QED
    BY <2>1, <2>2 DEF BeginSave
<1>5. CASE PutChunk
  <2>1. written + 1 \in 0..MaxChunks
    BY <1>5 DEF PutChunk
  <2> QED
    BY <1>5, <2>1 DEF PutChunk
<1>6. CASE PutChunkFails
  BY <1>6 DEF PutChunkFails
<1>7. CASE PutManifest
  BY <1>7 DEF PutManifest, NewManifest, Manifests
<1>8. CASE PutManifestFails
  <2>1. manifest' \in Manifests \cup {Absent}
    BY <1>8 DEF PutManifestFails, NewManifest, Manifests
  <2>3. unconfirmed' \in BOOLEAN
    BY <1>8 DEF PutManifestFails
  <2>4. faulted' \in BOOLEAN
    BY <1>8 DEF PutManifestFails
  <2>2. /\ UNCHANGED <<chunks, scoped, legacy, mode, owns, draft, generation, previous, written,
                       next>>
        /\ pc' = "cleanup" /\ generation \in Generations
    BY <1>8 DEF PutManifestFails
  <2> QED
    BY <2>1, <2>2, <2>3, <2>4
<1>9. CASE DropWritten
  <2>1. next + 1 \in 0..MaxChunks
    BY <1>9 DEF DropWritten
  <2> QED
    BY <1>9, <2>1 DEF DropWritten, DeleteChunk
<1>10. CASE Rethrow
  BY <1>10 DEF Rethrow
<1>11. CASE RetireChunk
  <2>1. RetireCount \in 0..MaxChunks
    BY DEF RetireCount, Manifests
  <2>2. next + 1 \in 0..MaxChunks
    BY <1>11, <2>1 DEF RetireChunk
  <2> QED
    BY <1>11, <2>2 DEF RetireChunk, DeleteChunk
<1>12. CASE FinishSave
  BY <1>12 DEF FinishSave
<1>13. CASE Stop
  BY <1>13 DEF Stop
<1>14. CASE UNCHANGED vars
  BY <1>14 DEF vars
<1> QED
  BY <1>1, <1>2, <1>3, <1>5, <1>6, <1>7, <1>8, <1>9, <1>10, <1>11, <1>12,
     <1>13, <1>14 DEF Next, LoadFails

LEMMA InitVaultInv == Init => VaultInv
<1> SUFFICES ASSUME Init
             PROVE  VaultInv
  OBVIOUS
<1>1. TypeOK
  <2>1. chunks \in [Keys -> Snapshots \cup {Absent}]
    BY DEF Init
  <2>2. 0 \in 0..MaxChunks
    BY VaultAssumption
  <2> QED
    BY <2>1, <2>2, VaultAssumption DEF Init, TypeOK
<1>2. VaultReadable /\ SaveInv /\ MigrateInv /\ UnconfirmedInv
  BY DEF Init, VaultReadable, SaveInv, MigrateInv, UnconfirmedInv
<1> QED
  BY <1>1, <1>2 DEF VaultInv

(* Every chunk a confirmed manifest names is still there after a step: a   *)
(* put goes to another generation, and so does every delete.               *)
LEMMA NextVaultReadable ==
  ASSUME VaultInv, [Next]_vars
  PROVE  VaultReadable'
<1> USE VaultAssumption DEF VaultInv, TypeOK, VaultReadable, Readable, Manifests, Keys,
                            daemon, files, locals
<1>1. CASE UNCHANGED <<manifest, chunks, unconfirmed>>
  BY <1>1
<1>2. CASE PutChunk \/ PutChunkFails
  BY <1>2 DEF PutChunk, PutChunkFails, SaveInv
<1>3. CASE PutManifest
  BY <1>3 DEF PutManifest, NewManifest, SaveInv
<1>4. CASE PutManifestFails
  BY <1>4 DEF PutManifestFails
<1>5. CASE DropWritten
  BY <1>5 DEF DropWritten, DeleteChunk, SaveInv
<1>6. CASE RetireChunk
  <2>1. previous # Absent
    BY <1>6 DEF RetireChunk, RetireCount
  <2>2. manifest.generation # previous.generation
    BY <1>6, <2>1 DEF RetireChunk, SaveInv, NewManifest
  <2> QED
    BY <1>6, <2>1, <2>2 DEF RetireChunk, DeleteChunk
<1> QED
  BY <1>1, <1>2, <1>3, <1>4, <1>5, <1>6
  DEF Next, vars, LoadVault, LoadNothing, LoadFails, Migrate, Persist, BeginSave,
      Rethrow, FinishSave, Stop

(* The save keeps counting the chunks it has stored, and keeps its         *)
(* generation apart from the one the manifest names.                       *)
LEMMA NextSaveInv ==
  ASSUME VaultInv, [Next]_vars
  PROVE  SaveInv'
<1> USE VaultAssumption DEF VaultInv, TypeOK, SaveInv, Manifests, Keys, daemon, files, locals
<1>1. CASE LoadVault \/ LoadNothing \/ Rethrow \/ FinishSave \/ Stop
  BY <1>1 DEF LoadVault, LoadNothing, Rethrow, FinishSave, Stop
<1>2. CASE Migrate \/ \E s \in Snapshots : Persist(s)
  <2>1. PICK s \in Snapshots, own \in BOOLEAN, caller \in {"persist", "migrate"} :
          BeginSave(caller, own, s)
    BY <1>2, SaveBegins
  <2> QED
    BY <2>1 DEF BeginSave, Fresh
<1>3. CASE PutChunk
  <2>1. /\ pc = "chunks" /\ pc' = "chunks" /\ written' = written + 1
        /\ UNCHANGED <<manifest, previous, next, draft, generation>>
    BY <1>3 DEF PutChunk
  <2>2. written' <= ChunkCount[draft]
    BY <1>3 DEF PutChunk
  <2>3. ASSUME NEW i \in 1..written'
        PROVE  chunks'[<<generation, i>>] = draft
    BY <1>3, <2>2, <2>3 DEF PutChunk
  <2> QED
    BY <2>1, <2>2, <2>3
<1>4. CASE PutChunkFails
  BY <1>4 DEF PutChunkFails
<1>5. CASE PutManifest
  <2>1. RetireCount' \in Nat
    BY <1>5 DEF PutManifest, RetireCount
  <2> QED
    BY <1>5, <2>1 DEF PutManifest, NewManifest
<1>6. CASE PutManifestFails
  BY <1>6 DEF PutManifestFails
<1>7. CASE DropWritten
  BY <1>7 DEF DropWritten, DeleteChunk
<1>8. CASE RetireChunk
  <2>1. RetireCount' = RetireCount /\ RetireCount \in Nat
    BY <1>8 DEF RetireChunk, DeleteChunk, RetireCount
  <2> QED
    BY <1>8, <2>1 DEF RetireChunk, DeleteChunk, NewManifest
<1>9. CASE UNCHANGED vars
  BY <1>9 DEF vars, NewManifest, RetireCount
<1> QED
  BY <1>1, <1>2, <1>3, <1>4, <1>5, <1>6, <1>7, <1>8, <1>9 DEF Next, LoadFails

LEMMA NextMigrateInv ==
  ASSUME VaultInv, [Next]_vars
  PROVE  MigrateInv' /\ UnconfirmedInv'
BY VaultAssumption
DEF VaultInv, MigrateInv, UnconfirmedInv, TypeOK, Manifests, NewManifest, Next, vars, daemon,
    files, locals, LoadVault, LoadNothing, LoadFails, Migrate, Persist, BeginSave, PutChunk,
    PutChunkFails, PutManifest, PutManifestFails, DropWritten, Rethrow, RetireChunk,
    FinishSave, Stop, DeleteChunk

(* VaultInv is inductive, hence an invariant.                              *)
THEOREM VaultInvariant == Spec => []VaultInv
<1>1. VaultInv /\ [Next]_vars => VaultInv'
  BY NextTypeOK, NextVaultReadable, NextSaveInv, NextMigrateInv DEF VaultInv
<1> QED
  BY InitVaultInv, <1>1, PTL DEF Spec

(* Whatever requests of save_encrypted_rooms fail, whatever replies to     *)
(* them are lost and wherever the process stops, the manifest names a      *)
(* complete set of chunks, unless it was itself stored by a put that threw.*)
THEOREM VaultAlwaysReadable == Spec => []VaultReadable
BY VaultInvariant, PTL DEF VaultInv

-----------------------------------------------------------------------------
(* The chunks of the generation being retired that are still to be deleted. *)
Retiring(k) ==
  /\ pc = "retire"
  /\ previous # Absent
  /\ k[1] = previous.generation
  /\ next < k[2]
  /\ k[2] <= RetireCount

(* The chunks the save in progress has counted.                            *)
Counted(k) == pc = "chunks" /\ k[1] = generation /\ k[2] <= written

Named(k) ==
  /\ manifest # Absent
  /\ k[1] = manifest.generation
  /\ k[2] <= ChunkCount[manifest.snapshot]

(* While no request has failed and no save was cut off, every chunk has an *)
(* owner: the manifest, the save that is putting it, or the delete loop    *)
(* that has not come to it yet.                                            *)
GarbageInv ==
  ~faulted =>
    /\ pc # "cleanup"
    /\ pc = "chunks" => previous = manifest /\ next = 0
    /\ pc = "retire" => manifest = NewManifest
    /\ \A k \in Keys : chunks[k] # Absent => Named(k) \/ Counted(k) \/ Retiring(k)

LEMMA NextGarbageInv == TypeOK /\ GarbageInv /\ [Next]_vars => GarbageInv'
<1> SUFFICES ASSUME TypeOK, GarbageInv, [Next]_vars, ~faulted'
             PROVE  /\ pc' # "cleanup"
                    /\ pc' = "chunks" => previous' = manifest' /\ next' = 0
                    /\ pc' = "retire" => manifest' = NewManifest'
                    /\ \A k \in Keys : chunks'[k] # Absent
                         => Named(k)' \/ Counted(k)' \/ Retiring(k)'
  BY DEF GarbageInv
<1> USE VaultAssumption DEF TypeOK, Manifests, Keys, daemon, files, locals
<1>1. ~faulted
  BY DEF Next, vars, LoadVault, LoadNothing, LoadFails, Migrate, Persist, BeginSave, PutChunk,
         PutChunkFails, PutManifest, PutManifestFails, DropWritten, Rethrow, RetireChunk,
         DeleteChunk, FinishSave, Stop
<1>2. /\ pc # "cleanup"
      /\ pc = "chunks" => previous = manifest /\ next = 0
      /\ pc = "retire" => manifest = NewManifest
      /\ \A k \in Keys : chunks[k] # Absent => Named(k) \/ Counted(k) \/ Retiring(k)
  BY <1>1 DEF GarbageInv
<1>3. CASE LoadVault \/ LoadNothing \/ Stop
  BY <1>2, <1>3 DEF LoadVault, LoadNothing, Stop, Named, Counted, Retiring
<1>4. CASE Migrate \/ \E s \in Snapshots : Persist(s)
  BY <1>2, <1>4 DEF Migrate, Persist, BeginSave, Named, Counted, Retiring
<1>5. CASE PutChunk
  <2>1. ASSUME NEW k \in Keys, chunks'[k] # Absent, chunks[k] = Absent
        PROVE  Counted(k)'
    BY <1>5, <2>1 DEF PutChunk, Counted
  <2>2. ASSUME NEW k \in Keys, chunks[k] # Absent
        PROVE  Named(k)' \/ Counted(k)'
    BY <1>2, <1>5, <2>2 DEF PutChunk, Named, Counted, Retiring
  <2> QED
    BY <1>2, <1>5, <2>1, <2>2 DEF PutChunk
<1>6. CASE PutManifest
  <2>1. ASSUME NEW k \in Keys, chunks'[k] # Absent
        PROVE  Named(k)' \/ Retiring(k)'
    <3>1. CASE Named(k)
      BY <1>2, <1>6, <3>1 DEF PutManifest, Named, Retiring, RetireCount
    <3>2. CASE Counted(k)
      BY <1>2, <1>6, <3>2 DEF PutManifest, NewManifest, Named, Counted
    <3> QED
      BY <1>2, <1>6, <2>1, <3>1, <3>2 DEF PutManifest, Retiring
  <2> QED
    BY <1>6, <2>1 DEF PutManifest, NewManifest
<1>7. CASE RetireChunk
  <2>1. ASSUME NEW k \in Keys, chunks'[k] # Absent
        PROVE  Named(k)' \/ Retiring(k)'
    <3>1. chunks' = [chunks EXCEPT ![<<previous.generation, next + 1>>] = Absent]
      BY <1>1, <1>7 DEF RetireChunk, DeleteChunk
    <3>2. chunks[k] # Absent /\ k # <<previous.generation, next + 1>>
      BY <2>1, <3>1
    <3>3. RetireCount' = RetireCount /\ RetireCount \in Nat
      BY <1>7 DEF RetireChunk, DeleteChunk, RetireCount
    <3>4. CASE Named(k)
      BY <1>7, <3>4 DEF RetireChunk, DeleteChunk, Named
    <3>5. CASE Retiring(k)
      <4>1. UNCHANGED <<pc, previous>> /\ next' = next + 1 /\ next \in Nat
        BY <1>7 DEF RetireChunk, DeleteChunk
      <4>2. /\ pc = "retire" /\ previous # Absent /\ k[1] = previous.generation
            /\ next < k[2] /\ k[2] <= RetireCount
        BY <3>5 DEF Retiring
      <4>3. k[2] \in Nat /\ k = <<k[1], k[2]>>
        OBVIOUS
      <4>4. next + 1 < k[2]
        BY <3>2, <4>1, <4>2, <4>3
      <4> HIDE DEF TypeOK
      <4> QED
        BY <3>3, <4>1, <4>2, <4>4 DEF Retiring
    <3> QED
      BY <1>2, <1>7, <3>2, <3>4, <3>5 DEF RetireChunk, Counted
  <2> QED
    BY <1>2, <1>7, <2>1 DEF RetireChunk, DeleteChunk, NewManifest
<1>8. CASE FinishSave
  BY <1>2, <1>8 DEF FinishSave, Named, Counted, Retiring, RetireCount
<1>9. CASE PutChunkFails \/ PutManifestFails \/ DropWritten \/ Rethrow
  BY <1>2, <1>9 DEF PutChunkFails, PutManifestFails, DropWritten, Rethrow
<1>10. CASE UNCHANGED vars
  BY <1>2, <1>10 DEF vars, NewManifest, Named, Counted, Retiring, RetireCount
<1> QED
  BY <1>3, <1>4, <1>5, <1>6, <1>7, <1>8, <1>9, <1>10 DEF Next, LoadFails

(* Whatever replies are lost: chunks have owners until something fails.    *)
THEOREM GarbageInvariant == Spec => [](TypeOK /\ GarbageInv)
<1>1. Init => TypeOK /\ GarbageInv
  BY InitVaultInv DEF VaultInv, Init, GarbageInv
<1>2. TypeOK /\ GarbageInv /\ [Next]_vars => (TypeOK /\ GarbageInv)'
  BY NextTypeOK, NextGarbageInv
<1> QED
  BY <1>1, <1>2, PTL DEF Spec

(* The vault's variables keep their types, lost replies or not.            *)
THEOREM VaultTypeCorrect == Spec => []TypeOK
BY GarbageInvariant, PTL

(* The delete loop of save_encrypted_rooms leaves nothing behind: between  *)
(* saves, none of which was cut off or had a request fail, the vault holds *)
(* the chunks of its manifest and no other.                                *)
THEOREM NothingLeftBehind == Spec => []NoGarbageWithoutFault
<1>1. TypeOK /\ GarbageInv => NoGarbageWithoutFault
  <2> SUFFICES ASSUME TypeOK, GarbageInv, pc \in {"ready", "offline"}, ~faulted,
                      NEW k \in Keys, chunks[k] # Absent
               PROVE  Named(k)
    BY VaultAssumption DEF NoGarbageWithoutFault, Orphans, Named, TypeOK, Manifests, Keys
  <2> QED
    BY DEF GarbageInv, Counted, Retiring
<1> QED
  BY <1>1, GarbageInvariant, PTL

-----------------------------------------------------------------------------
(* The refinement.  While the vault is readable, what a connection would   *)
(* be given does not depend on the chunks.                                 *)
Stored == IF manifest # Absent THEN manifest.snapshot ELSE Plaintext

LEMMA DurableIsStored ==
  /\ VaultInv /\ ~unconfirmed => Durable = Stored /\ Durable \in Snapshots
  /\ TypeOK /\ manifest = Absent => Durable = Plaintext /\ Durable \in Snapshots
BY VaultAssumption
DEF VaultInv, TypeOK, VaultReadable, Durable, Stored, Plaintext, Manifests

LEMMA RefinementInit == Init => Promise!Init
<1> SUFFICES ASSUME Init
             PROVE  Promise!Init
  OBVIOUS
<1>1. Durable \in Snapshots
  BY InitVaultInv, DurableIsStored DEF Init
<1>2. ~Connected
  BY DEF Init, Connected
<1> QED
  BY <1>1, <1>2 DEF Promise!Init

(* A step that leaves the manifest and its chunks, and the files until     *)
(* there is a manifest, changes nothing about what is stored.              *)
LEMMA SameDurable ==
  ASSUME UNCHANGED daemon, manifest = Absent => UNCHANGED files
  PROVE  Durable' = Durable
BY DEF Durable, Plaintext, Readable, daemon, files

(* The put of the manifest is the commit; chunk puts, deletes, and the     *)
(* clean-up and migration outside the exceptions are stuttering steps.     *)
LEMMA RefinementStep ==
  ASSUME VaultInv, VaultInv', [Next]_vars
  PROVE  [Promise!Next \/ Overlooks \/ CleansStored]_(Promise!vars)
<1> USE DEF daemon, files, locals, Connected
<1>1. CASE LoadVault
  <2>1. Durable' = Durable /\ Durable = manifest.snapshot
    BY <1>1, SameDurable DEF LoadVault, Durable
  <2> QED
    BY <1>1, <2>1 DEF LoadVault, Promise!Next, Promise!Open
<1>2. CASE LoadNothing
  <2>1. Durable' = Durable /\ Durable = Plaintext
    BY <1>2, SameDurable DEF LoadNothing, Durable
  <2>2. CASE draft' = Plaintext
    BY <1>2, <2>1, <2>2 DEF LoadNothing, Promise!Next, Promise!Open
  <2>3. CASE draft' # Plaintext
    BY <1>2, <2>1, <2>3 DEF LoadNothing, Overlooks
  <2> QED
    BY <2>2, <2>3
<1>3. CASE Migrate
  <2>1. Durable' = Durable
    BY <1>3, SameDurable DEF Migrate, BeginSave
  <2> QED
    BY <1>3, <2>1 DEF Migrate, BeginSave, Promise!vars
<1>4. ASSUME NEW s \in Snapshots, Persist(s)
      PROVE  Promise!Next
  <2>1. Durable' = Durable
    BY <1>4, SameDurable DEF Persist, BeginSave
  <2>2. Promise!Submit(s)
    BY <1>4, <2>1 DEF Persist, BeginSave, Promise!Submit
  <2> QED
    BY <2>2 DEF Promise!Next
<1>5. ASSUME PutChunk \/ PutChunkFails, ~CleansStored
      PROVE  UNCHANGED Promise!vars
  <2>1. Durable' = Durable
    <3>1. UNCHANGED <<manifest, scoped, legacy, unconfirmed>>
      BY <1>5 DEF PutChunk, PutChunkFails
    <3>2. CASE manifest = Absent
      BY <3>1, <3>2 DEF Durable, Plaintext
    <3>3. CASE manifest # Absent
      <4>1. manifest.generation # generation
        BY <1>5, <3>3 DEF PutChunk, PutChunkFails, VaultInv, SaveInv
      <4>2. \/ UNCHANGED chunks
            \/ chunks' = [chunks EXCEPT ![<<generation, written + 1>>] = draft]
        BY <1>5 DEF PutChunk, PutChunkFails
      <4>3. ASSUME NEW i \in 1..MaxChunks
            PROVE  chunks'[<<manifest.generation, i>>] = chunks[<<manifest.generation, i>>]
        <5>1. <<manifest.generation, i>> \in Keys
          BY <3>3, <4>3, VaultAssumption DEF VaultInv, TypeOK, Manifests, Keys
        <5> QED
          BY <4>1, <4>2, <5>1 DEF VaultInv, TypeOK
      <4>4. 1..ChunkCount[manifest.snapshot] \subseteq 1..MaxChunks
        BY <3>3, VaultAssumption DEF VaultInv, TypeOK, Manifests
      <4>5. Readable(manifest)' = Readable(manifest)
        BY <3>1, <4>3, <4>4 DEF Readable
      <4> QED
        BY <3>1, <3>3, <4>5 DEF Durable
    <3> QED
      BY <3>2, <3>3
  <2> QED
    BY <1>5, <2>1 DEF PutChunk, PutChunkFails, Promise!vars
<1>6. CASE PutManifest
  <2>1. Durable' = draft /\ draft \in Snapshots
    <3>1. manifest' # Absent /\ manifest'.snapshot = draft /\ ~unconfirmed'
      BY <1>6, VaultAssumption
      DEF PutManifest, NewManifest, VaultInv, TypeOK, Manifests
    <3>2. Durable' = manifest'.snapshot
      BY <3>1 DEF Durable, VaultInv, VaultReadable
    <3> QED
      BY <3>1, <3>2 DEF VaultInv, TypeOK
  <2>2. CASE mode = "persist"
    BY <1>6, <2>1, <2>2 DEF PutManifest, Promise!Next, Promise!Commit
  <2>3. CASE mode = "migrate" /\ draft = Plaintext
    <3>1. Durable = draft
      BY <1>6, <2>3 DEF PutManifest, VaultInv, MigrateInv, Durable
    <3> QED
      BY <1>6, <2>1, <2>3, <3>1 DEF PutManifest, Promise!vars
  <2>4. CASE mode = "migrate" /\ draft # Plaintext
    BY <1>6, <2>1, <2>4 DEF PutManifest, VaultInv, MigrateInv, Overlooks
  <2> QED
    BY <2>2, <2>3, <2>4 DEF VaultInv, TypeOK
<1>7. CASE PutManifestFails
  <2>1. CASE UNCHANGED manifest
    <3>1. Durable' = Durable
      BY <1>7, <2>1, SameDurable DEF PutManifestFails
    <3> QED
      BY <1>7, <3>1 DEF PutManifestFails, Promise!vars
  <2>2. CASE ~UNCHANGED manifest
    <3>1. /\ manifest' = NewManifest /\ unconfirmed' /\ pc' = "cleanup"
          /\ UNCHANGED draft
      BY <1>7, <2>2 DEF PutManifestFails
    <3>2. manifest' # Absent /\ manifest'.snapshot = draft
      BY <1>7, <3>1, VaultAssumption
      DEF PutManifestFails, NewManifest, VaultInv, TypeOK, Manifests
    <3> QED
      BY <3>1, <3>2 DEF CleansStored, Durable
  <2> QED
    BY <2>1, <2>2
<1>8. CASE DropWritten
  <2>1. CASE unconfirmed
    <3>1. Durable' = Durable \/ Durable' = Absent
      <4>1. UNCHANGED manifest /\ manifest # Absent
        BY <1>8, <2>1 DEF DropWritten, DeleteChunk, VaultInv, UnconfirmedInv
      <4>2. Readable(manifest)' => Readable(manifest)
        <5>1. ASSUME NEW k \in Keys, chunks'[k] # Absent
              PROVE  chunks'[k] = chunks[k]
          BY <1>8, <5>1 DEF DropWritten, DeleteChunk, VaultInv, TypeOK
        <5>2. manifest \in Manifests
          BY <4>1 DEF VaultInv, TypeOK
        <5> QED
          BY <4>1, <5>1, <5>2, VaultAssumption DEF Readable, Keys, Manifests
      <4> QED
        BY <4>1, <4>2 DEF Durable
    <3>2. CASE Durable' = Durable
      BY <1>8, <3>2 DEF DropWritten, DeleteChunk, Promise!vars
    <3>3. CASE Durable' = Absent
      BY <1>8, <2>1, <3>3 DEF DropWritten, DeleteChunk, CleansStored
    <3> QED
      BY <3>1, <3>2, <3>3
  <2>2. CASE ~unconfirmed
    <3>1. ~unconfirmed' /\ Stored' = Stored
      BY <1>8, <2>2 DEF DropWritten, DeleteChunk, Stored, Plaintext
    <3>2. Durable = Stored
      BY <2>2, DurableIsStored
    <3>3. Durable' = Stored'
      BY <3>1 DEF VaultInv, VaultReadable, Durable, Stored
    <3> QED
      BY <1>8, <3>1, <3>2, <3>3 DEF DropWritten, DeleteChunk, Promise!vars
  <2> QED
    BY <2>1, <2>2
<1>9. CASE RetireChunk
  <2>1. ~unconfirmed /\ ~unconfirmed' /\ Stored' = Stored
    BY <1>9 DEF RetireChunk, DeleteChunk, VaultInv, SaveInv, Stored, Plaintext
  <2>2. Durable = Stored
    BY <2>1, DurableIsStored
  <2>3. Durable' = Stored'
    BY <2>1 DEF VaultInv, VaultReadable, Durable, Stored
  <2> QED
    BY <1>9, <2>1, <2>2, <2>3 DEF RetireChunk, DeleteChunk, Promise!vars
<1>10. CASE Rethrow
  <2>1. Durable' = Durable
    BY <1>10, SameDurable DEF Rethrow
  <2> QED
    BY <1>10, <2>1 DEF Rethrow, Promise!Next, Promise!Return, Promise!vars, VaultInv, TypeOK
<1>11. CASE FinishSave
  <2>1. manifest # Absent /\ draft = manifest.snapshot /\ ~unconfirmed
    BY <1>11, VaultAssumption DEF FinishSave, VaultInv, TypeOK, SaveInv, NewManifest, Manifests
  <2>2. Durable' = Durable /\ Durable = draft
    BY <1>11, <2>1, SameDurable DEF FinishSave, VaultInv, VaultReadable, Durable
  <2>3. CASE mode = "persist"
    BY <1>11, <2>2, <2>3 DEF FinishSave, Promise!Next, Promise!Return
  <2>4. CASE mode = "migrate"
    BY <1>11, <2>2, <2>4 DEF FinishSave, Promise!Next, Promise!Open
  <2> QED
    BY <2>3, <2>4 DEF VaultInv, TypeOK
<1>12. CASE Stop
  <2>1. Durable' = Durable
    BY <1>12, SameDurable DEF Stop
  <2> QED
    BY <1>12, <2>1 DEF Stop, Promise!Next, Promise!Close, Promise!vars
<1>13. CASE UNCHANGED vars
  BY <1>13 DEF vars, Durable, Plaintext, Readable, Promise!vars
<1> QED
  BY <1>1, <1>2, <1>3, <1>4, <1>5, <1>6, <1>7, <1>8, <1>9, <1>10, <1>11, <1>12, <1>13
  DEF Next, LoadFails

(* save_encrypted_rooms and the migration implement a snapshot that is     *)
(* replaced in one step or not at all, whatever replies are lost, but for  *)
(* the steps Overlooks and CleansStored name.                              *)
THEOREM VaultImplementsDurableRooms == Spec => ImplementsDurableRooms
<1>1. VaultInv /\ VaultInv' /\ [Next]_vars
        => [Promise!Next \/ Overlooks \/ CleansStored]_(Promise!vars)
  BY RefinementStep
<1> QED
  BY RefinementInit, <1>1, VaultInvariant, PTL DEF Spec, ImplementsDurableRooms

=============================================================================
