------------------------- MODULE AndroidRoomProofs -------------------------
(***************************************************************************)
(* Proofs about AndroidRoom: whatever copies the coroutines write back and *)
(* in whatever order, the room forgets nothing, only its own failures      *)
(* pause it, and the store takes back nothing it has published.            *)
(***************************************************************************)
EXTENDS AndroidRoom, TLAPS

(* A Room object whose hidden messages are messages.                       *)
Sound(r) == r \in RoomStates /\ r.hidden \subseteq r.messages

CopiesSound == \A c \in Coroutines : Sound(copy[c]) /\ Sound(base[c])

-----------------------------------------------------------------------------
(* The operators on Room objects.                                          *)
LEMMA EmptyRoomSound == Sound(EmptyRoom)
  BY AndroidRoomAssumption DEF Sound, EmptyRoom, RoomStates

LEMMA MergeSound ==
  ASSUME NEW r, NEW s, Sound(r), Sound(s)
  PROVE  Sound(Merge(r, s))
  BY AndroidRoomAssumption DEF Sound, Merge, Larger, RoomStates

LEMMA WithMessageSound ==
  ASSUME NEW r, NEW e \in Events, Sound(r)
  PROVE  Sound(WithMessage(r, e))
  BY DEF Sound, WithMessage, RoomStates

LEMMA WithTombstoneSound ==
  ASSUME NEW r, NEW e \in Events, Sound(r)
  PROVE  Sound(WithTombstone(r, e))
  BY DEF Sound, WithTombstone, RoomStates

LEMMA AppliedSound ==
  ASSUME NEW r, NEW tombstones \in SUBSET Events, Sound(r)
  PROVE  Sound(Applied(r, tombstones))
  BY DEF Sound, Applied, RoomStates

LEMMA GenerationSound ==
  ASSUME NEW r, NEW g \in 0..MaxGeneration, Sound(r)
  PROVE  Sound([r EXCEPT !.generation = g])
  BY DEF Sound, RoomStates

(* noteRoomFailure's room.                                                 *)
LEMMA FailureSound ==
  ASSUME NEW r, NEW s, Sound(r), r.failures + 1 \in 0..FailureLimit,
         s = [r EXCEPT !.failures = @ + 1, !.suspended = r.failures + 1 >= FailureLimit]
  PROVE  /\ Sound(s)
         /\ s.failures = r.failures + 1
         /\ s.suspended <=> r.failures + 1 >= FailureLimit
<1>1. s.suspended \in BOOLEAN
  BY DEF Sound, RoomStates
<1>2. s.suspended <=> r.failures + 1 >= FailureLimit
  BY DEF Sound, RoomStates
<1>3. /\ s.failures = r.failures + 1
      /\ s.messages = r.messages
      /\ s.hidden = r.hidden
      /\ s.tombstones = r.tombstones
      /\ s.generation = r.generation
  BY DEF Sound, RoomStates
<1>4. s = [messages |-> s.messages, hidden |-> s.hidden, tombstones |-> s.tombstones,
           generation |-> s.generation, failures |-> s.failures, suspended |-> s.suspended]
  BY DEF Sound, RoomStates
<1>5. Sound(s)
  BY <1>1, <1>3, <1>4 DEF Sound, RoomStates
<1> QED
  BY <1>2, <1>3, <1>5

(* noteRoomSuccess's room, and retrySelectedRoom's.                        *)
LEMMA SuccessSound ==
  ASSUME NEW r, NEW s, Sound(r), s = [r EXCEPT !.failures = 0, !.suspended = FALSE]
  PROVE  Sound(s) /\ s.failures = 0 /\ ~s.suspended
<1>0. r \in RoomStates
  BY DEF Sound
<1>1. s.suspended \in BOOLEAN
  BY <1>0 DEF RoomStates
<1>2. ~s.suspended
  BY <1>0 DEF RoomStates
<1>3. /\ s.failures = 0
      /\ s.messages = r.messages
      /\ s.hidden = r.hidden
      /\ s.tombstones = r.tombstones
      /\ s.generation = r.generation
  BY <1>0 DEF RoomStates
<1>4. s = [messages |-> s.messages, hidden |-> s.hidden, tombstones |-> s.tombstones,
           generation |-> s.generation, failures |-> s.failures, suspended |-> s.suspended]
  BY <1>0 DEF RoomStates
<1>5. 0 \in 0..FailureLimit
  BY AndroidRoomAssumption
<1>6. s \in RoomStates
  BY <1>0, <1>1, <1>3, <1>4, <1>5 DEF RoomStates
<1> QED
  BY <1>2, <1>3, <1>6 DEF Sound

(* A merge keeps what the room has.                                        *)
LEMMA MergeKeeps ==
  ASSUME NEW r, NEW s
  PROVE  /\ r.messages \subseteq Merge(r, s).messages
         /\ r.hidden \subseteq Merge(r, s).hidden
         /\ r.tombstones \subseteq Merge(r, s).tombstones
         /\ Merge(r, s).failures = r.failures
         /\ Merge(r, s).suspended = r.suspended
  BY DEF Merge

-----------------------------------------------------------------------------
(* What every step goes through: one coroutine, or Retry.                  *)
CoroutineStep(c) ==
  \/ \E e \in Events : ReceiveChat(c, e) \/ ReceiveDelete(c, e)
  \/ ApplyChat(c) \/ ApplyDelete(c) \/ NoteSuccess(c) \/ NoteFailure(c)
  \/ Persist(c) \/ PersistReturns(c) \/ PersistFails(c) \/ Relay(c)
  \/ StartSync(c) \/ ReadManifest(c) \/ Replay(c) \/ PagesDone(c) \/ EndSync(c)
  \/ SyncFails(c)
  \/ StartOther(c) \/ EndOther(c)

(* The pause, and the count it is made from.                               *)
PauseCounted == streak = room.failures /\ PauseIsLocal

RoomInv == TypeOK /\ CopiesSound /\ PauseCounted

LEMMA InitRoomInv == Init => RoomInv
<1> SUFFICES ASSUME Init PROVE RoomInv
  OBVIOUS
<1>1. Sound(room) /\ CopiesSound
  BY EmptyRoomSound DEF Init, CopiesSound
<1>2. TypeOK
  BY <1>1, AndroidRoomAssumption, EmptyRoomSound DEF Init, TypeOK, Sound, Steps
<1>3. PauseCounted
  BY AndroidRoomAssumption DEF Init, PauseCounted, PauseIsLocal, EmptyRoom
<1> QED
  BY <1>1, <1>2, <1>3 DEF RoomInv

(* What a coroutine writes back is merged into the room, or it counts a    *)
(* failure or a success there.                                             *)
Written(r) == room' = Merge(room, r) /\ streak' = streak

Counted ==
  \/ /\ room' = [room EXCEPT !.failures = 0, !.suspended = FALSE]
     /\ streak' = 0
  \/ /\ ~room.suspended
     /\ room' = [room EXCEPT !.failures = @ + 1,
                             !.suspended = room.failures + 1 >= FailureLimit]
     /\ streak' = streak + 1

LEMMA RoomSteps ==
  ASSUME RoomInv, [Next]_vars
  PROVE  \/ UNCHANGED <<room, streak>>
         \/ \E r \in RoomStates : Sound(r) /\ Written(r)
         \/ Counted
<1>1. CASE UNCHANGED vars
  BY <1>1 DEF vars
<1>2. CASE Retry
  BY <1>2, AndroidRoomAssumption DEF Retry, Counted, RoomInv, TypeOK, RoomStates
<1>3. ASSUME NEW c \in Coroutines, CoroutineStep(c)
      PROVE  \/ UNCHANGED <<room, streak>>
             \/ \E r \in RoomStates : Sound(r) /\ Written(r)
             \/ Counted
  <2>1. Sound(copy[c]) /\ Sound(base[c])
    BY DEF RoomInv, CopiesSound
  <2>2. CASE ApplyChat(c)
    <3>1. PICK e \in event[c] :
            (UNCHANGED room) \/ room' = Merge(room, WithMessage(copy[c], e))
      BY <2>2 DEF ApplyChat
    <3>2. e \in Events
      BY DEF RoomInv, TypeOK
    <3>3. Sound(WithMessage(copy[c], e))
      BY <2>1, <3>2, WithMessageSound
    <3> QED
      BY <2>2, <3>1, <3>3 DEF ApplyChat, Written, Sound
  <2>3. CASE ApplyDelete(c)
    <3>1. PICK e \in event[c] : room' = Merge(room, WithTombstone(copy[c], e))
      BY <2>3 DEF ApplyDelete
    <3>2. e \in Events
      BY DEF RoomInv, TypeOK
    <3>3. Sound(WithTombstone(copy[c], e))
      BY <2>1, <3>2, WithTombstoneSound
    <3> QED
      BY <2>3, <3>1, <3>3 DEF ApplyDelete, Written, Sound
  <2>4. CASE NoteSuccess(c)
    <3>1. CASE room.suspended
      BY <2>4, <3>1 DEF NoteSuccess
    <3>2. CASE ~room.suspended
      <4>1. room' = [room EXCEPT !.failures = 0] /\ streak' = 0
        BY <2>4, <3>2 DEF NoteSuccess
      <4>2. room.suspended = FALSE
        BY <3>2 DEF RoomInv, TypeOK, RoomStates
      <4>3. [room EXCEPT !.failures = 0] = [room EXCEPT !.failures = 0, !.suspended = FALSE]
        BY <4>2 DEF RoomInv, TypeOK, RoomStates
      <4> QED
        BY <4>1, <4>3 DEF Counted
    <3> QED
      BY <3>1, <3>2
  <2>5. CASE NoteFailure(c)
    BY <2>5 DEF NoteFailure, Counted
  <2>6. CASE PersistReturns(c) \/ EndOther(c)
    BY <2>1, <2>6 DEF PersistReturns, EndOther, Written, Sound
  <2>7. CASE ReadManifest(c)
    <3>1. Sound(Applied(base[c], store.tombstones))
      BY <2>1, AppliedSound DEF RoomInv, TypeOK
    <3> QED
      BY <2>7, <3>1 DEF ReadManifest, Written, Sound
  <2>8. CASE EndSync(c) \/ SyncFails(c)
    BY <2>1, <2>8 DEF EndSync, SyncFails, Written, Sound
  <2>9. CASE \/ \E e \in Events : ReceiveChat(c, e) \/ ReceiveDelete(c, e)
             \/ Persist(c) \/ PersistFails(c) \/ Relay(c) \/ StartSync(c) \/ Replay(c)
             \/ PagesDone(c) \/ StartOther(c)
    BY <2>9 DEF ReceiveChat, ReceiveDelete, Handle, Persist, PersistFails, Relay, StartSync,
       Replay, PagesDone, StartOther
  <2> QED
    BY <1>3, <2>2, <2>3, <2>4, <2>5, <2>6, <2>7, <2>8, <2>9 DEF CoroutineStep
<1> QED
  BY <1>1, <1>2, <1>3 DEF Next, CoroutineStep

LEMMA RoomKeptSound ==
  ASSUME RoomInv, [Next]_vars
  PROVE  Sound(room)' /\ PauseCounted' /\ (streak \in 0..FailureLimit)'
<1>1. CASE UNCHANGED <<room, streak>>
  BY <1>1 DEF RoomInv, TypeOK, Sound, PauseCounted, PauseIsLocal
<1>2. ASSUME NEW r \in RoomStates, Sound(r), Written(r)
      PROVE  Sound(room)' /\ PauseCounted' /\ (streak \in 0..FailureLimit)'
  <2>1. Sound(room)'
    BY <1>2, MergeSound DEF RoomInv, TypeOK, Sound, Written
  <2>2. room'.failures = room.failures /\ room'.suspended = room.suspended
    BY <1>2, MergeKeeps DEF Written
  <2> QED
    BY <1>2, <2>1, <2>2 DEF RoomInv, TypeOK, PauseCounted, PauseIsLocal, Written
<1>3. CASE Counted
  <2>1. /\ room \in RoomStates
        /\ room.hidden \subseteq room.messages
        /\ streak = room.failures
        /\ room.suspended <=> streak = FailureLimit
        /\ FailureLimit \in Nat \ {0}
    BY AndroidRoomAssumption DEF RoomInv, TypeOK, PauseCounted, PauseIsLocal
  <2>2. room.failures \in 0..FailureLimit
    BY <2>1 DEF RoomStates
  <2>3. CASE room' = [room EXCEPT !.failures = 0, !.suspended = FALSE] /\ streak' = 0
    <3>1. 0 \in 0..FailureLimit /\ 0 # FailureLimit
      BY <2>1
    <3>2. Sound(room') /\ room'.failures = 0 /\ ~room'.suspended
      <4>1. Sound(room)
        BY <2>1 DEF Sound
      <4> QED
        BY <2>3, <4>1, SuccessSound
    <3> QED
      BY <2>3, <3>1, <3>2 DEF PauseCounted, PauseIsLocal
  <2>4. CASE /\ ~room.suspended
             /\ room' = [room EXCEPT !.failures = @ + 1,
                                     !.suspended = room.failures + 1 >= FailureLimit]
             /\ streak' = streak + 1
    <3>1. room.failures + 1 \in 0..FailureLimit
      BY <2>1, <2>2, <2>4
    <3>2. (room.failures + 1 >= FailureLimit) <=> (room.failures + 1 = FailureLimit)
      BY <2>1, <2>2, <3>1
    <3>3. /\ Sound(room')
          /\ room'.failures = room.failures + 1
          /\ (room'.suspended <=> room.failures + 1 >= FailureLimit)
      <4>1. Sound(room)
        BY <2>1 DEF Sound
      <4> QED
        BY <2>4, <3>1, <4>1, FailureSound
    <3> QED
      BY <2>1, <2>4, <3>1, <3>2, <3>3 DEF PauseCounted, PauseIsLocal
  <2> QED
    BY <1>3, <2>3, <2>4 DEF Counted
<1> QED
  BY <1>1, <1>2, <1>3, RoomSteps

-----------------------------------------------------------------------------
(* The copies stay Room objects: each is one a coroutine read, or changed. *)
Kept(c, r) == copy' = [copy EXCEPT ![c] = r]
BaseKept(c, r) == base' = [base EXCEPT ![c] = r]

LEMMA CopySteps ==
  ASSUME RoomInv, NEW c \in Coroutines, CoroutineStep(c)
  PROVE  /\ \/ UNCHANGED copy
            \/ \E r \in RoomStates : Sound(r) /\ Kept(c, r)
         /\ \/ UNCHANGED base
            \/ \E r \in RoomStates : Sound(r) /\ BaseKept(c, r)
<1>1. Sound(room) /\ Sound(copy[c]) /\ Sound(EmptyRoom)
  BY EmptyRoomSound DEF RoomInv, TypeOK, CopiesSound, Sound
<1>2. CASE ApplyChat(c)
  <2>1. PICK e \in event[c] :
          Forget(c) \/ Keep(c, WithMessage(copy[c], e))
    BY <1>2 DEF ApplyChat
  <2>2. e \in Events
    BY DEF RoomInv, TypeOK
  <2>3. Sound(WithMessage(copy[c], e))
    BY <1>1, <2>2, WithMessageSound
  <2> QED
    BY <1>1, <1>2, <2>1, <2>3 DEF ApplyChat, Forget, Keep, Kept, Sound
<1>3. CASE Persist(c)
  <2>1. store.generation + 1 \in 0..MaxGeneration
    BY <1>3, AndroidRoomAssumption DEF Persist, RoomInv, TypeOK
  <2>2. Sound([copy[c] EXCEPT !.generation = store.generation + 1])
    BY <1>1, <2>1, GenerationSound
  <2>3. Keep(c, [copy[c] EXCEPT !.generation = store.generation + 1])
    BY <1>3 DEF Persist
  <2> QED
    BY <1>3, <2>2, <2>3 DEF Persist, Keep, Kept, Sound
<1>4. CASE \E e \in Events : ReceiveChat(c, e) \/ ReceiveDelete(c, e)
  BY <1>1, <1>4 DEF ReceiveChat, ReceiveDelete, Handle, Keep, Kept, Sound
<1>5. CASE Replay(c)
  BY <1>1, <1>5 DEF Replay, Keep, Kept, Sound
<1>6. CASE StartOther(c)
  BY <1>1, <1>6 DEF StartOther, Keep, Kept, Sound
<1>7. CASE ApplyDelete(c) \/ PersistReturns(c) \/ PersistFails(c) \/ EndOther(c)
  BY <1>1, <1>7 DEF ApplyDelete, PersistReturns, PersistFails, EndOther, Forget, Keep, Kept,
     Sound
<1>8. CASE StartSync(c) \/ PagesDone(c)
  BY <1>1, <1>8 DEF StartSync, PagesDone, BaseKept, Sound
<1>9. CASE EndSync(c) \/ SyncFails(c)
  BY <1>1, <1>9 DEF EndSync, SyncFails, BaseKept, Sound
<1>10. CASE NoteSuccess(c) \/ NoteFailure(c) \/ Relay(c) \/ ReadManifest(c)
  BY <1>10 DEF NoteSuccess, NoteFailure, Relay, ReadManifest
<1> QED
  BY <1>2, <1>3, <1>4, <1>5, <1>6, <1>7, <1>8, <1>9, <1>10 DEF CoroutineStep

LEMMA CopiesKeptSound ==
  ASSUME RoomInv, [Next]_vars
  PROVE  CopiesSound' /\ (copy \in [Coroutines -> RoomStates])'
                      /\ (base \in [Coroutines -> RoomStates])'
<1>1. copy \in [Coroutines -> RoomStates] /\ base \in [Coroutines -> RoomStates]
  BY DEF RoomInv, TypeOK
<1>2. CASE UNCHANGED <<copy, base>>
  BY <1>1, <1>2 DEF RoomInv, CopiesSound, Sound
<1>3. ASSUME NEW c \in Coroutines, CoroutineStep(c)
      PROVE  CopiesSound' /\ (copy \in [Coroutines -> RoomStates])'
                          /\ (base \in [Coroutines -> RoomStates])'
  <2>1. /\ copy' \in [Coroutines -> RoomStates]
        /\ \A d \in Coroutines : Sound(copy'[d])
    <3>1. CASE UNCHANGED copy
      BY <1>1, <3>1 DEF RoomInv, CopiesSound
    <3>2. CASE \E r \in RoomStates : Sound(r) /\ Kept(c, r)
      BY <1>1, <3>2 DEF RoomInv, CopiesSound, Kept
    <3> QED
      BY <1>3, <3>1, <3>2, CopySteps
  <2>2. /\ base' \in [Coroutines -> RoomStates]
        /\ \A d \in Coroutines : Sound(base'[d])
    <3>1. CASE UNCHANGED base
      BY <1>1, <3>1 DEF RoomInv, CopiesSound
    <3>2. CASE \E r \in RoomStates : Sound(r) /\ BaseKept(c, r)
      BY <1>1, <3>2 DEF RoomInv, CopiesSound, BaseKept
    <3> QED
      BY <1>3, <3>1, <3>2, CopySteps
  <2> QED
    BY <2>1, <2>2 DEF CopiesSound, Sound
<1>4. UNCHANGED vars \/ Retry => UNCHANGED <<copy, base>>
  BY DEF vars, Retry
<1> QED
  BY <1>2, <1>3, <1>4 DEF Next, CoroutineStep

(* The store, and where the coroutines are.                                *)
LEMMA RestKept ==
  ASSUME RoomInv, [Next]_vars
  PROVE  (/\ store \in [generation : 0..MaxGeneration, messages : SUBSET Events,
                         tombstones : SUBSET Events]
          /\ pc \in [Coroutines -> Steps]
          /\ event \in [Coroutines -> SUBSET Events]
          /\ syncing \subseteq Coroutines)'
<1> DEFINE Rest == /\ store \in [generation : 0..MaxGeneration, messages : SUBSET Events,
                                 tombstones : SUBSET Events]
                  /\ pc \in [Coroutines -> Steps]
                  /\ event \in [Coroutines -> SUBSET Events]
                  /\ syncing \subseteq Coroutines
<1>1. Rest
  BY DEF RoomInv, TypeOK
<1>2. CASE UNCHANGED vars \/ Retry
  BY <1>1, <1>2 DEF vars, Retry
<1>3. ASSUME NEW c \in Coroutines, CoroutineStep(c) PROVE Rest'
  <2>1. CASE Persist(c)
    <3>1. store.generation + 1 \in 0..MaxGeneration
      BY <2>1, AndroidRoomAssumption DEF Persist, RoomInv, TypeOK
    <3>2. copy[c].messages \subseteq Events /\ copy[c].tombstones \subseteq Events
      BY DEF RoomInv, TypeOK, RoomStates
    <3> QED
      BY <1>1, <2>1, <3>1, <3>2 DEF Persist, Goto, Steps
  <2>2. CASE \E e \in Events : ReceiveChat(c, e) \/ ReceiveDelete(c, e)
    BY <1>1, <2>2 DEF ReceiveChat, ReceiveDelete, Handle, Goto, Steps
  <2>3. CASE ApplyChat(c) \/ ApplyDelete(c)
    BY <1>1, <2>3 DEF ApplyChat, ApplyDelete, Goto, Steps
  <2>4. CASE NoteSuccess(c) \/ NoteFailure(c) \/ Relay(c)
    BY <1>1, <2>4 DEF NoteSuccess, NoteFailure, Relay, Goto, Steps
  <2>5. CASE PersistReturns(c) \/ PersistFails(c) \/ StartOther(c) \/ EndOther(c)
    BY <1>1, <2>5 DEF PersistReturns, PersistFails, StartOther, EndOther, Goto, Steps
  <2>6. CASE ReadManifest(c)
    BY <1>1, <2>6 DEF ReadManifest, Goto, Steps
  <2>7. CASE Replay(c)
    BY <1>1, <2>7 DEF Replay, Goto, Steps
  <2>8. CASE StartSync(c) \/ PagesDone(c) \/ EndSync(c) \/ SyncFails(c)
    BY <1>1, <2>8 DEF StartSync, PagesDone, EndSync, SyncFails, Goto, Steps
  <2> QED
    BY <1>3, <2>1, <2>2, <2>3, <2>4, <2>5, <2>6, <2>7, <2>8 DEF CoroutineStep
<1> QED
  BY <1>2, <1>3 DEF Next, CoroutineStep

LEMMA RoomInvStep == RoomInv /\ [Next]_vars => RoomInv'
<1> SUFFICES ASSUME RoomInv, [Next]_vars PROVE RoomInv'
  OBVIOUS
<1> QED
  BY RoomKeptSound, CopiesKeptSound, RestKept DEF RoomInv, TypeOK, Sound

(* The model's variables keep their types, and only messages are hidden.   *)
THEOREM AndroidRoomTypeOK == Spec => []TypeOK
<1>1. RoomInv => TypeOK
  BY DEF RoomInv
<1> QED
  BY <1>1, InitRoomInv, RoomInvStep, PTL DEF Spec

(* Only FailureLimit failures in a row pause the room, and only Retry ends *)
(* the pause, whatever older copies are merged into it.                    *)
THEOREM AndroidPauseIsLocal == Spec => []PauseIsLocal
<1>1. RoomInv => PauseIsLocal
  BY DEF RoomInv, PauseCounted
<1> QED
  BY <1>1, InitRoomInv, RoomInvStep, PTL DEF Spec

HistoryStep ==
  /\ room.messages \subseteq room'.messages
  /\ room.hidden \subseteq room'.hidden
  /\ room.tombstones \subseteq room'.tombstones

LEMMA HistoryStepKept == RoomInv /\ [Next]_vars => HistoryStep
<1> SUFFICES ASSUME RoomInv, [Next]_vars PROVE HistoryStep
  OBVIOUS
<1>1. CASE UNCHANGED room
  BY <1>1 DEF HistoryStep
<1>2. CASE \E r \in RoomStates : Sound(r) /\ Written(r)
  BY <1>2, MergeKeeps DEF Written, HistoryStep
<1>3. CASE Counted
  BY <1>3 DEF Counted, RoomInv, TypeOK, RoomStates, HistoryStep
<1> QED
  BY <1>1, <1>2, <1>3, RoomSteps

(* No interleaving of the coroutines takes a message, a tombstone or the   *)
(* hiding of a deleted message back.                                       *)
THEOREM AndroidHistoryStays == Spec => HistoryStays
<1>1. RoomInv /\ [Next]_vars =>
        [/\ room.messages \subseteq room'.messages
         /\ room.hidden \subseteq room'.hidden
         /\ room.tombstones \subseteq room'.tombstones]_vars
  BY HistoryStepKept DEF HistoryStep
<1> QED
  BY <1>1, InitRoomInv, RoomInvStep, PTL DEF Spec, HistoryStays

-----------------------------------------------------------------------------
(* A Room object that knows the store's generation holds what the store    *)
(* publishes: the reason why naming that generation is enough.             *)
Holds(r, st) ==
  /\ r.generation <= st.generation
  /\ r.generation = st.generation =>
       st.messages \subseteq r.messages /\ st.tombstones \subseteq r.tombstones

StoreHeld ==
  /\ Holds(EmptyRoom, store)
  /\ Holds(room, store)
  /\ \A c \in Coroutines : Holds(copy[c], store) /\ Holds(base[c], store)

LEMMA MergeHolds ==
  ASSUME NEW r, NEW s, NEW st, Sound(r), Sound(s), st.generation \in Nat,
         Holds(r, st), Holds(s, st)
  PROVE  Holds(Merge(r, s), st)
  BY DEF Holds, Merge, Larger, Sound, RoomStates

LEMMA WithMessageHolds ==
  ASSUME NEW r, NEW e \in Events, NEW st, Sound(r), Holds(r, st)
  PROVE  Holds(WithMessage(r, e), st)
  BY DEF Holds, WithMessage, Sound, RoomStates

LEMMA WithTombstoneHolds ==
  ASSUME NEW r, NEW e \in Events, NEW st, Sound(r), Holds(r, st)
  PROVE  Holds(WithTombstone(r, e), st)
  BY DEF Holds, WithTombstone, Sound, RoomStates

LEMMA AppliedHolds ==
  ASSUME NEW r, NEW st, Sound(r), Holds(r, st), st.tombstones \subseteq Events
  PROVE  Holds(Applied(r, st.tombstones), st)
  BY DEF Holds, Applied, Sound, RoomStates

LEMMA CountHolds ==
  ASSUME RoomInv, Holds(room, store), Counted
  PROVE  Holds(room', store)
<1>1. /\ room'.generation = room.generation
      /\ room'.messages = room.messages
      /\ room'.tombstones = room.tombstones
  BY DEF Counted, RoomInv, TypeOK, RoomStates
<1> QED
  BY <1>1 DEF Holds

LEMMA InitStoreHeld == Init => StoreHeld
  BY DEF Init, StoreHeld, Holds, EmptyRoom

(* The room after a step that writes nothing to the store.                 *)
LEMMA RoomHolds ==
  ASSUME RoomInv, StoreHeld, NEW c \in Coroutines, CoroutineStep(c), ~Persist(c)
  PROVE  Holds(room', store)
<1>1. /\ Sound(room) /\ Sound(copy[c]) /\ Sound(base[c])
      /\ Holds(room, store) /\ Holds(copy[c], store) /\ Holds(base[c], store)
      /\ store.generation \in Nat
      /\ store.tombstones \subseteq Events
  BY AndroidRoomAssumption DEF RoomInv, TypeOK, CopiesSound, Sound, StoreHeld
<1>2. CASE ApplyChat(c)
  <2>1. PICK e \in event[c] :
          (UNCHANGED room) \/ room' = Merge(room, WithMessage(copy[c], e))
    BY <1>2 DEF ApplyChat
  <2>2. e \in Events
    BY DEF RoomInv, TypeOK
  <2>3. Sound(WithMessage(copy[c], e)) /\ Holds(WithMessage(copy[c], e), store)
    BY <1>1, <2>2, WithMessageSound, WithMessageHolds
  <2> QED
    BY <1>1, <2>1, <2>3, MergeHolds
<1>3. CASE ApplyDelete(c)
  <2>1. PICK e \in event[c] : room' = Merge(room, WithTombstone(copy[c], e))
    BY <1>3 DEF ApplyDelete
  <2>2. e \in Events
    BY DEF RoomInv, TypeOK
  <2>3. Sound(WithTombstone(copy[c], e)) /\ Holds(WithTombstone(copy[c], e), store)
    BY <1>1, <2>2, WithTombstoneSound, WithTombstoneHolds
  <2> QED
    BY <1>1, <2>1, <2>3, MergeHolds
<1>4. CASE ReadManifest(c)
  <2>1. /\ Sound(Applied(base[c], store.tombstones))
        /\ Holds(Applied(base[c], store.tombstones), store)
    BY <1>1, AppliedSound, AppliedHolds
  <2> QED
    BY <1>1, <1>4, <2>1, MergeHolds DEF ReadManifest
<1>5. CASE PersistReturns(c) \/ EndOther(c)
  BY <1>1, <1>5, MergeHolds DEF PersistReturns, EndOther
<1>6. CASE EndSync(c) \/ SyncFails(c)
  BY <1>1, <1>6, MergeHolds DEF EndSync, SyncFails
<1>7. CASE NoteSuccess(c)
  <2>1. room' = room \/ room' = [room EXCEPT !.failures = 0]
    BY <1>7 DEF NoteSuccess
  <2> QED
    BY <1>1, <2>1 DEF Holds, Sound, RoomStates
<1>8. CASE NoteFailure(c)
  BY <1>1, <1>8, CountHolds DEF NoteFailure, Counted
<1>9. CASE \/ \E e \in Events : ReceiveChat(c, e) \/ ReceiveDelete(c, e)
           \/ PersistFails(c) \/ Relay(c) \/ StartSync(c) \/ Replay(c)
           \/ PagesDone(c) \/ StartOther(c)
  BY <1>1, <1>9 DEF ReceiveChat, ReceiveDelete, Handle, PersistFails, Relay, StartSync,
     Replay, PagesDone, StartOther
<1> QED
  BY <1>2, <1>3, <1>4, <1>5, <1>6, <1>7, <1>8, <1>9 DEF CoroutineStep

(* Its copies.                                                             *)
LEMMA CopiesHold ==
  ASSUME RoomInv, StoreHeld, NEW c \in Coroutines, CoroutineStep(c), ~Persist(c)
  PROVE  \A d \in Coroutines : Holds(copy'[d], store) /\ Holds(base'[d], store)
<1> DEFINE Fits(r) == Sound(r) /\ Holds(r, store)
<1>1. Fits(room) /\ Fits(copy[c]) /\ Fits(EmptyRoom)
  BY EmptyRoomSound DEF RoomInv, TypeOK, CopiesSound, Sound, StoreHeld
<1>2. /\ copy \in [Coroutines -> RoomStates]
      /\ base \in [Coroutines -> RoomStates]
      /\ \A d \in Coroutines : Holds(copy[d], store) /\ Holds(base[d], store)
  BY DEF RoomInv, TypeOK, StoreHeld
<1>3. /\ (UNCHANGED copy) \/ \E r \in RoomStates : Fits(r) /\ Kept(c, r)
      /\ (UNCHANGED base) \/ \E r \in RoomStates : Fits(r) /\ BaseKept(c, r)
  <2>1. CASE ApplyChat(c)
    <3>1. PICK e \in event[c] : Forget(c) \/ Keep(c, WithMessage(copy[c], e))
      BY <2>1 DEF ApplyChat
    <3>2. e \in Events
      BY DEF RoomInv, TypeOK
    <3>3. Fits(WithMessage(copy[c], e))
      BY <1>1, <3>2, WithMessageSound, WithMessageHolds
    <3> QED
      BY <1>1, <2>1, <3>1, <3>3 DEF ApplyChat, Forget, Keep, Kept, Sound
  <2>2. CASE \E e \in Events : ReceiveChat(c, e) \/ ReceiveDelete(c, e)
    BY <1>1, <2>2 DEF ReceiveChat, ReceiveDelete, Handle, Keep, Kept, Sound
  <2>3. CASE Replay(c)
    BY <1>1, <2>3 DEF Replay, Keep, Kept, Sound
  <2>4. CASE StartOther(c)
    BY <1>1, <2>4 DEF StartOther, Keep, Kept, Sound
  <2>5. CASE ApplyDelete(c) \/ PersistReturns(c) \/ PersistFails(c) \/ EndOther(c)
    BY <1>1, <2>5 DEF ApplyDelete, PersistReturns, PersistFails, EndOther, Forget, Keep,
       Kept, Sound
  <2>6. CASE StartSync(c) \/ PagesDone(c)
    BY <1>1, <2>6 DEF StartSync, PagesDone, BaseKept, Sound
  <2>7. CASE EndSync(c) \/ SyncFails(c)
    BY <1>1, <2>7 DEF EndSync, SyncFails, BaseKept, Sound
  <2>8. CASE NoteSuccess(c) \/ NoteFailure(c) \/ Relay(c) \/ ReadManifest(c)
    BY <2>8 DEF NoteSuccess, NoteFailure, Relay, ReadManifest
  <2> QED
    BY <2>1, <2>2, <2>3, <2>4, <2>5, <2>6, <2>7, <2>8 DEF CoroutineStep
<1>4. \A d \in Coroutines : Holds(copy'[d], store)
  <2>1. CASE UNCHANGED copy
    BY <1>2, <2>1
  <2>2. CASE \E r \in RoomStates : Fits(r) /\ Kept(c, r)
    BY <1>2, <2>2 DEF Kept
  <2> QED
    BY <1>3, <2>1, <2>2
<1>5. \A d \in Coroutines : Holds(base'[d], store)
  <2>1. CASE UNCHANGED base
    BY <1>2, <2>1
  <2>2. CASE \E r \in RoomStates : Fits(r) /\ BaseKept(c, r)
    BY <1>2, <2>2 DEF BaseKept
  <2> QED
    BY <1>3, <2>1, <2>2
<1> QED
  BY <1>4, <1>5

(* A write to the store: no other Room object knows its generation.        *)
LEMMA PersistHolds ==
  ASSUME RoomInv, StoreHeld, NEW c \in Coroutines, Persist(c)
  PROVE  StoreHeld'
<1>1. /\ store.generation \in Nat
      /\ store'.generation = store.generation + 1
      /\ store'.messages = copy[c].messages
      /\ store'.tombstones = copy[c].tombstones
      /\ copy' = [copy EXCEPT ![c] = [copy[c] EXCEPT !.generation = store'.generation]]
      /\ UNCHANGED <<room, base>>
  BY AndroidRoomAssumption DEF Persist, Keep, RoomInv, TypeOK
<1>2. ASSUME NEW r, Sound(r), Holds(r, store) PROVE Holds(r, store')
  BY <1>1, <1>2 DEF Holds, Sound, RoomStates
<1>3. \A d \in Coroutines : Sound(copy[d]) /\ Sound(base[d])
  BY DEF RoomInv, CopiesSound
<1>4. Holds(room', store')
  BY <1>1, <1>2 DEF RoomInv, TypeOK, Sound, StoreHeld
<1>5. Holds(EmptyRoom, store')
  BY <1>2, EmptyRoomSound DEF StoreHeld
<1>6. ASSUME NEW d \in Coroutines PROVE Holds(copy'[d], store') /\ Holds(base'[d], store')
  <2>1. Holds(base'[d], store')
    BY <1>1, <1>2, <1>3 DEF StoreHeld
  <2>2. copy \in [Coroutines -> RoomStates]
    BY DEF RoomInv, TypeOK
  <2>3. CASE d # c
    <3>1. copy'[d] = copy[d]
      BY <1>1, <2>2, <2>3
    <3> QED
      BY <1>2, <1>3, <2>1, <3>1 DEF StoreHeld
  <2>4. CASE d = c
    <3>1. copy'[d] = [copy[c] EXCEPT !.generation = store'.generation]
      BY <1>1, <2>2, <2>4
    <3>2. /\ copy'[d].generation = store'.generation
          /\ copy'[d].messages = copy[c].messages
          /\ copy'[d].tombstones = copy[c].tombstones
      BY <1>3, <3>1 DEF Sound, RoomStates
    <3> QED
      BY <1>1, <2>1, <3>2 DEF Holds
  <2> QED
    BY <2>3, <2>4
<1> QED
  BY <1>4, <1>5, <1>6 DEF StoreHeld

LEMMA StoreHeldStep == RoomInv /\ StoreHeld /\ [Next]_vars => StoreHeld'
<1> SUFFICES ASSUME RoomInv, StoreHeld, [Next]_vars PROVE StoreHeld'
  OBVIOUS
<1>1. CASE UNCHANGED vars
  BY <1>1 DEF vars, StoreHeld
<1>2. CASE Retry
  <2>1. room'.generation = room.generation /\ room'.messages = room.messages
        /\ room'.tombstones = room.tombstones
    BY <1>2 DEF Retry, RoomInv, TypeOK, RoomStates
  <2> QED
    BY <1>2, <2>1 DEF Retry, StoreHeld, Holds
<1>3. ASSUME NEW c \in Coroutines, CoroutineStep(c) PROVE StoreHeld'
  <2>1. CASE Persist(c)
    BY <2>1, PersistHolds
  <2>2. CASE ~Persist(c)
    <3>1. UNCHANGED store
      BY <1>3, <2>2 DEF CoroutineStep, ReceiveChat, ReceiveDelete, Handle, ApplyChat,
         ApplyDelete, NoteSuccess, NoteFailure, PersistReturns, PersistFails, Relay,
         StartSync, ReadManifest, Replay, PagesDone, EndSync, SyncFails, StartOther,
         EndOther
    <3> QED
      BY <1>3, <2>2, <3>1, RoomHolds, CopiesHold DEF StoreHeld
  <2> QED
    BY <2>1, <2>2
<1> QED
  BY <1>1, <1>2, <1>3 DEF Next, CoroutineStep

PublishedStep ==
  store.messages \subseteq store'.messages /\ store.tombstones \subseteq store'.tombstones

LEMMA PublishedStepKept == RoomInv /\ StoreHeld /\ [Next]_vars => PublishedStep
<1> SUFFICES ASSUME RoomInv, StoreHeld, [Next]_vars PROVE PublishedStep
  OBVIOUS
<1>1. CASE UNCHANGED store
  BY <1>1 DEF PublishedStep
<1>2. ASSUME NEW c \in Coroutines, Persist(c) PROVE PublishedStep
  BY <1>2 DEF Persist, StoreHeld, Holds, PublishedStep
<1>3. UNCHANGED store \/ \E c \in Coroutines : Persist(c)
  BY DEF Next, vars, Retry, ReceiveChat, ReceiveDelete, Handle, ApplyChat,
     ApplyDelete, NoteSuccess, NoteFailure, PersistReturns, PersistFails, Relay,
     StartSync, ReadManifest, Replay, PagesDone, EndSync, SyncFails, StartOther, EndOther
<1> QED
  BY <1>1, <1>2, <1>3

(* What has been published stays published, although each handler writes   *)
(* its own, older copy of the room.                                        *)
THEOREM AndroidPublishedStays == Spec => PublishedStays
<1>1. RoomInv /\ StoreHeld /\ [Next]_vars =>
        [/\ store.messages \subseteq store'.messages
         /\ store.tombstones \subseteq store'.tombstones]_vars
  BY PublishedStepKept DEF PublishedStep
<1> QED
  BY <1>1, InitRoomInv, RoomInvStep, InitStoreHeld, StoreHeldStep, PTL DEF Spec, PublishedStays

=============================================================================
