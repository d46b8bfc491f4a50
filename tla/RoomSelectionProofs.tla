------------------------- MODULE RoomSelectionProofs -------------------------
(***************************************************************************)
(* Proofs about RoomSelection for every set of rooms and every number of   *)
(* requests.                                                               *)
(***************************************************************************)
EXTENDS RoomSelection, FiniteSetTheorems, SequenceTheorems, TLAPS

EngineType ==
  /\ rooms \in Seq(AllRooms)
  /\ selected \in 0..Len(rooms)
  /\ online \in BOOLEAN
  /\ client \in BOOLEAN
  /\ demo \in BOOLEAN
  /\ creating \in BOOLEAN
  /\ stored \in Seq(AllRooms)

WorkerType ==
  /\ ops \in Seq(Operations)
  /\ pc \in {"idle", "start", "push", "pushed", "created", "erase", "drop", "install",
            "notify", "crashed"}
  /\ cur \in Operations \cup Creations

ScreenType ==
  /\ window \in {"win32", "gtk"}
  /\ shown \in [rooms : Seq(AllRooms), selected : Nat]
  /\ refresh \in BOOLEAN
  /\ draw \in {"idle", "menu", "snapshot", "callback", "gone"}
  /\ pointed \in Nat
  /\ menu \in AllRooms \cup {NoRoom}
  /\ requests \in 0..MaxRequests
  /\ wrong \in BOOLEAN

LEMMA TypeParts == TypeOK <=> EngineType /\ WorkerType /\ ScreenType
BY DEF TypeOK, EngineType, WorkerType, ScreenType

(* The room about to be pushed is a real one that is not listed yet.       *)
PushedIsNew ==
  pc = "push" => cur.room \in (InviteRooms \cup NewRooms) \ ToSet(rooms)

(* The demo room is listed in demo mode only.                              *)
DemoListedInDemo == ~demo => DemoRoom \notin ToSet(rooms)

Lists ==
  /\ SelectionValid
  /\ ListedOnce
  /\ IsInjective(stored)
  /\ DemoIsNotStored
  /\ DemoListedInDemo

SelectionInv == TypeOK /\ Lists /\ PushedIsNew

-----------------------------------------------------------------------------
(* What appending does to a list of rooms.                                 *)
LEMMA AppendFacts ==
  ASSUME NEW S, NEW s \in Seq(S), NEW x \in S
  PROVE  /\ Append(s, x) \in Seq(S)
         /\ Len(Append(s, x)) = Len(s) + 1
         /\ ToSet(Append(s, x)) = ToSet(s) \cup {x}
         /\ IsInjective(s) /\ x \notin ToSet(s) => IsInjective(Append(s, x))
<1> DEFINE t == Append(s, x)
<1>1. /\ t \in Seq(S)
      /\ Len(s) \in Nat
      /\ Len(t) = Len(s) + 1
      /\ DOMAIN s = 1..Len(s)
      /\ DOMAIN t = 1..(Len(s) + 1)
      /\ \A i \in 1..Len(s) : t[i] = s[i]
      /\ t[Len(s) + 1] = x
  OBVIOUS
<1> HIDE DEF t
<1>2. ToSet(t) = ToSet(s) \cup {x}
  BY <1>1 DEF ToSet
<1>3. ASSUME IsInjective(s), x \notin ToSet(s)
      PROVE  IsInjective(t)
  BY <1>1, <1>3 DEF IsInjective, ToSet
<1> QED
  BY <1>1, <1>2, <1>3 DEF t

(* What erasing does to it.                                                *)
LEMMA RemoveAtFacts ==
  ASSUME NEW S, NEW s \in Seq(S), NEW k \in DOMAIN s
  PROVE  /\ RemoveAt(s, k) \in Seq(S)
         /\ Len(RemoveAt(s, k)) = Len(s) - 1
         /\ \A i \in 1..(Len(s) - 1) : RemoveAt(s, k)[i] = IF i < k THEN s[i] ELSE s[i + 1]
         /\ ToSet(RemoveAt(s, k)) \subseteq ToSet(s)
         /\ IsInjective(s) => IsInjective(RemoveAt(s, k))
<1> DEFINE t == RemoveAt(s, k)
           a == SubSeq(s, 1, k - 1)
           b == SubSeq(s, k + 1, Len(s))
<1>1. Len(s) \in Nat /\ k \in 1..Len(s) /\ DOMAIN s = 1..Len(s)
  OBVIOUS
<1>2. /\ a \in Seq(S)
      /\ Len(a) = k - 1
      /\ \A i \in 1..(k - 1) : a[i] = s[i]
  BY <1>1
<1>3. /\ b \in Seq(S)
      /\ Len(b) = Len(s) - k
      /\ \A i \in 1..(Len(s) - k) : b[i] = s[k + i]
  BY <1>1
<1>4. t = a \o b
  BY DEF RemoveAt
<1> HIDE DEF t, a, b
<1>5. t \in Seq(S) /\ Len(t) = Len(s) - 1
  <2>1. t \in Seq(S) /\ Len(t) = Len(a) + Len(b)
    BY <1>2, <1>3, <1>4, ConcatProperties
  <2>3. (k - 1) + (Len(s) - k) = Len(s) - 1
    BY <1>1
  <2> QED
    BY <1>2, <1>3, <2>1, <2>3
<1>6. \A i \in 1..(Len(s) - 1) : t[i] = IF i < k THEN s[i] ELSE s[i + 1]
  <2> SUFFICES ASSUME NEW i \in 1..(Len(s) - 1)
               PROVE  t[i] = IF i < k THEN s[i] ELSE s[i + 1]
    OBVIOUS
  <2>1. CASE i < k
    BY <1>1, <1>2, <1>3, <1>4, <2>1
  <2>2. CASE ~(i < k)
    <3>1. t[i] = b[i - (k - 1)]
      BY <1>1, <1>2, <1>3, <1>4, <2>2
    <3>2. i - (k - 1) \in 1..(Len(s) - k)
      BY <1>1, <2>2
    <3>3. b[i - (k - 1)] = s[k + (i - (k - 1))]
      BY <1>3, <3>2
    <3>4. k + (i - (k - 1)) = i + 1
      BY <1>1
    <3> QED
      BY <2>2, <3>1, <3>3, <3>4
  <2> QED
    BY <2>1, <2>2
<1>7. DOMAIN t = 1..(Len(s) - 1)
  BY <1>1, <1>5
<1>8. ToSet(t) \subseteq ToSet(s)
  BY <1>1, <1>6, <1>7 DEF ToSet
<1>9. ASSUME IsInjective(s) PROVE IsInjective(t)
  <2> SUFFICES ASSUME NEW i \in DOMAIN t, NEW j \in DOMAIN t, t[i] = t[j]
               PROVE  i = j
    BY DEF IsInjective
  <2>1. \A x, y \in 1..Len(s) : s[x] = s[y] => x = y
    BY <1>1, <1>9 DEF IsInjective
  <2> DEFINE m(n) == IF n < k THEN n ELSE n + 1
  <2>2. t[i] = s[m(i)] /\ t[j] = s[m(j)] /\ m(i) \in 1..Len(s) /\ m(j) \in 1..Len(s)
    BY <1>1, <1>6, <1>7
  <2>3. m(i) = m(j)
    BY <2>1, <2>2
  <2> QED
    BY <1>1, <1>7, <2>3
<1> QED
  BY <1>5, <1>6, <1>8, <1>9 DEF t

-----------------------------------------------------------------------------
LEMMA InitLists == Init => SelectionInv
<1> SUFFICES ASSUME Init PROVE SelectionInv
  OBVIOUS
<1> USE SelectionAssumption
<1>1. stored \in Seq(InviteRooms) /\ IsInjective(stored)
  <2>1. PICK saved \in SUBSET InviteRooms : stored \in SetToSeqs(saved)
    BY DEF Init
  <2>2. Cardinality(saved) \in Nat
    BY <2>1, FS_Subset, FS_CardinalityType
  <2>3. /\ stored \in [1..Cardinality(saved) -> saved]
        /\ \A i, j \in 1..Cardinality(saved) : i # j => stored[i] # stored[j]
    BY <2>1 DEF SetToSeqs
  <2>4. stored \in Seq(saved)
    BY <2>2, <2>3
  <2> QED
    BY <2>1, <2>3, <2>4 DEF IsInjective
<1>2. stored \in Seq(AllRooms) /\ DemoRoom \notin ToSet(stored)
  BY <1>1 DEF AllRooms, ToSet
<1>8. <<>> \in Seq(AllRooms) /\ Len(<<>>) = 0
  BY EmptySeq
<1>3. EngineType
  <2>1. rooms \in Seq(AllRooms) /\ selected \in 0..Len(rooms)
    BY <1>8 DEF Init
  <2> QED
    BY <1>2, <2>1 DEF Init, EngineType
<1>4. WorkerType
  BY DEF Init, WorkerType, Operations, Creations, Idle
<1>5. ScreenType
  <2>1. [rooms |-> <<>>, selected |-> 0] \in [rooms : Seq(AllRooms), selected : Nat]
    BY <1>8, Zenon
  <2>2. shown \in [rooms : Seq(AllRooms), selected : Nat]
    BY <2>1 DEF Init
  <2>3. pointed \in Nat /\ requests \in 0..MaxRequests
    BY DEF Init
  <2> QED
    BY <2>2, <2>3 DEF Init, ScreenType
<1>6. Lists
  BY <1>1, <1>2 DEF Init, Lists, SelectionValid, ListedOnce, DemoIsNotStored,
                    DemoListedInDemo, IsInjective, ToSet
<1>7. PushedIsNew
  BY DEF Init, PushedIsNew
<1> QED
  BY <1>3, <1>4, <1>5, <1>6, <1>7, TypeParts DEF SelectionInv

-----------------------------------------------------------------------------
(* Save stores a list that has the room list's properties, or nothing.     *)
LEMMA SaveKeeps ==
  ASSUME NEW l \in Seq(AllRooms), stored \in Seq(AllRooms), IsInjective(stored),
         DemoIsNotStored, IsInjective(l), ~demo => DemoRoom \notin ToSet(l), Save(l)
  PROVE  /\ stored' \in Seq(AllRooms)
         /\ IsInjective(stored')
         /\ DemoIsNotStored'
BY DEF Save, DemoIsNotStored

(* select_room moves the selection inside the list.                        *)
LEMMA SelectKeeps ==
  ASSUME EngineType, SelectionValid, NEW i \in Nat, Select(i), refresh \in BOOLEAN,
         rooms' = rooms
  PROVE  /\ selected' \in 0..Len(rooms')
         /\ SelectionValid'
         /\ refresh' \in BOOLEAN
<1>1. DOMAIN rooms = 1..Len(rooms) /\ Len(rooms) \in Nat
  BY DEF EngineType
<1>2. CASE i \in DOMAIN rooms
  <2>1. selected' = i /\ refresh' = TRUE
    BY <1>2 DEF Select
  <2>2. rooms # <<>>
    BY <1>1, <1>2
  <2> QED
    BY <1>1, <1>2, <2>1, <2>2 DEF SelectionValid
<1>3. CASE i \notin DOMAIN rooms
  <2>1. selected' = selected /\ refresh' = refresh
    BY <1>3 DEF Select
  <2> QED
    BY <2>1 DEF SelectionValid, EngineType
<1> QED
  BY <1>2, <1>3

(* The user's thread and the window change the lists only in demo mode.    *)
LEMMA DemoKeeps ==
  ASSUME SelectionInv, StartDemo
  PROVE  EngineType' /\ Lists' /\ PushedIsNew'
<1> USE SelectionAssumption
<1>1. EngineType /\ Lists /\ PushedIsNew
  BY TypeParts DEF SelectionInv
<1>2. CASE rooms = <<>>
  <2>1. rooms' = <<DemoRoom>> /\ selected' = 1 /\ demo' = TRUE
    BY <1>2 DEF StartDemo
  <2>2. /\ rooms' \in Seq(AllRooms)
        /\ Len(rooms') = 1
        /\ DOMAIN rooms' = 1..1
        /\ rooms'[1] = DemoRoom
    <3>1. DemoRoom \in AllRooms
      BY DEF AllRooms
    <3> QED
      BY <2>1, <3>1
  <2>3. ToSet(rooms') = {DemoRoom} /\ IsInjective(rooms') /\ rooms' # <<>>
    BY <2>2 DEF ToSet, IsInjective
  <2>4. EngineType'
    <3>1. selected' \in 0..Len(rooms')
      BY <2>1, <2>2
    <3> QED
      BY <1>1, <2>1, <2>2, <3>1 DEF EngineType, StartDemo
  <2>5. Lists'
    <3>1. SelectionValid' /\ ListedOnce'
      BY <2>1, <2>2, <2>3 DEF SelectionValid, ListedOnce
    <3> QED
      BY <1>1, <2>1, <3>1 DEF Lists, StartDemo, DemoIsNotStored, DemoListedInDemo
  <2>6. PushedIsNew'
    BY <1>1, <2>3 DEF PushedIsNew, StartDemo, worker
  <2> QED
    BY <2>4, <2>5, <2>6
<1>3. CASE rooms # <<>>
  <2>1. /\ rooms' = rooms /\ selected' = selected /\ demo' = TRUE /\ online' = TRUE
        /\ UNCHANGED <<client, creating, stored, pc, cur>>
    BY <1>3 DEF StartDemo, worker
  <2>2. EngineType'
    BY <1>1, <2>1 DEF EngineType
  <2>3. Lists'
    BY <1>1, <2>1 DEF Lists, SelectionValid, ListedOnce, DemoIsNotStored, DemoListedInDemo
  <2>4. PushedIsNew'
    BY <1>1, <2>1 DEF PushedIsNew
  <2> QED
    BY <2>2, <2>3, <2>4
<1> QED
  BY <1>2, <1>3

(* Pushing a room that is not listed.                                      *)
LEMMA PushKeeps ==
  ASSUME SelectionInv, PushRoom
  PROVE  EngineType' /\ Lists' /\ PushedIsNew'
<1> USE SelectionAssumption
<1>1. EngineType /\ Lists
  BY TypeParts DEF SelectionInv
<1>2. cur.room \in AllRooms \ {DemoRoom} /\ cur.room \notin ToSet(rooms)
  BY DEF SelectionInv, PushRoom, PushedIsNew, AllRooms
<1>3. /\ rooms' = Append(rooms, cur.room)
      /\ selected' = Len(rooms')
      /\ Save(rooms')
      /\ pc' = "pushed"
      /\ UNCHANGED <<online, client, demo, creating>>
  BY DEF PushRoom
<1>4. /\ rooms' \in Seq(AllRooms)
      /\ Len(rooms') = Len(rooms) + 1
      /\ ToSet(rooms') = ToSet(rooms) \cup {cur.room}
      /\ IsInjective(rooms')
  BY <1>1, <1>2, <1>3, AppendFacts DEF EngineType, Lists, ListedOnce
<1>5. ~demo => DemoRoom \notin ToSet(rooms')
  BY <1>1, <1>2, <1>4 DEF Lists, DemoListedInDemo
<1>6. stored' \in Seq(AllRooms) /\ IsInjective(stored') /\ DemoIsNotStored'
  BY <1>1, <1>3, <1>4, <1>5, SaveKeeps DEF EngineType, Lists
<1>7. selected' \in 1..Len(rooms') /\ rooms' # <<>> /\ DOMAIN rooms' = 1..Len(rooms')
  <2>1. Len(rooms) \in Nat
    BY <1>1 DEF EngineType
  <2>2. Len(<<>>) = 0
    OBVIOUS
  <2> QED
    BY <1>3, <1>4, <2>1, <2>2
<1>8. EngineType'
  <2>1. selected' \in 0..Len(rooms')
    BY <1>7
  <2> QED
    BY <1>1, <1>3, <1>4, <1>6, <2>1 DEF EngineType
<1>9. Lists'
  BY <1>3, <1>4, <1>5, <1>6, <1>7
     DEF Lists, SelectionValid, ListedOnce, DemoListedInDemo
<1> QED
  BY <1>3, <1>8, <1>9 DEF PushedIsNew

(* Erasing the room at an index keeps the selection valid, and on the same *)
(* room unless that room is the one erased.                                *)
LEMMA EraseKeeps ==
  ASSUME EngineType, Lists, NEW i \in DOMAIN rooms, Erase(i)
  PROVE  /\ rooms' \in Seq(AllRooms)
         /\ selected' \in 0..Len(rooms')
         /\ SelectionValid'
         /\ ListedOnce'
         /\ ToSet(rooms') \subseteq ToSet(rooms)
         /\ selected # i => rooms'[selected'] = rooms[selected]
<1>1. Len(rooms) \in Nat /\ DOMAIN rooms = 1..Len(rooms) /\ i \in 1..Len(rooms)
  BY DEF EngineType
<1>2. /\ rooms' = RemoveAt(rooms, i)
      /\ selected' = IF Len(rooms') = 0 THEN 0
                     ELSE IF selected > i THEN selected - 1
                     ELSE IF selected > Len(rooms') THEN Len(rooms') ELSE selected
  BY DEF Erase
<1>3. /\ rooms' \in Seq(AllRooms)
      /\ Len(rooms') = Len(rooms) - 1
      /\ \A j \in 1..(Len(rooms) - 1) : rooms'[j] = IF j < i THEN rooms[j] ELSE rooms[j + 1]
      /\ ToSet(rooms') \subseteq ToSet(rooms)
      /\ IsInjective(rooms')
  BY <1>2, RemoveAtFacts DEF EngineType, Lists, ListedOnce
<1>4. selected \in 1..Len(rooms)
  <2>1. rooms # <<>>
    BY <1>1
  <2> QED
    BY <1>1, <2>1 DEF Lists, SelectionValid
<1>5. CASE Len(rooms) = 1
  <2>1. rooms' = <<>> /\ selected' = 0
    BY <1>2, <1>3, <1>5, EmptySeq
  <2> QED
    BY <1>1, <1>3, <1>4, <1>5, <2>1 DEF SelectionValid, ListedOnce
<1>6. CASE Len(rooms) > 1
  <2>1. selected' = IF selected > i THEN selected - 1
                    ELSE IF selected > Len(rooms) - 1 THEN Len(rooms) - 1 ELSE selected
    BY <1>1, <1>2, <1>3, <1>6
  <2>2. selected' \in 1..(Len(rooms) - 1)
    BY <1>1, <1>4, <1>6, <2>1
  <2>3. DOMAIN rooms' = 1..(Len(rooms) - 1) /\ rooms' # <<>>
    BY <1>1, <1>3, <1>6
  <2>4. ASSUME selected # i PROVE rooms'[selected'] = rooms[selected]
    BY <1>1, <1>3, <1>4, <2>1, <2>2, <2>4
  <2> QED
    BY <1>1, <1>3, <2>2, <2>3, <2>4 DEF SelectionValid, ListedOnce
<1> QED
  BY <1>1, <1>5, <1>6

LEMMA IndexOfFound ==
  ASSUME NEW r \in ToSet(rooms)
  PROVE  IndexOf(r) \in DOMAIN rooms /\ rooms[IndexOf(r)] = r
BY DEF IndexOf, ToSet

LEMMA RemoveKeeps ==
  ASSUME SelectionInv, RemoveErases
  PROVE  EngineType' /\ Lists' /\ PushedIsNew'
<1>1. EngineType /\ Lists
  BY TypeParts DEF SelectionInv
<1>2. /\ pc' \in {"idle", "notify"}
      /\ UNCHANGED <<online, client, demo, creating>>
  BY DEF RemoveErases
<1>3. PushedIsNew'
  BY <1>2 DEF PushedIsNew
<1>4. CASE cur.room \in ToSet(rooms)
  <2>1. Erase(IndexOf(cur.room)) /\ Save(rooms')
    BY <1>4 DEF RemoveErases
  <2>2. /\ rooms' \in Seq(AllRooms)
        /\ selected' \in 0..Len(rooms')
        /\ SelectionValid'
        /\ ListedOnce'
        /\ ToSet(rooms') \subseteq ToSet(rooms)
    BY <1>1, <1>4, <2>1, IndexOfFound, EraseKeeps
  <2>3. ~demo => DemoRoom \notin ToSet(rooms')
    BY <1>1, <2>2 DEF Lists, DemoListedInDemo
  <2>4. IsInjective(rooms')
    BY <2>2 DEF ListedOnce
  <2>5. stored' \in Seq(AllRooms) /\ IsInjective(stored') /\ DemoIsNotStored'
    BY <1>1, <2>1, <2>2, <2>3, <2>4, SaveKeeps DEF EngineType, Lists
  <2> QED
    BY <1>1, <1>2, <1>3, <2>2, <2>3, <2>5 DEF EngineType, Lists, DemoListedInDemo
<1>5. CASE cur.room \notin ToSet(rooms)
  <2>1. UNCHANGED <<rooms, selected, stored>>
    BY <1>5 DEF RemoveErases
  <2> QED
    BY <1>1, <1>2, <1>3, <2>1
       DEF EngineType, Lists, SelectionValid, ListedOnce, DemoIsNotStored, DemoListedInDemo
<1> QED
  BY <1>4, <1>5

LEMMA ReconnectKeeps ==
  ASSUME SelectionInv, ReconnectClears \/ ReconnectInstalls
  PROVE  EngineType' /\ Lists' /\ PushedIsNew'
<1>1. EngineType /\ Lists
  BY TypeParts DEF SelectionInv
<1>2. <<>> \in Seq(AllRooms) /\ Len(<<>>) = 0 /\ DOMAIN <<>> = {}
  BY EmptySeq
<1>3. CASE ReconnectClears
  <2>1. rooms' = <<>> /\ selected' = 0 /\ online' = FALSE /\ pc' = "install"
        /\ UNCHANGED <<client, demo, creating, stored>>
    BY <1>3 DEF ReconnectClears
  <2>2. EngineType'
    <3>1. selected' \in 0..Len(rooms')
      BY <1>2, <2>1
    <3> QED
      BY <1>1, <1>2, <2>1, <3>1 DEF EngineType
  <2>3. Lists'
    <3>1. ToSet(rooms') = {} /\ IsInjective(rooms')
      BY <1>2, <2>1 DEF ToSet, IsInjective
    <3> QED
      BY <1>1, <2>1, <3>1
         DEF Lists, SelectionValid, ListedOnce, DemoIsNotStored, DemoListedInDemo
  <2> QED
    BY <2>1, <2>2, <2>3 DEF PushedIsNew
<1>4. CASE ReconnectInstalls
  <2>1. /\ rooms' = stored
        /\ selected' = IF stored = <<>> THEN 0 ELSE 1
        /\ online' = TRUE /\ client' = TRUE /\ demo' = FALSE
        /\ pc' = "notify"
        /\ UNCHANGED <<creating, stored>>
    BY <1>4 DEF ReconnectInstalls
  <2>2. /\ selected' \in 0..Len(rooms')
        /\ SelectionValid'
    <3>1. stored \in Seq(AllRooms) /\ Len(stored) \in Nat /\ DOMAIN stored = 1..Len(stored)
      BY <1>1 DEF EngineType
    <3>2. CASE stored = <<>>
      BY <1>2, <2>1, <3>2 DEF SelectionValid
    <3>3. CASE stored # <<>>
      <4>1. Len(stored) \in Nat \ {0}
        BY <3>1, <3>3, EmptySeq
      <4> QED
        BY <2>1, <3>1, <3>3, <4>1 DEF SelectionValid
    <3> QED
      BY <3>2, <3>3
  <2>3. EngineType'
    BY <1>1, <2>1, <2>2 DEF EngineType
  <2>4. Lists'
    BY <1>1, <2>1, <2>2 DEF Lists, ListedOnce, DemoIsNotStored, DemoListedInDemo
  <2> QED
    BY <2>1, <2>3, <2>4 DEF PushedIsNew
<1> QED
  BY <1>3, <1>4

-----------------------------------------------------------------------------
(* A step that leaves the engine's state alone keeps what is said of it.   *)
LEMMA EngineStutters ==
  ASSUME SelectionInv, UNCHANGED engine
  PROVE  EngineType' /\ Lists'
BY TypeParts
   DEF SelectionInv, engine, EngineType, Lists, SelectionValid, ListedOnce, DemoIsNotStored,
       DemoListedInDemo

LEMMA CreatingKeeps ==
  ASSUME SelectionInv, UNCHANGED <<rooms, selected, online, demo, stored>>,
         client' \in BOOLEAN, creating' \in BOOLEAN
  PROVE  EngineType' /\ Lists'
BY TypeParts
   DEF SelectionInv, EngineType, Lists, SelectionValid, ListedOnce, DemoIsNotStored,
       DemoListedInDemo

(* The lists through every step.                                           *)
LEMMA NextLists ==
  ASSUME SelectionInv, Next
  PROVE  EngineType' /\ Lists'
<1>1. EngineType /\ Lists /\ ScreenType
  BY TypeParts DEF SelectionInv
<1>2. ASSUME RequestCreate \/ EndCreate PROVE EngineType' /\ Lists'
  <2>1. /\ UNCHANGED <<rooms, selected, online, client, demo, stored>>
        /\ creating' \in BOOLEAN
    BY <1>2 DEF RequestCreate, EndCreate
  <2> QED
    BY <1>1, <2>1, CreatingKeeps DEF EngineType
<1>3. ASSUME ReconnectDrops PROVE EngineType' /\ Lists'
  <2>1. /\ UNCHANGED <<rooms, selected, online, creating, demo, stored>>
        /\ client' \in BOOLEAN
    BY <1>3 DEF ReconnectDrops
  <2> QED
    BY <1>1, <2>1, CreatingKeeps DEF EngineType
<1>4. ASSUME (\E i \in DOMAIN shown.rooms, right \in BOOLEAN : Click(i, right)) \/ RowSelected
      PROVE  EngineType' /\ Lists'
  <2>1. PICK i \in Nat : Select(i) /\ UNCHANGED <<rooms, online, client, demo, creating, stored>>
    <3>1. CASE RowSelected
      BY <1>1, <3>1 DEF RowSelected, ScreenType
    <3>2. CASE \E i \in DOMAIN shown.rooms, right \in BOOLEAN : Click(i, right)
      <4>1. DOMAIN shown.rooms \subseteq Nat
        <5>1. shown.rooms \in Seq(AllRooms)
          BY <1>1 DEF ScreenType
        <5> QED
          BY <5>1
      <4> QED
        BY <3>2, <4>1 DEF Click
    <3> QED
      BY <1>4, <3>1, <3>2
  <2>2. selected' \in 0..Len(rooms') /\ SelectionValid'
    BY <1>1, <2>1, SelectKeeps DEF Lists, ScreenType
  <2> QED
    BY <1>1, <2>1, <2>2 DEF EngineType, Lists, ListedOnce, DemoIsNotStored, DemoListedInDemo
<1>5. ASSUME UNCHANGED engine PROVE EngineType' /\ Lists'
  BY <1>5, EngineStutters
<1>6. CASE User
  <2>1. RequestReconnect => UNCHANGED engine
    BY DEF RequestReconnect
  <2>2. (\E r \in InviteRooms : RequestJoin(r)) => UNCHANGED engine
    BY DEF RequestJoin
  <2>3. CloseMenu \/ ConfirmRemove \/ Leave => UNCHANGED engine
    BY DEF CloseMenu, ConfirmRemove, Leave
  <2> QED
    BY <1>2, <1>4, <1>5, <1>6, <2>1, <2>2, <2>3, DemoKeeps DEF User
<1>7. CASE Window
  <2>1. OpenMenu \/ HandleRefresh \/ Draw => UNCHANGED engine
    BY DEF OpenMenu, HandleRefresh, Draw
  <2> QED
    BY <1>4, <1>5, <1>7, <2>1 DEF Window
<1>8. CASE OperationThread
  <2>1. TakeOperation \/ StartCreate \/ CreateWithoutClient \/ CreateFails => UNCHANGED engine
    BY DEF TakeOperation, StartCreate, CreateWithoutClient, CreateFails
  <2>2. StartJoin \/ StartRemove \/ ReconnectFails \/ Notify => UNCHANGED engine
    BY DEF StartJoin, StartRemove, ReconnectFails, Notify
  <2> QED
    BY <1>2, <1>3, <1>5, <1>8, <2>1, <2>2, PushKeeps, RemoveKeeps, ReconnectKeeps
       DEF OperationThread
<1> QED
  BY <1>6, <1>7, <1>8 DEF Next

(* Request appends one operation, within the bound.                        *)
LEMMA RequestKeeps ==
  ASSUME TypeOK, NEW op, NEW room, [op |-> op, room |-> room] \in Operations,
         Request(op, room)
  PROVE  ops' \in Seq(Operations) /\ requests' \in 0..MaxRequests
<1>1. ops \in Seq(Operations) /\ requests \in 0..MaxRequests /\ MaxRequests \in Nat
  BY SelectionAssumption DEF TypeOK
<1>2. ops' \in Seq(Operations)
  BY <1>1 DEF Request
<1>3. requests' \in 0..MaxRequests
  BY <1>1 DEF Request
<1> QED
  BY <1>2, <1>3

(* The operations the interface makes.                                     *)
LEMMA RequestTypes ==
  /\ [op |-> "create", room |-> NoRoom] \in Operations
  /\ [op |-> "reconnect", room |-> NoRoom] \in Operations
  /\ \A r \in InviteRooms : [op |-> "join", room |-> r] \in Operations
  /\ \A r \in AllRooms : [op |-> "remove", room |-> r] \in Operations
BY DEF Operations

(* The room on the screen that Leave removes.                              *)
LEMMA ShownRoom ==
  ASSUME TypeOK, shown.selected \in DOMAIN shown.rooms
  PROVE  shown.rooms[shown.selected] \in AllRooms
<1>1. shown.rooms \in Seq(AllRooms)
  BY DEF TypeOK
<1> QED
  BY <1>1

LEMMA UserTypes ==
  ASSUME SelectionInv, User
  PROVE  WorkerType' /\ ScreenType'
<1>1. TypeOK /\ WorkerType /\ ScreenType /\ MaxRequests \in Nat
  BY SelectionAssumption, TypeParts DEF SelectionInv
<1>2. CASE RequestCreate
  <2>1. ops' \in Seq(Operations) /\ requests' \in 0..MaxRequests
    BY <1>1, <1>2, RequestKeeps, RequestTypes DEF RequestCreate
  <2> QED
    BY <1>1, <1>2, <2>1 DEF RequestCreate, WorkerType, ScreenType
<1>3. CASE RequestReconnect
  <2>1. ops' \in Seq(Operations) /\ requests' \in 0..MaxRequests
    BY <1>1, <1>3, RequestKeeps, RequestTypes DEF RequestReconnect
  <2> QED
    BY <1>1, <1>3, <2>1 DEF RequestReconnect, WorkerType, ScreenType
<1>4. CASE StartDemo
  <2>1. requests' \in 0..MaxRequests
    BY <1>1, <1>4 DEF StartDemo, ScreenType
  <2> QED
    BY <1>1, <1>4, <2>1 DEF StartDemo, WorkerType, ScreenType, worker
<1>5. ASSUME NEW r \in InviteRooms, RequestJoin(r)
      PROVE  WorkerType' /\ ScreenType'
  <2>1. ops' \in Seq(Operations) /\ requests' \in 0..MaxRequests
    BY <1>1, <1>5, RequestKeeps, RequestTypes DEF RequestJoin
  <2> QED
    BY <1>1, <1>5, <2>1 DEF RequestJoin, WorkerType, ScreenType, screen
<1>6. ASSUME NEW i \in DOMAIN shown.rooms, NEW right \in BOOLEAN, Click(i, right)
      PROVE  WorkerType' /\ ScreenType'
  <2>1. i \in Nat
    <3>1. shown.rooms \in Seq(AllRooms)
      BY <1>1 DEF ScreenType
    <3> QED
      BY <3>1
  <2>2. refresh' \in BOOLEAN
    BY <1>1, <1>6 DEF Click, Select, ScreenType
  <2>3. draw' \in {"menu", "idle"}
    BY <1>6 DEF Click
  <2> QED
    BY <1>1, <1>6, <2>1, <2>2, <2>3 DEF Click, WorkerType, ScreenType, worker
<1>7. CASE CloseMenu
  BY <1>1, <1>7 DEF CloseMenu, WorkerType, ScreenType, worker
<1>8. CASE ConfirmRemove
  <2>1. menu \in AllRooms
    BY <1>1, <1>8 DEF ConfirmRemove, ScreenType
  <2>2. ops' \in Seq(Operations) /\ requests' \in 0..MaxRequests
    BY <1>1, <1>8, <2>1, RequestKeeps, RequestTypes DEF ConfirmRemove
  <2> QED
    BY <1>1, <1>8, <2>2 DEF ConfirmRemove, WorkerType, ScreenType
<1>9. CASE Leave
  <2>1. shown.rooms[shown.selected] \in AllRooms
    BY <1>1, <1>9, ShownRoom DEF Leave
  <2>2. ops' \in Seq(Operations) /\ requests' \in 0..MaxRequests
    BY <1>1, <1>9, <2>1, RequestKeeps, RequestTypes DEF Leave
  <2> QED
    BY <1>1, <1>9, <2>2 DEF Leave, WorkerType, ScreenType, screen
<1> QED
  BY <1>2, <1>3, <1>4, <1>5, <1>6, <1>7, <1>8, <1>9 DEF User

LEMMA WindowTypes ==
  ASSUME SelectionInv, Window
  PROVE  WorkerType' /\ ScreenType'
<1>1. EngineType /\ WorkerType /\ ScreenType
  BY TypeParts DEF SelectionInv
<1>2. CASE OpenMenu
  <2>1. menu' \in AllRooms \cup {NoRoom}
    BY <1>1, <1>2 DEF OpenMenu, EngineType
  <2> QED
    BY <1>1, <1>2, <2>1 DEF OpenMenu, WorkerType, ScreenType, worker
<1>3. CASE HandleRefresh
  BY <1>1, <1>3 DEF HandleRefresh, WorkerType, ScreenType, worker
<1>4. CASE Draw
  <2>1. selected \in Nat
    BY <1>1 DEF EngineType
  <2>2. shown' \in [rooms : Seq(AllRooms), selected : Nat]
    <3>1. shown' = [rooms |-> rooms, selected |-> selected]
      BY <1>4 DEF Draw
    <3> QED
      BY <1>1, <2>1, <3>1, Zenon DEF EngineType
  <2>3. pointed' \in Nat /\ draw' \in {"callback", "idle"}
    BY <1>4, <2>1 DEF Draw
  <2> QED
    BY <1>1, <1>4, <2>2, <2>3 DEF Draw, WorkerType, ScreenType, worker
<1>5. CASE RowSelected
  <2>1. refresh' \in BOOLEAN
    BY <1>1, <1>5 DEF RowSelected, Select, ScreenType
  <2> QED
    BY <1>1, <1>5, <2>1 DEF RowSelected, WorkerType, ScreenType, worker
<1> QED
  BY <1>2, <1>3, <1>4, <1>5 DEF Window

LEMMA OperationTypes ==
  ASSUME SelectionInv, OperationThread
  PROVE  WorkerType' /\ ScreenType'
<1>1. EngineType /\ Lists /\ WorkerType /\ ScreenType
  BY TypeParts DEF SelectionInv
<1>2. CASE TakeOperation
  <2>1. /\ Head(ops) \in Operations
        /\ Tail(ops) \in Seq(Operations)
    BY <1>1, <1>2 DEF TakeOperation, WorkerType
  <2> QED
    BY <1>1, <1>2, <2>1 DEF TakeOperation, WorkerType, ScreenType, screen
<1>3. CASE StartCreate
  <2>1. PICK r \in NewRooms : cur' = [cur EXCEPT !.room = r]
    BY <1>3 DEF StartCreate, FreshRooms
  <2>2. cur' \in Creations
    BY <1>1, <1>3, <2>1 DEF StartCreate, WorkerType, Operations, Creations
  <2> QED
    BY <1>1, <1>3, <2>2 DEF StartCreate, WorkerType, ScreenType, screen
<1>4. CASE CreateWithoutClient
  BY <1>1, <1>4 DEF CreateWithoutClient, WorkerType, ScreenType
<1>5. CASE CreateFails
  BY <1>1, <1>5 DEF CreateFails, WorkerType, ScreenType, screen
<1>6. CASE EndCreate
  BY <1>1, <1>6 DEF EndCreate, WorkerType, ScreenType, screen
<1>7. CASE StartJoin
  BY <1>1, <1>7 DEF StartJoin, WorkerType, ScreenType, screen
<1>8. CASE PushRoom
  BY <1>1, <1>8 DEF PushRoom, WorkerType, ScreenType, screen
<1>9. CASE StartRemove
  <2>1. CASE selected = 0
    BY <1>1, <1>9, <2>1 DEF StartRemove, WorkerType, ScreenType, screen
  <2>2. CASE selected # 0
    <3>1. rooms[selected] \in AllRooms
      BY <1>1, <2>2 DEF EngineType
    <3>2. cur' = [cur EXCEPT !.room = rooms[selected]] /\ pc' = "erase"
      BY <1>9, <2>2 DEF StartRemove
    <3>3. cur' \in Operations
      BY <1>1, <1>9, <3>1, <3>2 DEF StartRemove, WorkerType, Operations, Creations
    <3>4. wrong' \in BOOLEAN
      BY <1>1, <1>9, <2>2 DEF StartRemove, ScreenType
    <3> QED
      BY <1>1, <1>9, <3>2, <3>3, <3>4 DEF StartRemove, WorkerType, ScreenType, screen
  <2> QED
    BY <2>1, <2>2
<1>10. CASE RemoveErases
  BY <1>1, <1>10 DEF RemoveErases, WorkerType, ScreenType, screen
<1>11. CASE ReconnectDrops \/ ReconnectClears
  BY <1>1, <1>11 DEF ReconnectDrops, ReconnectClears, WorkerType, ScreenType, screen
<1>12. CASE ReconnectInstalls \/ ReconnectFails
  BY <1>1, <1>12 DEF ReconnectInstalls, ReconnectFails, WorkerType, ScreenType, screen
<1>13. CASE Notify
  BY <1>1, <1>13 DEF Notify, WorkerType, ScreenType
<1> QED
  BY <1>2, <1>3, <1>4, <1>5, <1>6, <1>7, <1>8, <1>9, <1>10, <1>11, <1>12, <1>13
     DEF OperationThread

(* What is about to be pushed was looked up on the operation thread, and   *)
(* nothing else can list it meanwhile.                                     *)
LEMMA NextPushed ==
  ASSUME SelectionInv, Next
  PROVE  PushedIsNew'
<1>1. EngineType /\ WorkerType /\ PushedIsNew
  BY TypeParts DEF SelectionInv
<1>2. CASE User \/ Window
  <2>1. CASE StartDemo
    BY <2>1, DemoKeeps
  <2>2. CASE (User \/ Window) /\ ~StartDemo
    <3>1. UNCHANGED <<rooms, pc, cur>>
      BY <2>2 DEF User, Window, RequestCreate, RequestReconnect, RequestJoin, Click,
         CloseMenu, ConfirmRemove, Leave, OpenMenu, HandleRefresh, Draw, RowSelected,
         engine, worker
    <3> QED
      BY <1>1, <3>1 DEF PushedIsNew
  <2> QED
    BY <1>2, <2>1, <2>2
<1>3. CASE StartCreate
  <2>1. PICK r \in FreshRooms : cur' = [cur EXCEPT !.room = r] /\ rooms' = rooms
    BY <1>3 DEF StartCreate, engine
  <2>2. cur'.room = r
    BY <1>1, <2>1 DEF WorkerType, Operations, Creations
  <2> QED
    BY <2>1, <2>2 DEF PushedIsNew, FreshRooms
<1>4. CASE StartJoin
  <2>1. cur.room \in InviteRooms /\ cur' = cur /\ rooms' = rooms
    BY <1>1, <1>4 DEF StartJoin, WorkerType, Operations, Creations, engine
  <2> QED
    BY <1>4, <2>1 DEF StartJoin, PushedIsNew
<1>5. CASE OperationThread /\ ~StartCreate /\ ~StartJoin
  <2>1. pc' # "push"
    BY <1>5 DEF OperationThread, TakeOperation, CreateWithoutClient, CreateFails, EndCreate,
       PushRoom, StartRemove, RemoveErases, ReconnectDrops, ReconnectClears,
       ReconnectInstalls, ReconnectFails, Notify
  <2> QED
    BY <2>1 DEF PushedIsNew
<1> QED
  BY <1>2, <1>3, <1>4, <1>5 DEF Next

LEMMA NextSelectionInv == SelectionInv /\ [Next]_vars => SelectionInv'
<1> SUFFICES ASSUME SelectionInv, [Next]_vars PROVE SelectionInv'
  OBVIOUS
<1>1. CASE Next
  <2>1. WorkerType' /\ ScreenType'
    BY <1>1, UserTypes, WindowTypes, OperationTypes DEF Next
  <2>2. EngineType' /\ Lists' /\ PushedIsNew'
    BY <1>1, NextLists, NextPushed
  <2>3. TypeOK'
    BY <2>1, <2>2 DEF TypeOK, EngineType, WorkerType, ScreenType
  <2> QED
    BY <2>2, <2>3 DEF SelectionInv
<1>2. CASE UNCHANGED vars
  <2>1. UNCHANGED engine /\ UNCHANGED worker /\ UNCHANGED screen /\ UNCHANGED <<requests, wrong>>
    BY <1>2 DEF vars
  <2>2. EngineType' /\ Lists'
    BY <2>1, EngineStutters
  <2>3. WorkerType' /\ PushedIsNew'
    BY <2>1, TypeParts DEF SelectionInv, WorkerType, PushedIsNew, worker, engine
  <2>4. ScreenType'
    BY <2>1, TypeParts DEF SelectionInv, ScreenType, screen
  <2>5. TypeOK'
    BY <2>2, <2>3, <2>4 DEF TypeOK, EngineType, WorkerType, ScreenType
  <2> QED
    BY <2>2, <2>3, <2>5 DEF SelectionInv
<1> QED
  BY <1>1, <1>2

(* The invariant of the room list (create_room, join_room,                 *)
(* remove_selected_room, select_room, start_demo_mode, connect_impl).      *)
THEOREM SelectionInvariant == Spec => []SelectionInv
<1>1. SelectionInv /\ [Next]_vars => SelectionInv'
  BY NextSelectionInv
<1> QED
  BY <1>1, InitLists, PTL DEF Spec

(* Every variable keeps its type.                                          *)
THEOREM SelectionTypeOK == Spec => []TypeOK
<1>1. SelectionInv => TypeOK
  BY DEF SelectionInv
<1> QED
  BY <1>1, SelectionInvariant, PTL

(* selected_room is an index of the list, or none when it is empty.        *)
THEOREM SelectionAlwaysValid == Spec => []SelectionValid
<1>1. SelectionInv => SelectionValid
  BY DEF SelectionInv, Lists
<1> QED
  BY <1>1, SelectionInvariant, PTL

(* No room is listed twice, however often its invite is queued.            *)
THEOREM RoomsListedOnce == Spec => []ListedOnce
<1>1. SelectionInv => ListedOnce
  BY DEF SelectionInv, Lists
<1> QED
  BY <1>1, SelectionInvariant, PTL

(* The demo room never gets into the list save_locked stores.              *)
THEOREM DemoNeverStored == Spec => []DemoIsNotStored
<1>1. SelectionInv => DemoIsNotStored
  BY DEF SelectionInv, Lists
<1> QED
  BY <1>1, SelectionInvariant, PTL

(* What is on the screen and what is selected change together with a       *)
(* refresh, or on the operation thread's way to its notify.                *)
LEMMA NextRefreshComes == RefreshComes /\ [Next]_vars => RefreshComes'
<1> SUFFICES ASSUME RefreshComes, [Next]_vars PROVE RefreshComes'
  OBVIOUS
<1> USE DEF RefreshComes, engine, worker, screen
<1>1. CASE User
  <2>1. refresh' \/ UNCHANGED <<rooms, selected, shown, refresh, pc>>
    BY <1>1 DEF User, RequestCreate, RequestReconnect, RequestJoin, StartDemo, Click, Select,
       CloseMenu, ConfirmRemove, Leave
  <2>2. draw = "snapshot" => draw' = draw \/ refresh'
    BY <1>1 DEF User, RequestCreate, RequestReconnect, RequestJoin, StartDemo, Click,
       CloseMenu, ConfirmRemove, Leave
  <2> QED
    BY <2>1, <2>2
<1>2. CASE Window
  BY <1>2 DEF Window, OpenMenu, HandleRefresh, Draw, RowSelected, Select
<1>3. CASE OperationThread
  BY <1>3
  DEF OperationThread, TakeOperation, StartCreate, CreateWithoutClient, CreateFails, EndCreate,
      StartJoin, PushRoom, StartRemove, RemoveErases, ReconnectDrops, ReconnectClears,
      ReconnectInstalls, ReconnectFails, Notify
<1>4. CASE UNCHANGED vars
  BY <1>4 DEF vars
<1> QED
  BY <1>1, <1>2, <1>3, <1>4 DEF Next

(* No refresh is lost between notify, the window's coalesced refresh and   *)
(* its drawing.                                                            *)
THEOREM RefreshAlwaysComes == Spec => []RefreshComes
<1>1. Init => RefreshComes
  BY DEF Init, RefreshComes
<1> QED
  BY <1>1, NextRefreshComes, PTL DEF Spec

-----------------------------------------------------------------------------
(* Only a creation reaches the point where the flag is cleared.            *)
CreatedInv == pc = "created" => cur.op = "create"

LEMMA NextCreatedInv == CreatedInv /\ [Next]_vars => CreatedInv'
BY DEF CreatedInv, Next, vars, worker, User, Window, OperationThread, RequestCreate,
   RequestReconnect, RequestJoin, StartDemo, Click, CloseMenu, ConfirmRemove, Leave, OpenMenu,
   HandleRefresh, Draw, RowSelected, TakeOperation, StartCreate, CreateWithoutClient,
   CreateFails, EndCreate, StartJoin, PushRoom, StartRemove, RemoveErases, ReconnectDrops,
   ReconnectClears, ReconnectInstalls, ReconnectFails, Notify

(* What queueing an operation does to the queued creations.                *)
LEMMA CreationQueued ==
  ASSUME ops \in Seq(Operations), NEW o \in Operations, ops' = Append(ops, o)
  PROVE  QueuedCreations' = QueuedCreations \cup (IF o.op = "create" THEN {Len(ops) + 1} ELSE {})
<1>1. /\ Len(ops) \in Nat /\ DOMAIN ops = 1..Len(ops)
      /\ DOMAIN ops' = 1..(Len(ops) + 1)
      /\ ops'[Len(ops) + 1] = o
      /\ \A i \in 1..Len(ops) : ops'[i] = ops[i]
  BY AppendProperties
<1> QED
  BY <1>1 DEF QueuedCreations

(* What taking one does to them.                                           *)
LEMMA CreationTaken ==
  ASSUME ops \in Seq(Operations), ops # <<>>, ops' = Tail(ops)
  PROVE  /\ QueuedCreations' = {i \in 1..(Len(ops) - 1) : i + 1 \in QueuedCreations}
         /\ 1 \in QueuedCreations <=> Head(ops).op = "create"
         /\ QueuedCreations \subseteq 1..Len(ops)
<1>1. /\ Len(ops) \in Nat \ {0} /\ DOMAIN ops = 1..Len(ops) /\ Head(ops) = ops[1]
      /\ DOMAIN ops' = 1..(Len(ops) - 1)
      /\ \A i \in 1..(Len(ops) - 1) : ops'[i] = ops[i + 1]
  BY HeadTailProperties, EmptySeq
<1> QED
  BY <1>1 DEF QueuedCreations

(* The flag is set with the operation that is queued, follows it through   *)
(* the operation thread, and is cleared where the operation ends.          *)
LEMMA NextCreationTracked ==
  ASSUME SelectionInv, CreatedInv, CreationTracked, [Next]_vars
  PROVE  CreationTracked'
<1> SUFFICES ASSUME pc' # "crashed"
             PROVE  /\ creating' <=> Creating' \/ QueuedCreations' # {}
                    /\ Creating' => QueuedCreations' = {}
                    /\ \A i, j \in QueuedCreations' : i = j
  BY DEF CreationTracked
<1> USE DEF engine, worker, screen
<1>1. ops \in Seq(Operations) /\ cur \in Operations \cup Creations
  BY TypeParts DEF SelectionInv, WorkerType
<1>2. \A r : [cur EXCEPT !.room = r].op = cur.op
  BY <1>1 DEF Operations, Creations
<1>3. pc # "crashed"
  BY DEF Next, vars, User, Window, OperationThread, RequestCreate, RequestReconnect,
     RequestJoin, StartDemo, Click, CloseMenu, ConfirmRemove, Leave, OpenMenu, HandleRefresh,
     Draw, RowSelected, TakeOperation, StartCreate, CreateWithoutClient, CreateFails, EndCreate,
     StartJoin, PushRoom, StartRemove, RemoveErases, ReconnectDrops, ReconnectClears,
     ReconnectInstalls, ReconnectFails, Notify
<1>4. /\ creating <=> Creating \/ QueuedCreations # {}
      /\ Creating => QueuedCreations = {}
      /\ \A i, j \in QueuedCreations : i = j
  BY <1>3 DEF CreationTracked
<1>5. ASSUME NEW o \in Operations, ops' = Append(ops, o), UNCHANGED <<pc, cur>>,
             o.op = "create" => ~creating /\ creating',
             o.op # "create" => UNCHANGED creating
      PROVE  /\ creating' <=> Creating' \/ QueuedCreations' # {}
             /\ Creating' => QueuedCreations' = {}
             /\ \A i, j \in QueuedCreations' : i = j
  <2>1. QueuedCreations' = QueuedCreations \cup (IF o.op = "create" THEN {Len(ops) + 1} ELSE {})
    BY <1>1, <1>5, CreationQueued
  <2>2. Creating' <=> Creating
    BY <1>5 DEF Creating
  <2> QED
    BY <1>4, <1>5, <2>1, <2>2
<1>6. CASE UNCHANGED <<creating, ops, pc, cur>>
  BY <1>4, <1>6 DEF Creating, QueuedCreations
<1>7. CASE TakeOperation
  <2>1. /\ ops # <<>> /\ ops' = Tail(ops) /\ cur' = Head(ops) /\ pc' = "start" /\ creating' = creating
        /\ ~Creating
    BY <1>7 DEF TakeOperation, Creating
  <2>2. /\ QueuedCreations' = {i \in 1..(Len(ops) - 1) : i + 1 \in QueuedCreations}
        /\ 1 \in QueuedCreations <=> Head(ops).op = "create"
        /\ QueuedCreations \subseteq 1..Len(ops)
    BY <1>1, <2>1, CreationTaken
  <2>3. Creating' <=> 1 \in QueuedCreations
    BY <2>1, <2>2 DEF Creating
  <2>4. Len(ops) \in Nat
    BY <1>1, LenProperties
  <2>5. \A i \in QueuedCreations \ {1} : i - 1 \in QueuedCreations'
    BY <2>2, <2>4
  <2>6. QueuedCreations # {} <=> 1 \in QueuedCreations \/ QueuedCreations' # {}
    BY <2>2, <2>4, <2>5
  <2>7. 1 \in QueuedCreations => QueuedCreations' = {}
    BY <1>4, <2>2, <2>4
  <2>8. \A i, j \in QueuedCreations' : i = j
    <3>1. \A i \in QueuedCreations' : i \in Nat /\ i + 1 \in QueuedCreations
      BY <2>2, <2>4
    <3> QED
      BY <1>4, <3>1
  <2> HIDE DEF engine, worker, screen
  <2> QED
    BY <1>4, <2>1, <2>3, <2>6, <2>7, <2>8, Zenon
<1>8. CASE StartCreate \/ StartRemove
  <2>1. cur'.op = cur.op /\ UNCHANGED <<creating, ops>>
    BY <1>2, <1>8 DEF StartCreate, StartRemove
  <2>2. Creating' <=> Creating
    BY <1>8, <2>1 DEF StartCreate, StartRemove, Creating
  <2> QED
    BY <1>4, <2>1, <2>2 DEF QueuedCreations
<1>9. CASE \/ CreateFails \/ EndCreate \/ StartJoin \/ PushRoom \/ RemoveErases \/ ReconnectDrops
           \/ ReconnectClears \/ ReconnectInstalls \/ ReconnectFails \/ Notify
  <2>1. UNCHANGED <<ops, cur>>
    BY <1>9 DEF CreateFails, EndCreate, StartJoin, PushRoom, RemoveErases, ReconnectDrops,
       ReconnectClears, ReconnectInstalls, ReconnectFails, Notify
  <2>2. CASE EndCreate
    <3>1. pc' = "notify" /\ ~creating'
      BY <2>2 DEF EndCreate
    <3>2. Creating
      BY <2>2 DEF EndCreate, Creating, CreatedInv
    <3> QED
      BY <1>4, <2>1, <3>1, <3>2 DEF Creating, QueuedCreations
  <2>3. CASE ~EndCreate
    <3>1. UNCHANGED creating
      BY <1>9, <2>3 DEF CreateFails, StartJoin, PushRoom, RemoveErases, ReconnectDrops,
         ReconnectClears, ReconnectInstalls, ReconnectFails, Notify
    <3>2. Creating' <=> Creating
      BY <1>9, <2>1, <2>3 DEF CreateFails, StartJoin, PushRoom, RemoveErases, ReconnectDrops,
         ReconnectClears, ReconnectInstalls, ReconnectFails, Notify, Creating
    <3> QED
      BY <1>4, <2>1, <3>1, <3>2 DEF QueuedCreations
  <2> QED
    BY <2>2, <2>3
<1>10. CASE User
  <2>1. CASE UNCHANGED <<creating, ops, pc, cur>>
    BY <1>6, <2>1
  <2>2. CASE RequestCreate
    <3>1. ops' = Append(ops, [op |-> "create", room |-> NoRoom])
      BY <2>2 DEF RequestCreate, Request
    <3> QED
      BY <1>5, <2>2, <3>1, RequestTypes DEF RequestCreate
  <2>3. CASE RequestReconnect
    <3>1. ops' = Append(ops, [op |-> "reconnect", room |-> NoRoom])
      BY <2>3 DEF RequestReconnect, Request
    <3> QED
      BY <1>5, <2>3, <3>1, RequestTypes DEF RequestReconnect
  <2>4. ASSUME NEW r \in InviteRooms, RequestJoin(r)
        PROVE  ops' = Append(ops, [op |-> "join", room |-> r]) /\ UNCHANGED <<creating, pc, cur>>
    BY <2>4 DEF RequestJoin, Request
  <2>5. CASE ConfirmRemove \/ Leave
    <3>1. \E r \in AllRooms : ops' = Append(ops, [op |-> "remove", room |-> r])
      BY <2>5, ShownRoom DEF ConfirmRemove, Leave, Request, SelectionInv, TypeOK
    <3>2. UNCHANGED <<creating, pc, cur>>
      BY <2>5 DEF ConfirmRemove, Leave
    <3> QED
      BY <1>5, <3>1, <3>2, RequestTypes
  <2>6. CASE \E r \in InviteRooms : RequestJoin(r)
    BY <1>5, <2>4, <2>6, RequestTypes
  <2> QED
    BY <1>10, <2>1, <2>2, <2>3, <2>5, <2>6 DEF User, StartDemo, Click, CloseMenu
<1>11. CASE Window \/ UNCHANGED vars
  BY <1>6, <1>11 DEF Window, OpenMenu, HandleRefresh, Draw, RowSelected, vars
<1>12. CASE CreateWithoutClient
  BY <1>12 DEF CreateWithoutClient
<1> QED
  BY <1>7, <1>8, <1>9, <1>10, <1>11, <1>12 DEF Next, OperationThread

(* The create button is disabled exactly while one creation is queued or   *)
(* under way, for any number of requests, joins, removals and reconnects.  *)
THEOREM CreationAlwaysTracked == Spec => []CreationTracked
<1>1. Init => CreatedInv /\ CreationTracked
  BY DEF Init, CreatedInv, CreationTracked, Creating, QueuedCreations
<1>2. SelectionInv /\ CreatedInv /\ CreationTracked /\ [Next]_vars
        => (CreatedInv /\ CreationTracked)'
  BY NextCreatedInv, NextCreationTracked
<1> QED
  BY <1>1, <1>2, SelectionInvariant, PTL DEF Spec

-----------------------------------------------------------------------------
(* The erasure of remove_selected_room keeps another room selected.        *)
THEOREM ErasureFollowsSelection == Spec => ErasureKeepsSelection
<1> DEFINE A == pc = "erase" /\ rooms' # rooms /\ selected # 0 /\ rooms[selected] # cur.room
                  => rooms'[selected'] = rooms[selected]
<1>1. SelectionInv /\ [Next]_vars => [A]_vars
  <2> SUFFICES ASSUME SelectionInv, Next, pc = "erase", rooms' # rooms, selected # 0,
                      rooms[selected] # cur.room
               PROVE  rooms'[selected'] = rooms[selected]
    OBVIOUS
  <2>1. EngineType /\ Lists
    BY TypeParts DEF SelectionInv
  <2>2. RemoveErases
    <3>1. rooms # <<>>
      BY <2>1 DEF Lists, SelectionValid
    <3> QED
      BY <3>1 DEF Next, User, Window, OperationThread, RequestCreate, RequestReconnect,
         RequestJoin, StartDemo, Click, CloseMenu, ConfirmRemove, Leave, OpenMenu,
         HandleRefresh, Draw, RowSelected, TakeOperation, StartCreate, CreateWithoutClient,
         CreateFails, EndCreate, StartJoin, PushRoom, StartRemove, ReconnectDrops,
         ReconnectClears, ReconnectInstalls, ReconnectFails, Notify, engine
  <2>3. cur.room \in ToSet(rooms) /\ Erase(IndexOf(cur.room))
    BY <2>2 DEF RemoveErases
  <2>4. IndexOf(cur.room) \in DOMAIN rooms /\ selected # IndexOf(cur.room)
    BY <2>3, IndexOfFound
  <2> QED
    BY <2>1, <2>3, <2>4, EraseKeeps
<1> QED
  BY <1>1, SelectionInvariant, PTL DEF Spec, ErasureKeepsSelection

=============================================================================
