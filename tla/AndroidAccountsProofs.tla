------------------------ MODULE AndroidAccountsProofs ------------------------
(***************************************************************************)
(* Proofs about AndroidAccounts: as long as no coroutine goes on past a    *)
(* reconnect, accounts stay apart, no save is lost and no membership goes  *)
(* but those the user removed.                                             *)
(***************************************************************************)
EXTENDS AndroidAccounts, TLAPS

-----------------------------------------------------------------------------
(* Types.                                                                  *)
LEMMA OutdatedType ==
  ASSUME NEW api \in Clients \cup {NoClient}, NEW c \in Connections
  PROVE  /\ Outdated(api, c).account = api.account
         /\ Outdated(api, c) \in Clients \cup {NoClient}
         /\ Outdated(api, c).by # c
<1>1. Older # c
  BY AccountsAssumption
<1>2. api.by = c => api \in Clients
  BY <1>1 DEF NoClient
<1>3. CASE api.by = c
  BY <1>1, <1>2, <1>3 DEF Outdated, Clients
<1>4. CASE api.by # c
  BY <1>4 DEF Outdated
<1> QED
  BY <1>3, <1>4

(* A save whose connection is outdated is a save of the same list.         *)
LEMMA OutdatedSave ==
  ASSUME NEW s \in Saves \cup {NoSave}, NEW c \in Connections,
         NEW t, t = [s EXCEPT !.api = Outdated(@, c)]
  PROVE  /\ t \in Saves \cup {NoSave}
         /\ t.profile = s.profile
         /\ t.rooms = s.rooms
         /\ t.api = Outdated(s.api, c)
         /\ t = NoSave <=> s = NoSave
<1>1. CASE s = NoSave
  <2>1. Outdated(NoClient, c) = NoClient
    BY AccountsAssumption DEF Outdated, NoClient
  <2>2. t = NoSave
    BY <1>1, <2>1 DEF NoSave
  <2> QED
    BY <1>1, <2>1, <2>2 DEF NoSave
<1>2. CASE s # NoSave
  <2>1. s \in Saves
    BY <1>2
  <2>2. Outdated(s.api, c) \in Clients
    <3>1. s.api \in Clients /\ s.api.account \in Accounts
      BY <2>1 DEF Saves, Clients
    <3>2. Outdated(s.api, c).account \in Accounts
      BY <3>1, OutdatedType
    <3>3. NoClient.account = NoAccount /\ NoAccount \notin Accounts
      BY AccountsAssumption DEF NoClient
    <3> QED
      BY <3>1, <3>2, <3>3, OutdatedType
  <2>3. /\ t \in Saves
        /\ t.profile = s.profile
        /\ t.rooms = s.rooms
        /\ t.api = Outdated(s.api, c)
    BY <2>1, <2>2 DEF Saves
  <2>4. NoSave \notin Saves
    BY AccountsAssumption DEF NoSave, Saves
  <2> QED
    BY <1>2, <2>3, <2>4
<1> QED
  BY <1>1, <1>2

LEMMA SaveType ==
  ASSUME TypeOK, NEW list \in SUBSET Memberships, Save(list)
  PROVE  /\ (pending \in Saves \cup {NoSave})'
         /\ (signal \in BOOLEAN)'
         /\ UNCHANGED <<saving, failed>>
<1>1. CASE active = NoAccount \/ client = NoClient
  BY <1>1 DEF Save, TypeOK, persistence
<1>2. CASE active # NoAccount /\ client # NoClient
  <2>1. active \in Accounts /\ client \in Clients
    BY <1>2 DEF TypeOK
  <2>2. /\ pending' = [profile |-> active, api |-> client, rooms |-> list]
        /\ signal' = TRUE
        /\ UNCHANGED <<saving, failed>>
    BY <1>2, Zenon DEF Save
  <2>3. pending' \in Saves
    BY <2>1, <2>2 DEF Saves
  <2>4. signal' \in BOOLEAN
    BY <2>2, Zenon
  <2> QED
    BY <2>2, <2>3, <2>4
<1> QED
  BY <1>1, <1>2

(* Writing the list back under lock; and when no clear came in between.    *)
LEMMA WriteBackType ==
  ASSUME TypeOK, NEW list \in SUBSET Memberships, WriteBack(list)
  PROVE  /\ (rooms \in SUBSET Memberships)'
         /\ (identity \in Accounts \cup {NoAccount})'
         /\ (held \in Lists)'
         /\ (pending \in Saves \cup {NoSave})'
         /\ (signal \in BOOLEAN)'
         /\ UNCHANGED <<saving, failed>>
<1>1. Read.of \in Accounts \cup {NoAccount}
  BY DEF Read, Lists, TypeOK
<1>2. NoList \in Lists
  BY DEF NoList, Lists
<1>3. rooms' = list /\ identity' = Read.of /\ held' = NoList /\ Save(list)
  BY Zenon DEF WriteBack
<1> QED
  BY <1>1, <1>2, <1>3, SaveType

LEMMA ReadRooms ==
  ASSUME TypeOK
  PROVE  Read.rooms \in SUBSET Memberships
  BY DEF Read, Lists, TypeOK

LEMMA WriteBackUnheld ==
  ASSUME NEW list, held = NoList, WriteBack(list)
  PROVE  rooms' = list /\ Save(rooms') /\ UNCHANGED <<identity, held>>
<1>1. Read.of = identity
  BY DEF Read
<1>2. rooms' = list /\ identity' = Read.of /\ held' = NoList /\ Save(list)
  BY Zenon DEF WriteBack
<1> QED
  BY <1>1, <1>2

LEMMA StaleType ==
  ASSUME NEW copy \in Copies \cup {NoCopy}
  PROVE  /\ Stale(copy) \in Copies \cup {NoCopy}
         /\ Stale(copy) # NoCopy => Stale(copy).stale
  BY DEF Stale, Copies

LEMMA TypeInit == Init => TypeOK
<1> SUFFICES ASSUME Init PROVE TypeOK
  OBVIOUS
<1>1. vault \in [Accounts -> SUBSET Memberships]
  BY DEF Init
<1> QED
  BY <1>1 DEF Init, TypeOK, Copies, Lists, NoList

ConnectionTypes ==
  /\ client \in Clients \cup {NoClient}
  /\ phase \in [Connections -> {"off", "connect", "confirm", "publish", "load", "install"}]
  /\ announced \in [Connections -> Accounts \cup {NoAccount}]
  /\ loaded \in [Connections -> SUBSET Memberships]
  /\ latest \in Connections \cup {Older}
  /\ installed \in BOOLEAN

SaveTypes ==
  /\ pending \in Saves \cup {NoSave}
  /\ signal \in BOOLEAN
  /\ saving \in Saves \cup {NoSave}
  /\ failed \in BOOLEAN

CopyTypes ==
  /\ work \in [Workers -> Copies \cup {NoCopy}]
  /\ adding \in [Adders -> (Copies \X {"request", "append"}) \cup {<<NoCopy, "off">>}]

ListTypes ==
  /\ account \in Accounts
  /\ vault \in [Accounts -> SUBSET Memberships]
  /\ active \in Accounts \cup {NoAccount}
  /\ identity \in Accounts \cup {NoAccount}
  /\ rooms \in SUBSET Memberships
  /\ held \in Lists
  /\ removed \in SUBSET [room : Rooms, from : Accounts]
  /\ strayed \in BOOLEAN

LEMMA TypesTogether ==
  TypeOK <=> ConnectionTypes /\ SaveTypes /\ CopyTypes /\ ListTypes
  BY DEF TypeOK, ConnectionTypes, SaveTypes, CopyTypes, ListTypes

LEMMA StrayType ==
  ASSUME NEW b, strayed \in BOOLEAN, Stray(b)
  PROVE  strayed' \in BOOLEAN
  BY DEF Stray

(* A connection's steps.                                                   *)
LEMMA ConnectTypes ==
  ASSUME TypeOK, NEW c \in Connections, Connect(c)
  PROVE  TypeOK'
<1>1. ConnectionTypes /\ SaveTypes /\ CopyTypes /\ ListTypes
  BY TypesTogether
<1> USE DEF session, persistence, connecting, coroutines
<1>2. CASE Begin(c)
  <2>1. ConnectionTypes'
    BY <1>1, <1>2 DEF Begin, ConnectionTypes
  <2>2. (pending \in Saves \cup {NoSave})' /\ (saving \in Saves \cup {NoSave})'
    BY <1>1, <1>2, OutdatedSave DEF Begin, SaveTypes
  <2>3. SaveTypes'
    BY <1>1, <1>2, <2>2 DEF Begin, SaveTypes
  <2>4. CopyTypes' /\ ListTypes'
    BY <1>1, <1>2 DEF Begin, CopyTypes, ListTypes
  <2> QED
    BY <2>1, <2>3, <2>4
    DEF TypeOK, ConnectionTypes, SaveTypes, CopyTypes, ListTypes
<1>3. CASE Forget(c)
  <2>1. ConnectionTypes'
    BY <1>1, <1>3 DEF Forget, ConnectionTypes, ListTypes
  <2>2. SaveTypes'
    BY <1>1, <1>3 DEF Forget, SaveTypes
  <2>3. ASSUME NEW w \in Workers PROVE Stale(work[w]) \in Copies \cup {NoCopy}
    BY <1>1, StaleType DEF CopyTypes
  <2>4. (work \in [Workers -> Copies \cup {NoCopy}])'
    BY <1>3, <2>3 DEF Forget
  <2>5. ASSUME NEW a \in Adders
        PROVE  <<Stale(adding[a][1]), adding[a][2]>>
                 \in (Copies \X {"request", "append"}) \cup {<<NoCopy, "off">>}
    <3>1. CASE adding[a] \in Copies \X {"request", "append"}
      <4>1. adding[a][1] \in Copies /\ adding[a][2] \in {"request", "append"}
        BY <3>1
      <4>2. Stale(adding[a][1]) \in Copies
        BY <4>1 DEF Stale, Copies
      <4> QED
        BY <4>1, <4>2
    <3>2. CASE adding[a] = <<NoCopy, "off">>
      BY <3>2 DEF Stale
    <3> QED
      BY <1>1, <3>1, <3>2 DEF CopyTypes
  <2>6. (adding \in [Adders -> (Copies \X {"request", "append"}) \cup {<<NoCopy, "off">>}])'
    BY <1>3, <2>5 DEF Forget
  <2>7. held' \in Lists
    BY <1>1, <1>3 DEF Forget, Read, Lists, ListTypes
  <2>8. ListTypes'
    BY <1>1, <1>3, <2>7, StrayType DEF Forget, ListTypes
  <2> QED
    BY <2>1, <2>2, <2>4, <2>6, <2>8
    DEF TypeOK, ConnectionTypes, SaveTypes, CopyTypes, ListTypes
<1>4. CASE Activate(c)
  <2>1. ConnectionTypes' /\ SaveTypes' /\ CopyTypes'
    BY <1>1, <1>4 DEF Activate, ConnectionTypes, SaveTypes, CopyTypes
  <2>2. ListTypes'
    BY <1>1, <1>4, StrayType DEF Activate, ListTypes, ConnectionTypes
  <2> QED
    BY <2>1, <2>2
    DEF TypeOK, ConnectionTypes, SaveTypes, CopyTypes, ListTypes
<1>5. CASE Publish(c)
  <2>1. Api(c) \in Clients
    BY <1>1, <1>5 DEF Publish, Api, Clients, Answered, ListTypes
  <2>2. ConnectionTypes'
    BY <1>1, <1>5, <2>1 DEF Publish, ConnectionTypes
  <2>3. SaveTypes' /\ CopyTypes'
    BY <1>1, <1>5 DEF Publish, SaveTypes, CopyTypes
  <2>4. ListTypes'
    BY <1>1, <1>5, StrayType DEF Publish, ListTypes
  <2> QED
    BY <2>2, <2>3, <2>4
    DEF TypeOK, ConnectionTypes, SaveTypes, CopyTypes, ListTypes
<1>6. CASE Load(c)
  <2>1. announced[c] \in Accounts
    BY <1>1, <1>6 DEF Load, Answered, Api, ListTypes
  <2>2. ConnectionTypes'
    BY <1>1, <1>6, <2>1 DEF Load, ConnectionTypes, ListTypes
  <2>3. SaveTypes' /\ CopyTypes' /\ ListTypes'
    BY <1>1, <1>6 DEF Load, SaveTypes, CopyTypes, ListTypes
  <2> QED
    BY <2>2, <2>3
    DEF TypeOK, ConnectionTypes, SaveTypes, CopyTypes, ListTypes
<1>7. CASE Install(c)
  <2>1. loaded[c] \in SUBSET Memberships /\ announced[c] \in Accounts \cup {NoAccount}
    BY <1>1 DEF ConnectionTypes
  <2>2. ConnectionTypes'
    BY <1>1, <1>7 DEF Install, ConnectionTypes
  <2>3. Save(loaded[c])
    BY <1>7 DEF Install
  <2>4. SaveTypes'
    BY <1>1, <2>1, <2>3, SaveType DEF SaveTypes
  <2>5. CopyTypes'
    BY <1>1, <1>7 DEF Install, CopyTypes
  <2>6. ListTypes'
    BY <1>1, <1>7, <2>1, StrayType DEF Install, ListTypes
  <2> QED
    BY <2>2, <2>4, <2>5, <2>6
    DEF TypeOK, ConnectionTypes, SaveTypes, CopyTypes, ListTypes
<1>8. CASE ConnectFails(c)
  <2>1. ConnectionTypes' /\ SaveTypes' /\ CopyTypes' /\ ListTypes'
    BY <1>1, <1>8 DEF ConnectFails, ConnectionTypes, SaveTypes, CopyTypes, ListTypes
  <2> QED
    BY <2>1
    DEF TypeOK, ConnectionTypes, SaveTypes, CopyTypes, ListTypes
<1> QED
  BY <1>2, <1>3, <1>4, <1>5, <1>6, <1>7, <1>8 DEF Connect

(* The steps of the other coroutines, of the user and of the daemon.       *)
Work(w) == WorkStarts(w) \/ WorkReplaces(w) \/ WorkEnds(w)

Add(a) == (\E r \in Rooms : StartAdding(a, r)) \/ StoreWritten(a) \/ CreateFails(a) \/ AppendRoom(a)

LEMMA WorkTypes ==
  ASSUME TypeOK, NEW w \in Workers, Work(w)
  PROVE  TypeOK'
<1>1. ConnectionTypes /\ SaveTypes /\ CopyTypes /\ ListTypes
  BY TypesTogether
<1> USE DEF session, persistence, connecting, coroutines
<1>2. CASE WorkStarts(w)
  <2>1. PICK e \in rooms : work' = [work EXCEPT ![w] = [entry |-> e, stale |-> FALSE]]
    BY <1>2 DEF WorkStarts
  <2>2. [entry |-> e, stale |-> FALSE] \in Copies
    BY <1>1 DEF ListTypes, Copies
  <2>3. CopyTypes'
    BY <1>1, <1>2, <2>1, <2>2 DEF WorkStarts, CopyTypes
  <2>4. ConnectionTypes' /\ SaveTypes' /\ ListTypes'
    BY <1>1, <1>2 DEF WorkStarts, ConnectionTypes, SaveTypes, ListTypes
  <2> QED
    BY <2>3, <2>4 DEF TypeOK, ConnectionTypes, SaveTypes, CopyTypes, ListTypes
<1>3. CASE WorkReplaces(w)
  <2>1. work[w] \in Copies
    BY <1>1, <1>3 DEF WorkReplaces, CopyTypes
  <2>2. work[w].entry \in Memberships
    BY <2>1 DEF Copies
  <2>3. PICK list \in SUBSET Memberships : WriteBack(list)
    BY <1>3, <2>2, ReadRooms DEF WorkReplaces
  <2>4. SaveTypes'
    BY <1>1, <2>3, WriteBackType DEF SaveTypes
  <2>5. ConnectionTypes' /\ CopyTypes'
    BY <1>1, <1>3 DEF WorkReplaces, ConnectionTypes, CopyTypes
  <2>6. strayed' \in BOOLEAN
    BY <1>1, <1>3, StrayType DEF WorkReplaces, ListTypes
  <2>7. ListTypes'
    BY <1>1, <1>3, <2>3, <2>6, WriteBackType DEF WorkReplaces, ListTypes
  <2> QED
    BY <2>4, <2>5, <2>7 DEF TypeOK, ConnectionTypes, SaveTypes, CopyTypes, ListTypes
<1>4. CASE WorkEnds(w)
  <2>1. ConnectionTypes' /\ SaveTypes' /\ ListTypes' /\ CopyTypes'
    BY <1>1, <1>4 DEF WorkEnds, ConnectionTypes, SaveTypes, ListTypes, CopyTypes
  <2> QED
    BY <2>1 DEF TypeOK, ConnectionTypes, SaveTypes, CopyTypes, ListTypes
<1> QED
  BY <1>2, <1>3, <1>4 DEF Work

LEMMA AddTypes ==
  ASSUME TypeOK, NEW a \in Adders, Add(a)
  PROVE  TypeOK'
<1>1. ConnectionTypes /\ SaveTypes /\ CopyTypes /\ ListTypes
  BY TypesTogether
<1>0. /\ adding[a] \in (Copies \X {"request", "append"}) \cup {<<NoCopy, "off">>}
      /\ adding[a][2] # "off" => adding[a][1] \in Copies
  BY <1>1 DEF CopyTypes
<1> USE DEF session, persistence, connecting, coroutines
<1>2. ASSUME NEW r \in Rooms, StartAdding(a, r) PROVE TypeOK'
  <2>1. PICK stage \in {"request", "append"} :
          adding' = [adding EXCEPT ![a] =
            <<[entry |-> [room |-> r, of |-> identity], stale |-> FALSE], stage>>]
    BY <1>2 DEF StartAdding
  <2>2. [entry |-> [room |-> r, of |-> identity], stale |-> FALSE] \in Copies
    BY <1>1, <1>2 DEF StartAdding, ListTypes, Copies, Memberships
  <2>3. CopyTypes'
    BY <1>1, <1>2, <2>1, <2>2 DEF StartAdding, CopyTypes
  <2>4. ConnectionTypes' /\ SaveTypes' /\ ListTypes'
    BY <1>1, <1>2 DEF StartAdding, ConnectionTypes, SaveTypes, ListTypes
  <2> QED
    BY <2>3, <2>4 DEF TypeOK, ConnectionTypes, SaveTypes, CopyTypes, ListTypes
<1>3. CASE StoreWritten(a)
  <2>1. [adding[a] EXCEPT ![2] = "append"] \in Copies \X {"request", "append"}
    BY <1>0, <1>3 DEF StoreWritten
  <2>2. adding' = [adding EXCEPT ![a] = [adding[a] EXCEPT ![2] = "append"]]
    BY <1>3 DEF StoreWritten
  <2>3. CopyTypes'
    BY <1>1, <1>3, <2>1, <2>2 DEF StoreWritten, CopyTypes
  <2>4. ConnectionTypes' /\ SaveTypes' /\ ListTypes'
    BY <1>1, <1>3 DEF StoreWritten, ConnectionTypes, SaveTypes, ListTypes
  <2> QED
    BY <2>3, <2>4 DEF TypeOK, ConnectionTypes, SaveTypes, CopyTypes, ListTypes
<1>4. CASE CreateFails(a)
  <2>1. ConnectionTypes' /\ SaveTypes' /\ ListTypes' /\ CopyTypes'
    BY <1>1, <1>4 DEF CreateFails, ConnectionTypes, SaveTypes, ListTypes, CopyTypes
  <2> QED
    BY <2>1 DEF TypeOK, ConnectionTypes, SaveTypes, CopyTypes, ListTypes
<1>5. CASE AppendRoom(a)
  <2>1. adding[a][1].entry \in Memberships
    BY <1>0, <1>5 DEF AppendRoom, Copies
  <2>2. PICK list \in SUBSET Memberships : WriteBack(list)
    BY <1>5, <2>1, ReadRooms DEF AppendRoom
  <2>3. SaveTypes'
    BY <1>1, <2>2, WriteBackType DEF SaveTypes
  <2>4. ConnectionTypes' /\ CopyTypes'
    BY <1>1, <1>5 DEF AppendRoom, ConnectionTypes, CopyTypes
  <2>5. strayed' \in BOOLEAN
    BY <1>1, <1>5, StrayType DEF AppendRoom, ListTypes
  <2>6. ListTypes'
    BY <1>1, <1>5, <2>2, <2>5, WriteBackType DEF AppendRoom, ListTypes
  <2> QED
    BY <2>3, <2>4, <2>6 DEF TypeOK, ConnectionTypes, SaveTypes, CopyTypes, ListTypes
<1> QED
  BY <1>2, <1>3, <1>4, <1>5 DEF Add

LEMMA OtherTypes ==
  ASSUME TypeOK,
         \/ \E e \in Read.rooms : RemoveRoom(e)
         \/ Persist
         \/ \E p \in Accounts : SwitchAccount(p)
         \/ UNCHANGED vars
  PROVE  TypeOK'
<1>1. ConnectionTypes /\ SaveTypes /\ CopyTypes /\ ListTypes
  BY TypesTogether
<1> USE DEF session, persistence, connecting, coroutines
<1>2. ASSUME NEW e \in Read.rooms, RemoveRoom(e) PROVE TypeOK'
  <2>1. PICK list \in SUBSET Memberships : WriteBack(list)
    BY <1>2, ReadRooms DEF RemoveRoom
  <2>2. SaveTypes'
    BY <1>1, <2>1, WriteBackType DEF SaveTypes
  <2>3. ConnectionTypes' /\ CopyTypes'
    BY <1>1, <1>2 DEF RemoveRoom, ConnectionTypes, CopyTypes
  <2>4. e.room \in Rooms
    BY ReadRooms DEF Memberships
  <2>5. removed' \in SUBSET [room : Rooms, from : Accounts]
    BY <1>1, <1>2, <2>4 DEF RemoveRoom, ListTypes
  <2>6. strayed' \in BOOLEAN
    BY <1>1, <1>2, StrayType DEF RemoveRoom, ListTypes
  <2>7. ListTypes'
    BY <1>1, <1>2, <2>1, <2>5, <2>6, WriteBackType DEF RemoveRoom, ListTypes
  <2> QED
    BY <2>2, <2>3, <2>7 DEF TypeOK, ConnectionTypes, SaveTypes, CopyTypes, ListTypes
<1>3. CASE PersistTake
  <2>1. SaveTypes'
    BY <1>1, <1>3 DEF PersistTake, SaveTypes
  <2>2. ConnectionTypes' /\ CopyTypes' /\ ListTypes'
    BY <1>1, <1>3 DEF PersistTake, ConnectionTypes, CopyTypes, ListTypes
  <2> QED
    BY <2>1, <2>2 DEF TypeOK, ConnectionTypes, SaveTypes, CopyTypes, ListTypes
<1>4. CASE PersistWrite
  <2>1. saving.rooms \in SUBSET Memberships
    BY <1>1, <1>4 DEF PersistWrite, SaveTypes, Saves
  <2>2. vault' \in [Accounts -> SUBSET Memberships]
    BY <1>1, <1>4, <2>1 DEF PersistWrite, ListTypes
  <2>3. strayed' \in BOOLEAN
    BY <1>1, <1>4, StrayType DEF PersistWrite, ListTypes
  <2>4. ListTypes'
    BY <1>1, <1>4, <2>2, <2>3 DEF PersistWrite, ListTypes
  <2>5. SaveTypes'
    BY <1>1, <1>4 DEF PersistWrite, SaveTypes
  <2>6. ConnectionTypes' /\ CopyTypes'
    BY <1>1, <1>4 DEF PersistWrite, ConnectionTypes, CopyTypes
  <2> QED
    BY <2>4, <2>5, <2>6 DEF TypeOK, ConnectionTypes, SaveTypes, CopyTypes, ListTypes
<1>5. CASE PersistFails
  <2>1. SaveTypes'
    BY <1>1, <1>5 DEF PersistFails, SaveTypes
  <2>2. ConnectionTypes' /\ CopyTypes' /\ ListTypes'
    BY <1>1, <1>5 DEF PersistFails, ConnectionTypes, CopyTypes, ListTypes
  <2> QED
    BY <2>1, <2>2 DEF TypeOK, ConnectionTypes, SaveTypes, CopyTypes, ListTypes
<1>6. CASE (\E p \in Accounts : SwitchAccount(p)) \/ UNCHANGED vars
  <2>1. ConnectionTypes' /\ SaveTypes' /\ CopyTypes' /\ ListTypes'
    BY <1>1, <1>6 DEF SwitchAccount, vars, ConnectionTypes, SaveTypes, CopyTypes, ListTypes
  <2> QED
    BY <2>1 DEF TypeOK, ConnectionTypes, SaveTypes, CopyTypes, ListTypes
<1> QED
  BY <1>2, <1>3, <1>4, <1>5, <1>6 DEF Persist

LEMMA TypeStep == TypeOK /\ [Next]_vars => TypeOK'
  BY ConnectTypes, WorkTypes, AddTypes, OtherTypes DEF Next, Work, Add

(* The model's variables keep their types.                                 *)
THEOREM AndroidAccountsTypeOK == Spec => []TypeOK
  BY TypeInit, TypeStep, PTL DEF Spec

-----------------------------------------------------------------------------
(* What holds until a coroutine strays.                                    *)
(* Where the last connection begun is.                                     *)
At(places) == latest \in Connections /\ phase[latest] \in places

(* A list of one account's memberships.                                    *)
Pure(list, p) == \A e \in list : e.of = p

(* The session of the last connection: which of its parts are there when.  *)
SessionInv ==
  /\ client # NoClient => client.by = latest /\ latest \in Connections /\ active = client.account
  /\ At({"connect", "confirm", "publish"}) => client = NoClient
  /\ At({"publish", "load", "install"}) => active = announced[latest]
  /\ At({"load", "install"}) => client = Api(latest)
  /\ At({"confirm", "publish", "load", "install"}) => identity = NoAccount
  /\ client # NoClient /\ identity # NoAccount => installed
  /\ installed => client # NoClient /\ identity = client.account /\ At({"off"})

(* Whose memberships are where.                                            *)
SavePure(s) == s # NoSave => s.profile = s.api.account /\ Pure(s.rooms, s.profile)

PureInv ==
  /\ \A p \in Accounts : Pure(vault[p], p)
  /\ Pure(rooms, identity)
  /\ SavePure(pending)
  /\ SavePure(saving)

CopiesInv ==
  /\ \A w \in Workers : work[w] # NoCopy /\ ~work[w].stale => work[w].entry.of = identity
  /\ \A a \in Adders : adding[a][1] # NoCopy /\ ~adding[a][1].stale
                         => adding[a][1].entry.of = identity

(* Until its rooms are installed, nothing is saved on a connection, so the *)
(* vault stays as it was loaded.                                           *)
LoadInv ==
  /\ ~installed /\ latest \in Connections
       => pending.api.by # latest /\ saving.api.by # latest
  /\ At({"install"}) => loaded[latest] = vault[announced[latest]]

(* A room of a list is in another, or the user has removed it.             *)
Covered(list, other) ==
  \A e \in list : \/ \E f \in other : f.room = e.room
                  \/ [room |-> e.room, from |-> active] \in removed

Current(list) == [profile |-> active, api |-> client, rooms |-> list]

(* From then on, the newest list is the one that is pending.               *)
InstalledInv ==
  installed =>
    /\ pending = Current(rooms)
    /\ saving.api = client /\ saving.rooms # rooms => signal
    /\ ~failed /\ vault[active] # rooms => signal \/ saving = Current(rooms)
    /\ Covered(vault[active], rooms)
    /\ saving.api = client => Covered(vault[active], saving.rooms) /\ Covered(saving.rooms, rooms)

Unstrayed == SessionInv /\ PureInv /\ CopiesInv /\ LoadInv /\ InstalledInv

LEMMA UnstrayedInit == Init => Unstrayed
<1> SUFFICES ASSUME Init PROVE Unstrayed
  OBVIOUS
<1>1. latest \notin Connections
  BY AccountsAssumption DEF Init
<1>2. SessionInv /\ LoadInv /\ InstalledInv
  BY <1>1 DEF Init, SessionInv, LoadInv, InstalledInv, At
<1>3. PureInv
  BY DEF Init, PureInv, Pure, SavePure
<1>4. CopiesInv
  BY DEF Init, CopiesInv
<1> QED
  BY <1>2, <1>3, <1>4 DEF Unstrayed

LEMMA SaveApi ==
  ASSUME NEW s \in Saves \cup {NoSave}
  PROVE  s.api \in Clients \cup {NoClient}
  BY DEF Saves, NoSave

LEMMA NoClientNotClient == NoClient \notin Clients
  BY AccountsAssumption DEF NoClient, Clients

LEMMA BeginKeeps ==
  ASSUME TypeOK, Unstrayed, NEW c \in Connections, Begin(c)
  PROVE  Unstrayed'
<1> USE DEF session, persistence, connecting, coroutines
<1>1. /\ latest' = c /\ client' = NoClient /\ installed' = FALSE
      /\ phase'[c] = "connect"
  BY DEF Begin, TypeOK
<1>2. SessionInv'
  BY <1>1 DEF SessionInv, At
<1>3. /\ SavePure(pending) => SavePure(pending')
      /\ pending'.api.by # c
  <2>1. pending' = [pending EXCEPT !.api = Outdated(@, c)] /\ pending \in Saves \cup {NoSave}
    BY DEF Begin, TypeOK
  <2>2. /\ pending'.profile = pending.profile /\ pending'.rooms = pending.rooms
        /\ pending'.api = Outdated(pending.api, c)
        /\ pending' = NoSave <=> pending = NoSave
    BY <2>1, OutdatedSave
  <2>3. pending'.api.account = pending.api.account /\ pending'.api.by # c
    BY <2>1, <2>2, SaveApi, OutdatedType
  <2> QED
    BY <2>2, <2>3 DEF SavePure
<1>4. /\ SavePure(saving) => SavePure(saving')
      /\ saving'.api.by # c
  <2>1. saving' = [saving EXCEPT !.api = Outdated(@, c)] /\ saving \in Saves \cup {NoSave}
    BY DEF Begin, TypeOK
  <2>2. /\ saving'.profile = saving.profile /\ saving'.rooms = saving.rooms
        /\ saving'.api = Outdated(saving.api, c)
        /\ saving' = NoSave <=> saving = NoSave
    BY <2>1, OutdatedSave
  <2>3. saving'.api.account = saving.api.account /\ saving'.api.by # c
    BY <2>1, <2>2, SaveApi, OutdatedType
  <2> QED
    BY <2>2, <2>3 DEF SavePure
<1>5. PureInv'
  BY <1>3, <1>4 DEF Unstrayed, PureInv, Begin
<1>6. CopiesInv'
  BY DEF Unstrayed, CopiesInv, Begin
<1>7. LoadInv'
  BY <1>1, <1>3, <1>4 DEF LoadInv, At
<1>8. InstalledInv'
  BY <1>1 DEF InstalledInv
<1> QED
  BY <1>2, <1>5, <1>6, <1>7, <1>8 DEF Unstrayed

(* While the last connection is under way, its rooms are not installed and *)
(* it has saved nothing.                                                   *)
LEMMA UnderWay ==
  ASSUME Unstrayed, At({"connect", "confirm", "publish", "load", "install"})
  PROVE  ~installed /\ latest \in Connections
  BY DEF Unstrayed, SessionInv, At

LEMMA ForgetKeeps ==
  ASSUME TypeOK, Unstrayed, NEW c \in Connections, Forget(c), ~strayed'
  PROVE  Unstrayed'
<1> USE DEF session, persistence, connecting, coroutines
<1>1. c = latest /\ phase[c] = "connect" /\ phase'[c] = "confirm"
  BY DEF Forget, Stray, TypeOK
<1>2. ~installed /\ client = NoClient
  BY <1>1, UnderWay DEF Unstrayed, SessionInv, At
<1>3. SessionInv'
  BY <1>1, <1>2 DEF Forget, SessionInv, At
<1>4. PureInv'
  BY DEF Unstrayed, PureInv, Forget, Pure
<1>5. CopiesInv'
  <2>1. ASSUME NEW w \in Workers, work'[w] # NoCopy PROVE work'[w].stale
    BY <2>1, StaleType DEF Forget, TypeOK
  <2>2. ASSUME NEW a \in Adders, adding'[a][1] # NoCopy PROVE adding'[a][1].stale
    <3>1. adding[a][1] \in Copies \cup {NoCopy}
      BY DEF TypeOK
    <3> QED
      BY <2>2, <3>1, StaleType DEF Forget
  <2> QED
    BY <2>1, <2>2 DEF CopiesInv
<1>6. LoadInv'
  BY <1>1, <1>2 DEF Unstrayed, LoadInv, At, Forget
<1>7. InstalledInv'
  BY <1>2 DEF InstalledInv, Forget
<1> QED
  BY <1>3, <1>4, <1>5, <1>6, <1>7 DEF Unstrayed

LEMMA ActivateKeeps ==
  ASSUME TypeOK, Unstrayed, NEW c \in Connections, Activate(c), ~strayed'
  PROVE  Unstrayed'
<1> USE DEF session, persistence, connecting, coroutines
<1>1. c = latest /\ phase[c] = "confirm" /\ phase'[c] = "publish" /\ active' = announced[c]
  BY DEF Activate, Stray, TypeOK
<1>2. ~installed /\ client = NoClient /\ identity = NoAccount
  BY <1>1, UnderWay DEF Unstrayed, SessionInv, At
<1>3. SessionInv'
  BY <1>1, <1>2 DEF Activate, SessionInv, At
<1>4. PureInv' /\ CopiesInv'
  BY DEF Unstrayed, PureInv, CopiesInv, Activate
<1>5. LoadInv'
  BY <1>1, <1>2 DEF Unstrayed, LoadInv, At, Activate
<1>6. InstalledInv'
  BY <1>2 DEF InstalledInv, Activate
<1> QED
  BY <1>3, <1>4, <1>5, <1>6 DEF Unstrayed

LEMMA PublishKeeps ==
  ASSUME TypeOK, Unstrayed, NEW c \in Connections, Publish(c), ~strayed'
  PROVE  Unstrayed'
<1> USE DEF session, persistence, connecting, coroutines
<1>1. c = latest /\ phase[c] = "publish" /\ phase'[c] = "load" /\ client' = Api(c)
  BY DEF Publish, Stray, TypeOK
<1>2. ~installed /\ active = announced[c] /\ identity = NoAccount
  BY <1>1, UnderWay DEF Unstrayed, SessionInv, At
<1>3. /\ client'.by = c /\ client'.account = announced[c]
      /\ UNCHANGED <<active, announced, identity, latest, installed>>
  BY <1>1 DEF Api, Publish
<1>4. SessionInv'
  BY <1>1, <1>2, <1>3 DEF SessionInv, At, Api
<1>5. PureInv' /\ CopiesInv'
  BY DEF Unstrayed, PureInv, CopiesInv, Publish
<1>6. LoadInv'
  BY <1>1, <1>2 DEF Unstrayed, LoadInv, At, Publish
<1>7. InstalledInv'
  BY <1>2 DEF InstalledInv, Publish
<1> QED
  BY <1>4, <1>5, <1>6, <1>7 DEF Unstrayed

LEMMA LoadKeeps ==
  ASSUME TypeOK, Unstrayed, NEW c \in Connections, Load(c)
  PROVE  Unstrayed'
<1> USE DEF session, persistence, connecting, coroutines
<1>1. /\ phase[c] = "load" /\ phase' = [phase EXCEPT ![c] = "install"]
      /\ loaded' = [loaded EXCEPT ![c] = vault[announced[c]]]
      /\ UNCHANGED <<vault, session, pending, signal, saving, failed, announced, latest,
                     installed, work, adding, removed>>
  BY DEF Load
<1>2. phase \in [Connections -> {"off", "connect", "confirm", "publish", "load", "install"}]
      /\ loaded \in [Connections -> SUBSET Memberships]
  BY DEF TypeOK
<1>3. SessionInv'
  BY <1>1, <1>2 DEF Unstrayed, SessionInv, At, Api
<1>4. PureInv' /\ CopiesInv'
  BY <1>1 DEF Unstrayed, PureInv, CopiesInv
<1>5. LoadInv'
  BY <1>1, <1>2 DEF Unstrayed, LoadInv, At
<1>6. InstalledInv'
  BY <1>1 DEF Unstrayed, InstalledInv, Covered, Current
<1> QED
  BY <1>3, <1>4, <1>5, <1>6 DEF Unstrayed

LEMMA ConnectFailsKeeps ==
  ASSUME TypeOK, Unstrayed, NEW c \in Connections, ConnectFails(c)
  PROVE  Unstrayed'
<1> USE DEF session, persistence, connecting, coroutines
<1>1. /\ phase[c] \notin {"off", "install"} /\ phase' = [phase EXCEPT ![c] = "off"]
      /\ announced' = [announced EXCEPT ![c] = NoAccount]
      /\ UNCHANGED <<vault, session, pending, signal, saving, failed, loaded, latest,
                     installed, work, adding, removed>>
  BY DEF ConnectFails
<1>2. /\ phase \in [Connections -> {"off", "connect", "confirm", "publish", "load", "install"}]
      /\ announced \in [Connections -> Accounts \cup {NoAccount}]
  BY DEF TypeOK
<1>3. SessionInv'
  BY <1>1, <1>2 DEF Unstrayed, SessionInv, At, Api
<1>4. PureInv' /\ CopiesInv'
  BY <1>1 DEF Unstrayed, PureInv, CopiesInv
<1>5. LoadInv'
  BY <1>1, <1>2 DEF Unstrayed, LoadInv, At
<1>6. InstalledInv'
  BY <1>1 DEF Unstrayed, InstalledInv, Covered, Current
<1> QED
  BY <1>3, <1>4, <1>5, <1>6 DEF Unstrayed

(* A save of a new list, on a session whose rooms are installed if it has  *)
(* an identity.                                                            *)
LEMMA NewListKeeps ==
  ASSUME TypeOK, Unstrayed, identity # NoAccount,
         Pure(rooms', identity), Save(rooms'),
         UNCHANGED <<vault, active, client, identity, connecting>>,
         removed \subseteq removed',
         installed => \A e \in rooms : \/ \E f \in rooms' : f.room = e.room
                                       \/ [room |-> e.room, from |-> active] \in removed'
  PROVE  SessionInv' /\ PureInv' /\ LoadInv' /\ InstalledInv'
<1> USE DEF connecting
<1>1. SessionInv'
  BY DEF Unstrayed, SessionInv, At, Api
<1>2. CASE active = NoAccount \/ client = NoClient
  <2>1. UNCHANGED <<pending, signal, saving, failed>>
    BY <1>2 DEF Save, persistence
  <2>2. ~installed
    BY <1>2, AccountsAssumption DEF Unstrayed, SessionInv, TypeOK, Clients
  <2>3. PureInv' /\ LoadInv' /\ InstalledInv'
    BY <2>1, <2>2 DEF Unstrayed, PureInv, LoadInv, InstalledInv, At
  <2> QED
    BY <1>1, <2>3
<1>3. CASE active # NoAccount /\ client # NoClient
  <2>1. /\ pending' = [profile |-> active, api |-> client, rooms |-> rooms']
        /\ signal' = TRUE
        /\ saving' = saving
    BY <1>3 DEF Save
  <2>2. installed /\ active = client.account /\ identity = active /\ latest \in Connections
    BY <1>3 DEF Unstrayed, SessionInv
  <2>3. ~At({"install"})
    BY <2>2, UnderWay DEF At
  <2>4. PureInv'
    BY <2>1, <2>2 DEF Unstrayed, PureInv, SavePure, Pure
  <2>5. LoadInv'
    BY <2>2, <2>3 DEF LoadInv, At
  <2>6. /\ Covered(vault[active], rooms)
        /\ saving.api = client => Covered(vault[active], saving.rooms) /\ Covered(saving.rooms, rooms)
    BY <2>2 DEF Unstrayed, InstalledInv
  <2>7. /\ Covered(vault[active], rooms)'
        /\ Covered(saving.rooms, rooms) => Covered(saving.rooms, rooms)'
        /\ Covered(vault[active], saving.rooms) => Covered(vault[active], saving.rooms)'
    BY <2>1, <2>2, <2>6 DEF Covered
  <2>8. InstalledInv'
    BY <2>1, <2>2, <2>6, <2>7 DEF InstalledInv, Current
  <2> QED
    BY <1>1, <2>4, <2>5, <2>8
<1> QED
  BY <1>2, <1>3

LEMMA InstallKeeps ==
  ASSUME TypeOK, Unstrayed, NEW c \in Connections, Install(c), ~strayed'
  PROVE  Unstrayed'
<1>1. /\ c = latest /\ phase[c] = "install"
      /\ installed' = TRUE
      /\ rooms' = loaded[c] /\ identity' = announced[c] /\ Save(rooms')
      /\ phase' = [phase EXCEPT ![c] = "off"]
      /\ UNCHANGED <<vault, active, client, latest, work, adding, removed>>
  BY DEF Install, Stray, coroutines
<1>2. /\ phase \in [Connections -> {"off", "connect", "confirm", "publish", "load", "install"}]
      /\ client \in Clients \cup {NoClient}
      /\ NoAccount \notin Accounts /\ Older \notin Connections
  BY AccountsAssumption DEF TypeOK
<1>3. ~installed
  BY <1>1, UnderWay DEF At
<1>4. /\ client = Api(c) /\ active = announced[c] /\ identity = NoAccount
      /\ loaded[c] = vault[announced[c]]
      /\ saving.api.by # c
  BY <1>1, <1>3 DEF Unstrayed, SessionInv, LoadInv, At
<1>5. client.by = c /\ client.account = announced[c] /\ client # NoClient
  BY <1>2, <1>4 DEF Api, NoClient
<1>6. active \in Accounts /\ identity' = client.account /\ active = client.account
  BY <1>1, <1>2, <1>4, <1>5 DEF Clients
<1>7. /\ pending' = [profile |-> active, api |-> client, rooms |-> rooms']
      /\ signal' = TRUE
      /\ saving' = saving
  BY <1>1, <1>2, <1>5, <1>6 DEF Save
<1>8. SessionInv'
  BY <1>1, <1>2, <1>5, <1>6 DEF SessionInv, At
<1>9. PureInv'
  <2>1. Pure(rooms', identity')
    BY <1>1, <1>4, <1>6 DEF Unstrayed, PureInv, Pure
  <2> QED
    BY <1>1, <1>4, <1>5, <1>6, <1>7, <2>1 DEF Unstrayed, PureInv, SavePure
<1>10. CopiesInv'
  <2>1. ASSUME NEW w \in Workers, work[w] # NoCopy, ~work[w].stale PROVE FALSE
    <3>1. work[w].entry.of \in Accounts
      BY <2>1 DEF TypeOK, Copies, Memberships
    <3> QED
      BY <1>2, <1>4, <2>1, <3>1 DEF Unstrayed, CopiesInv
  <2>2. ASSUME NEW a \in Adders, adding[a][1] # NoCopy, ~adding[a][1].stale PROVE FALSE
    <3>1. adding[a][1] \in Copies
      BY <2>2 DEF TypeOK
    <3>2. adding[a][1].entry.of \in Accounts
      BY <3>1 DEF Copies, Memberships
    <3> QED
      BY <1>2, <1>4, <2>2, <3>2 DEF Unstrayed, CopiesInv
  <2> QED
    BY <1>1, <2>1, <2>2 DEF CopiesInv
<1>11. LoadInv'
  BY <1>1, <1>2 DEF LoadInv, At
<1>12. InstalledInv'
  <2>1. Covered(vault[active], rooms)'
    BY <1>1, <1>4 DEF Covered
  <2>2. saving'.api # client'
    BY <1>1, <1>4, <1>5, <1>7
  <2> QED
    BY <1>1, <1>7, <2>1, <2>2 DEF InstalledInv, Current
<1> QED
  BY <1>8, <1>9, <1>10, <1>11, <1>12 DEF Unstrayed

(* A step that touches neither the session nor what is saved.              *)
LEMMA CopiesKeep ==
  ASSUME Unstrayed, CopiesInv',
         UNCHANGED <<vault, session, persistence, connecting, removed>>
  PROVE  Unstrayed'
<1> USE DEF session, persistence, connecting
<1>1. SessionInv' /\ PureInv'
  BY DEF Unstrayed, SessionInv, PureInv, At, Api
<1>2. LoadInv'
  BY DEF Unstrayed, LoadInv, At
<1>3. InstalledInv'
  BY DEF Unstrayed, InstalledInv, Covered, Current
<1> QED
  BY <1>1, <1>2, <1>3 DEF Unstrayed

LEMMA WorkKeeps ==
  ASSUME TypeOK, Unstrayed, NEW w \in Workers, Work(w), ~strayed'
  PROVE  Unstrayed'
<1> USE DEF session, persistence, connecting, coroutines
<1>1. CASE WorkStarts(w)
  <2>1. PICK e \in rooms : work' = [work EXCEPT ![w] = [entry |-> e, stale |-> FALSE]]
    BY <1>1 DEF WorkStarts
  <2>2. e.of = identity
    BY DEF Unstrayed, PureInv, Pure
  <2>3. CopiesInv'
    BY <1>1, <2>1, <2>2 DEF Unstrayed, CopiesInv, WorkStarts, TypeOK
  <2> QED
    BY <1>1, <2>3, CopiesKeep DEF WorkStarts
<1>2. CASE WorkReplaces(w)
  <2>0. /\ held = NoList
        /\ Read.rooms = rooms
        /\ work[w].stale => rooms' = rooms /\ ~signal'
    BY <1>2 DEF WorkReplaces, Stray, Read
  <2>10. /\ rooms' = {IF e.room = work[w].entry.room THEN work[w].entry ELSE e : e \in rooms}
         /\ Save(rooms')
         /\ UNCHANGED <<identity, held>>
    BY <1>2, <2>0, WriteBackUnheld DEF WorkReplaces
  <2>1. /\ work[w] \in Copies /\ work[w].entry.of \in Accounts
        /\ rooms \in SUBSET Memberships
    <3>1. work[w] \in Copies
      BY <1>2 DEF WorkReplaces, TypeOK
    <3> QED
      BY <3>1 DEF Copies, Memberships, TypeOK
  <2>2. CopiesInv'
    BY <1>2, <2>10 DEF Unstrayed, CopiesInv, WorkReplaces
  <2>3. CASE work[w].stale
    <3>1. UNCHANGED persistence
      BY <2>0, <2>10, <2>3 DEF Save
    <3> QED
      BY <1>2, <2>0, <2>10, <2>2, <2>3, <3>1, CopiesKeep DEF WorkReplaces
  <2>4. CASE ~work[w].stale
    <3>1. work[w].entry.of = identity /\ identity # NoAccount
      BY <1>2, <2>1, <2>4, AccountsAssumption DEF WorkReplaces, Unstrayed, CopiesInv
    <3>3. Pure(rooms', identity)
      BY <2>10, <3>1 DEF Pure, Unstrayed, PureInv
    <3>4. \A e \in rooms : \E f \in rooms' : f.room = e.room
      BY <2>10
    <3>5. Save(rooms') /\ UNCHANGED <<vault, active, client, identity, connecting, removed>>
      BY <1>2, <2>10 DEF WorkReplaces
    <3>6. SessionInv' /\ PureInv' /\ LoadInv' /\ InstalledInv'
      BY <3>1, <3>3, <3>4, <3>5, NewListKeeps
    <3> QED
      BY <2>2, <3>6 DEF Unstrayed
  <2> QED
    BY <2>1, <2>3, <2>4 DEF Copies
<1>3. CASE WorkEnds(w)
  <2>1. CopiesInv'
    BY <1>3 DEF Unstrayed, CopiesInv, WorkEnds, TypeOK
  <2> QED
    BY <1>3, <2>1, CopiesKeep DEF WorkEnds
<1> QED
  BY <1>1, <1>2, <1>3 DEF Work

LEMMA AddKeeps ==
  ASSUME TypeOK, Unstrayed, NEW a \in Adders, Add(a), ~strayed'
  PROVE  Unstrayed'
<1> USE DEF session, persistence, connecting, coroutines
<1>1. /\ adding \in [Adders -> (Copies \X {"request", "append"}) \cup {<<NoCopy, "off">>}]
      /\ adding[a][2] # "off" => adding[a][1] \in Copies
  BY DEF TypeOK
<1>2. ASSUME NEW r \in Rooms, StartAdding(a, r) PROVE Unstrayed'
  <2>1. PICK stage \in {"request", "append"} :
          adding' = [adding EXCEPT ![a] =
            <<[entry |-> [room |-> r, of |-> identity], stale |-> FALSE], stage>>]
    BY <1>2 DEF StartAdding
  <2>2. CopiesInv'
    BY <1>1, <1>2, <2>1 DEF Unstrayed, CopiesInv, StartAdding
  <2> QED
    BY <1>2, <2>2, CopiesKeep DEF StartAdding
<1>3. CASE StoreWritten(a)
  <2>1. adding' = [adding EXCEPT ![a] = [adding[a] EXCEPT ![2] = "append"]]
    BY <1>3 DEF StoreWritten
  <2>2. adding[a] \in Copies \X {"request", "append"}
    BY <1>1, <1>3 DEF StoreWritten
  <2>3. [adding[a] EXCEPT ![2] = "append"][1] = adding[a][1]
    BY <2>2
  <2>4. \A b \in Adders : adding'[b][1] = adding[b][1]
    BY <1>1, <2>1, <2>3
  <2>5. CopiesInv'
    BY <1>3, <2>4 DEF Unstrayed, CopiesInv, StoreWritten
  <2> QED
    BY <1>3, <2>5, CopiesKeep DEF StoreWritten
<1>4. CASE CreateFails(a)
  <2>1. CopiesInv'
    BY <1>1, <1>4 DEF Unstrayed, CopiesInv, CreateFails
  <2> QED
    BY <1>4, <2>1, CopiesKeep DEF CreateFails
<1>5. CASE AppendRoom(a)
  <2>1. /\ adding[a][1] \in Copies
        /\ adding[a][1].entry.of \in Accounts
        /\ adding[a][1] # NoCopy
        /\ ~adding[a][1].stale
    <3>1. adding[a][1] \in Copies /\ ~adding[a][1].stale
      BY <1>1, <1>5 DEF AppendRoom, Stray
    <3>2. adding[a][1].entry.of \in Accounts
      BY <3>1 DEF Copies, Memberships
    <3> QED
      BY <3>1, <3>2, AccountsAssumption DEF NoCopy
  <2>2. adding[a][1].entry.of = identity /\ identity # NoAccount
    BY <2>1, AccountsAssumption DEF Unstrayed, CopiesInv
  <2>0. held = NoList /\ Read.rooms = rooms
    BY <1>5, <2>1 DEF AppendRoom, Read
  <2>3. /\ rooms' = rooms \cup {adding[a][1].entry}
        /\ Save(rooms')
        /\ UNCHANGED <<identity, held>>
    BY <1>5, <2>0, WriteBackUnheld DEF AppendRoom
  <2>4. Pure(rooms', identity)
    BY <2>2, <2>3 DEF Pure, Unstrayed, PureInv
  <2>5. Save(rooms') /\ UNCHANGED <<vault, active, client, identity, connecting, removed>>
    BY <1>5, <2>3 DEF AppendRoom
  <2>6. SessionInv' /\ PureInv' /\ LoadInv' /\ InstalledInv'
    BY <2>2, <2>3, <2>4, <2>5, NewListKeeps
  <2>7. CopiesInv'
    BY <1>1, <1>5, <2>3 DEF Unstrayed, CopiesInv, AppendRoom
  <2> QED
    BY <2>6, <2>7 DEF Unstrayed
<1> QED
  BY <1>2, <1>3, <1>4, <1>5 DEF Add

LEMMA RemoveKeeps ==
  ASSUME TypeOK, Unstrayed, NEW e \in Read.rooms, RemoveRoom(e), ~strayed'
  PROVE  Unstrayed'
<1> USE DEF session, persistence, connecting, coroutines
<1>0. held = NoList /\ Read.rooms = rooms
  BY DEF RemoveRoom, Stray, Read
<1>9. /\ rooms' = {f \in rooms : f.room # e.room}
      /\ Save(rooms')
      /\ UNCHANGED <<identity, held>>
  BY <1>0, WriteBackUnheld DEF RemoveRoom
<1>1. e.of \in Accounts /\ e.of = identity
  BY <1>0 DEF TypeOK, Memberships, Unstrayed, PureInv, Pure
<1>2. identity # NoAccount
  BY <1>1, AccountsAssumption
<1>3. Pure(rooms', identity)
  BY <1>9 DEF Pure, Unstrayed, PureInv
<1>4. installed => active # NoAccount
  BY AccountsAssumption DEF Unstrayed, SessionInv, TypeOK, Clients
<1>5. installed => \A d \in rooms : \/ \E f \in rooms' : f.room = d.room
                                    \/ [room |-> d.room, from |-> active] \in removed'
  BY <1>4, <1>9 DEF RemoveRoom
<1>6. /\ Save(rooms') /\ removed \subseteq removed'
      /\ UNCHANGED <<vault, active, client, identity, connecting>>
  BY <1>9 DEF RemoveRoom
<1>7. SessionInv' /\ PureInv' /\ LoadInv' /\ InstalledInv'
  BY <1>2, <1>3, <1>5, <1>6, NewListKeeps
<1>8. CopiesInv'
  BY <1>9 DEF Unstrayed, CopiesInv, RemoveRoom
<1> QED
  BY <1>7, <1>8 DEF Unstrayed

LEMMA PersistTakeKeeps ==
  ASSUME TypeOK, Unstrayed, PersistTake
  PROVE  Unstrayed'
<1> USE DEF session, persistence, connecting, coroutines
<1>1. SessionInv' /\ CopiesInv'
  BY DEF Unstrayed, SessionInv, CopiesInv, At, Api, PersistTake
<1>2. saving' \in {pending, NoSave} /\ UNCHANGED pending
  BY DEF PersistTake
<1>3. PureInv'
  BY <1>2 DEF Unstrayed, PureInv, SavePure, PersistTake
<1>4. NoSave.api = NoClient /\ NoClient.by \notin Connections
  BY AccountsAssumption DEF NoSave, NoClient
<1>5. LoadInv'
  BY <1>2, <1>4 DEF Unstrayed, LoadInv, At, PersistTake
<1>6. InstalledInv'
  <2> SUFFICES ASSUME installed PROVE InstalledInv'
    BY DEF InstalledInv, PersistTake
  <2>1. pending = Current(rooms) /\ Covered(vault[active], rooms)
    BY DEF Unstrayed, InstalledInv
  <2>2. saving' = Current(rooms)
    BY <2>1 DEF PersistTake, Current
  <2>3. UNCHANGED <<vault, active, client, rooms, pending, removed>>
    BY DEF PersistTake
  <2>4. Covered(rooms, rooms)' /\ Covered(vault[active], rooms)'
    BY <2>1, <2>3 DEF Covered
  <2>5. saving'.rooms = rooms' /\ pending' = Current(rooms)' /\ saving' = Current(rooms)'
    BY <2>1, <2>2, <2>3 DEF Current
  <2> QED
    BY <2>4, <2>5 DEF InstalledInv
<1> QED
  BY <1>1, <1>3, <1>5, <1>6 DEF Unstrayed

(* A list that is written to a vault is one of the session whose rooms are *)
(* installed.                                                              *)
LEMMA Written ==
  ASSUME TypeOK, Unstrayed, PersistWrite, ~strayed'
  PROVE  /\ installed
         /\ saving.api = client /\ saving.profile = active
         /\ client.account = active /\ active \in Accounts
         /\ vault' = [vault EXCEPT ![active] = saving.rooms]
<1>1. saving.api = client /\ saving # NoSave
  BY DEF PersistWrite, Stray
<1>2. saving \in Saves
  BY <1>1 DEF TypeOK
<1>3. client \in Clients /\ client # NoClient
  BY <1>1, <1>2, NoClientNotClient DEF Saves
<1>4. client.by = latest /\ latest \in Connections /\ active = client.account
  BY <1>3 DEF Unstrayed, SessionInv
<1>5. installed
  BY <1>1, <1>4 DEF Unstrayed, LoadInv
<1>6. saving.profile = active
  BY <1>1, <1>4 DEF Unstrayed, PureInv, SavePure
<1> QED
  BY <1>1, <1>3, <1>4, <1>5, <1>6 DEF PersistWrite, Clients

LEMMA PersistWriteKeeps ==
  ASSUME TypeOK, Unstrayed, PersistWrite, ~strayed'
  PROVE  Unstrayed'
<1> USE DEF session, persistence, connecting, coroutines
<1>1. /\ installed
      /\ saving.api = client /\ saving.profile = active
      /\ client.account = active /\ active \in Accounts
      /\ vault' = [vault EXCEPT ![active] = saving.rooms]
  BY Written
<1>2. SessionInv' /\ CopiesInv'
  BY DEF Unstrayed, SessionInv, CopiesInv, At, Api, PersistWrite
<1>3. Pure(saving.rooms, active) /\ \A p \in Accounts : Pure(vault[p], p)
  BY <1>1 DEF PersistWrite, Unstrayed, PureInv, SavePure
<1>4. /\ saving' = NoSave /\ failed' = FALSE
      /\ UNCHANGED <<active, client, rooms, identity, pending, signal, phase, announced,
                     loaded, latest, installed, removed>>
      /\ saving # NoSave
  BY DEF PersistWrite
<1>5. vault \in [Accounts -> SUBSET Memberships]
  BY DEF TypeOK
<1>6. PureInv'
  BY <1>1, <1>3, <1>4, <1>5 DEF Unstrayed, PureInv, SavePure
<1>7. ~At({"install"})
  BY <1>1, UnderWay DEF At
<1>8. LoadInv'
  BY <1>1, <1>4, <1>7 DEF LoadInv, At
<1>9. InstalledInv'
  <2>1. /\ pending = Current(rooms)
        /\ saving.rooms # rooms => signal
        /\ Covered(saving.rooms, rooms)
    BY <1>1 DEF Unstrayed, InstalledInv
  <2>2. vault'[active] = saving.rooms
    BY <1>1, <1>5
  <2>3. Covered(vault[active], rooms)'
    BY <1>4, <2>1, <2>2 DEF Covered
  <2>4. saving'.api # client'
    <3>1. client # NoClient
      BY <1>1 DEF Unstrayed, SessionInv
    <3> QED
      BY <1>4, <3>1 DEF NoSave
  <2>5. pending' = Current(rooms)'
    BY <1>4, <2>1 DEF Current
  <2>6. vault'[active'] # rooms' => signal'
    BY <1>4, <2>1, <2>2
  <2> QED
    BY <2>3, <2>4, <2>5, <2>6 DEF InstalledInv
<1> QED
  BY <1>2, <1>6, <1>8, <1>9 DEF Unstrayed

LEMMA PersistFailsKeeps ==
  ASSUME TypeOK, Unstrayed, PersistFails
  PROVE  Unstrayed'
<1> USE DEF session, persistence, connecting, coroutines
<1>1. SessionInv' /\ CopiesInv' /\ PureInv'
  BY DEF Unstrayed, SessionInv, CopiesInv, PureInv, SavePure, At, Api, PersistFails
<1>2. NoSave.api = NoClient /\ NoClient.by \notin Connections
  BY AccountsAssumption DEF NoSave, NoClient
<1>3. LoadInv'
  BY <1>2 DEF Unstrayed, LoadInv, At, PersistFails
<1>4. InstalledInv'
  <2> SUFFICES ASSUME installed PROVE InstalledInv'
    BY DEF InstalledInv, PersistFails
  <2>1. pending = Current(rooms) /\ Covered(vault[active], rooms) /\ client # NoClient
    BY DEF Unstrayed, InstalledInv, SessionInv
  <2>2. /\ saving' = NoSave /\ failed' = TRUE
        /\ UNCHANGED <<vault, active, client, rooms, pending, removed>>
    BY DEF PersistFails
  <2>3. Covered(vault[active], rooms)' /\ pending' = Current(rooms)'
    BY <2>1, <2>2 DEF Covered, Current
  <2> QED
    BY <1>2, <2>1, <2>2, <2>3 DEF InstalledInv
<1> QED
  BY <1>1, <1>3, <1>4 DEF Unstrayed

-----------------------------------------------------------------------------
UntilStrayed == TypeOK /\ (~strayed => Unstrayed)

LEMMA NeverUnstrays ==
  ASSUME TypeOK, [Next]_vars, ~strayed'
  PROVE  ~strayed
BY DEF Next, vars, Connect, Persist, Begin, Forget, Activate, Publish, Load, Install,
       ConnectFails, WorkStarts, WorkReplaces, WorkEnds, StartAdding, StoreWritten,
       CreateFails, AppendRoom, RemoveRoom, PersistTake, PersistWrite, PersistFails,
       SwitchAccount, Stray

LEMMA UnstrayedStep ==
  ASSUME UntilStrayed, [Next]_vars, ~strayed'
  PROVE  Unstrayed'
<1>1. TypeOK /\ Unstrayed
  BY NeverUnstrays DEF UntilStrayed
<1>2. ASSUME NEW c \in Connections, Connect(c) PROVE Unstrayed'
  BY <1>1, <1>2, BeginKeeps, ForgetKeeps, ActivateKeeps, PublishKeeps, LoadKeeps, InstallKeeps,
     ConnectFailsKeeps DEF Connect
<1>3. CASE (\E p \in Accounts : SwitchAccount(p)) \/ UNCHANGED vars
  <2>1. UNCHANGED <<vault, session, persistence, connecting, coroutines, removed>>
    BY <1>3 DEF SwitchAccount, vars
  <2>2. CopiesInv'
    BY <1>1, <2>1 DEF Unstrayed, CopiesInv, session, coroutines
  <2> QED
    BY <1>1, <2>1, <2>2, CopiesKeep
<1>4. ASSUME NEW w \in Workers, Work(w) PROVE Unstrayed'
  BY <1>1, <1>4, WorkKeeps
<1>5. ASSUME NEW a \in Adders, Add(a) PROVE Unstrayed'
  BY <1>1, <1>5, AddKeeps
<1>6. CASE Persist
  BY <1>1, <1>6, PersistTakeKeeps, PersistWriteKeeps, PersistFailsKeeps DEF Persist
<1> QED
  BY <1>1, <1>2, <1>3, <1>4, <1>5, <1>6, RemoveKeeps DEF Next, Work, Add

THEOREM AndroidUntilStrayed == Spec => []UntilStrayed
<1>1. Init => UntilStrayed
  BY TypeInit, UnstrayedInit DEF UntilStrayed
<1>2. UntilStrayed /\ [Next]_vars => UntilStrayed'
  BY TypeStep, UnstrayedStep DEF UntilStrayed
<1> QED
  BY <1>1, <1>2, PTL DEF Spec

(* Neither the list on the screen nor a vault mixes the accounts, unless a *)
(* coroutine begun before a reconnect went on after it.                    *)
THEOREM AccountsStayApart == Spec => []AccountsApart
<1>1. UntilStrayed => AccountsApart
  BY DEF UntilStrayed, Unstrayed, PureInv, Pure, AccountsApart
<1> QED
  BY <1>1, AndroidUntilStrayed, PTL

(* The conflated signal loses no save.                                     *)
THEOREM AndroidSaveComes == Spec => []SaveComes
<1>1. UntilStrayed => SaveComes
  BY DEF UntilStrayed, Unstrayed, InstalledInv, Current, SaveComes
<1> QED
  BY <1>1, AndroidUntilStrayed, PTL

LEMMA StepKeeps ==
  ASSUME UntilStrayed, [Next]_vars, ~strayed'
  PROVE  Kept
<1>1. TypeOK /\ Unstrayed
  BY NeverUnstrays DEF UntilStrayed
<1>2. CASE PersistWrite
  <2>1. /\ vault' = [vault EXCEPT ![active] = saving.rooms]
        /\ installed /\ saving.api = client
        /\ removed' = removed
    BY <1>1, <1>2, Written DEF PersistWrite
  <2>2. Covered(vault[active], saving.rooms)
    BY <1>1, <2>1 DEF Unstrayed, InstalledInv
  <2>3. vault \in [Accounts -> SUBSET Memberships]
    BY <1>1 DEF TypeOK
  <2> QED
    BY <2>1, <2>2, <2>3 DEF Kept, Dropped, Covered
<1>3. CASE vault' = vault
  <2>1. \A p \in Accounts : Dropped(p) = {}
    BY <1>3 DEF Dropped
  <2> QED
    BY <2>1 DEF Kept
<1> QED
  BY <1>2, <1>3 DEF Next, vars, Connect, Persist, Begin, Forget, Activate, Publish, Load,
     Install, ConnectFails, WorkStarts, WorkReplaces, WorkEnds, StartAdding, StoreWritten,
     CreateFails, AppendRoom, RemoveRoom, PersistTake, PersistFails, SwitchAccount

(* A vault only loses the rooms the user removed, unless a coroutine begun *)
(* before a reconnect went on after it.                                    *)
THEOREM AndroidMembershipsStay == Spec => MembershipsStay
<1>1. UntilStrayed /\ [Next]_vars => [~strayed' => Kept]_vars
  BY StepKeeps
<1> QED
  BY <1>1, AndroidUntilStrayed, PTL DEF Spec, MembershipsStay
=============================================================================
