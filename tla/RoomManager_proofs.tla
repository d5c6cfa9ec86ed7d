------------------------- MODULE RoomManager_proofs -------------------------
(***************************************************************************)
(* Proofs about RoomManager, for any users, rooms and capacities.          *)
(***************************************************************************)
EXTENDS RoomManager, FiniteSetTheorems, TLAPS

(* What must hold beside the properties for them to be inductive. *)

\* Memberships live and die with the row they refer to.
MembersHaveRow == \A r \in RoomName : rows[r] = None => rowMembers[r] = {}

\* Between its two commits create_room's room has no members in the table, and
\* its row is the one create_room wrote or is gone.
CreationPending ==
    creating # None =>
        /\ rowMembers[creating.room] = {}
        /\ rows[creating.room] \in {None, creating.info}

\* Nobody deletes the global room.
GlobalStays == rows[Global] = GlobalInfo

RoomInv ==
    /\ TypeOK
    /\ PersistedAreMembers
    /\ MemoryIsTheRowsRoom
    /\ MembersHaveRow
    /\ CreationPending
    /\ GlobalStays

------------------------------------------------------------------------------
LEMMA GlobalInfoType == GlobalInfo \in Info /\ GlobalInfo # None
<1>1. GlobalInfo \in Info
    BY RoomAssumption DEF GlobalInfo, Info
<1>2. QED
    BY <1>1, NoneAssumption

\* get_room returns a room whose members include the persisted ones and whose
\* settings are the row's.
LEMMA GetRoomType ==
    ASSUME RoomInv, NEW r \in RoomName, GetRoom(r) # None
    PROVE  /\ GetRoom(r) \in Room
           /\ rowMembers[r] \subseteq GetRoom(r).members
           /\ Unlocked /\ rows[r] # None => GetRoom(r).info = rows[r]
BY NoneAssumption
   DEF RoomInv, TypeOK, PersistedAreMembers, MemoryIsTheRowsRoom, GetRoom,
       FromRow, Room, Unlocked

LEMMA GetRoomNone ==
    ASSUME RoomInv, NEW r \in RoomName, GetRoom(r) = None
    PROVE  rooms[r] = None /\ rows[r] = None
BY NoneAssumption DEF RoomInv, TypeOK, GetRoom, FromRow, Room

\* Init establishes the invariant.
LEMMA InitRoomInv == Init => RoomInv
<1> SUFFICES ASSUME Init PROVE RoomInv
    OBVIOUS
<1>1. TypeOK
    BY GlobalInfoType DEF Init, TypeOK, Room
<1>2. QED
    BY <1>1, GlobalInfoType, NoneAssumption, RoomAssumption
       DEF Init, RoomInv, PersistedAreMembers, MemoryIsTheRowsRoom,
           MembersHaveRow, CreationPending, GlobalStays

\* Putting a well-formed room that has the persisted members and the row's
\* settings in memory keeps the invariant when the tables do not change but
\* for members of that room.
LEMMA PutKeeps ==
    ASSUME RoomInv, NEW r \in RoomName, NEW room \in Room,
           Unlocked, creating' = creating,
           rows' = rows, rowInvites' \in [RoomName -> SUBSET User],
           NEW members \in SUBSET User,
           rowMembers' = [rowMembers EXCEPT ![r] = members],
           members \subseteq room.members,
           rows[r] = None => members = {},
           rows[r] # None => room.info = rows[r],
           Put(r, room)
    PROVE  RoomInv'
BY NoneAssumption
   DEF RoomInv, TypeOK, PersistedAreMembers, MemoryIsTheRowsRoom, Unlocked, Put,
       MembersHaveRow, CreationPending, GlobalStays

\* So does dropping a room's row and members, with or without the room in
\* memory.
LEMMA DropKeeps ==
    ASSUME RoomInv, NEW r \in RoomName, r # Global, DropRow(r),
           creating' = creating, Put(r, None) \/ rooms' = rooms
    PROVE  RoomInv'
<1>1. TypeOK'
    BY DEF RoomInv, TypeOK, DropRow, Put
<1>2. PersistedAreMembers' /\ MemoryIsTheRowsRoom'
    BY DEF RoomInv, TypeOK, PersistedAreMembers, MemoryIsTheRowsRoom, DropRow, Put
<1>3. MembersHaveRow' /\ GlobalStays'
    BY RoomAssumption DEF RoomInv, TypeOK, MembersHaveRow, GlobalStays, DropRow
<1>4. CreationPending'
    BY DEF RoomInv, TypeOK, CreationPending, DropRow
<1>5. QED
    BY <1>1, <1>2, <1>3, <1>4 DEF RoomInv

LEMMA LookupKeeps ==
    ASSUME RoomInv, NEW r \in RoomName, Lookup(r)
    PROVE  RoomInv'
<1>1. CASE GetRoom(r) = None
    <2>1. rooms' = rooms
        BY <1>1, GetRoomNone DEF Lookup, Load, RoomInv, TypeOK
    <2>2. QED
        BY <2>1 DEF Lookup, RoomInv, TypeOK, PersistedAreMembers,
           MemoryIsTheRowsRoom, MembersHaveRow, CreationPending, GlobalStays
<1>2. CASE GetRoom(r) # None
    <2>1. rowMembers' = [rowMembers EXCEPT ![r] = rowMembers[r]]
        BY DEF Lookup, RoomInv, TypeOK
    <2>2. QED
        BY <1>2, <2>1, GetRoomType, PutKeeps
           DEF Lookup, Load, Put, RoomInv, TypeOK, MembersHaveRow
<1>3. QED
    BY <1>1, <1>2

LEMMA CreateRowKeeps ==
    ASSUME RoomInv, NEW r \in RoomName, NEW info \in NewInfo, CreateRow(r, info)
    PROVE  RoomInv'
<1>1. creating' \in Creation /\ creating'.room = r /\ creating'.info = info
    BY DEF CreateRow, Creation
<1>2. TypeOK'
    BY <1>1 DEF CreateRow, RoomInv, TypeOK, NewInfo
<1>3. PersistedAreMembers' /\ MembersHaveRow'
    BY NoneAssumption
       DEF CreateRow, RoomInv, TypeOK, PersistedAreMembers, MembersHaveRow,
           NewInfo
<1>3a. GlobalStays'
    BY GlobalInfoType, RoomAssumption
       DEF CreateRow, RoomInv, TypeOK, GlobalStays
<1>4. MemoryIsTheRowsRoom'
    BY <1>1, NoneAssumption
       DEF CreateRow, RoomInv, TypeOK, MemoryIsTheRowsRoom, Unlocked
<1>5. CreationPending'
    BY <1>1 DEF CreateRow, RoomInv, TypeOK, MembersHaveRow, CreationPending
<1>6. QED
    BY <1>2, <1>3, <1>3a, <1>4, <1>5 DEF RoomInv

LEMMA CreateFinishKeeps ==
    ASSUME RoomInv, CreateFinish
    PROVE  RoomInv'
<1> DEFINE r == creating.room
           owner == creating.info.owner
           room == [info |-> creating.info, members |-> {owner}, invites |-> {}]
<1>1. creating \in Creation /\ r \in RoomName /\ owner \in User /\ room \in Room
    BY DEF CreateFinish, RoomInv, TypeOK, Creation, NewInfo, Room, Info
<1>2. CASE Created
    <2>1. rows[r] = creating.info /\ rowMembers[r] = {}
        BY <1>2, <1>1 DEF Created, RoomInv, CreationPending
    <2>2. /\ rooms' = [rooms EXCEPT ![r] = room]
          /\ rowMembers' = [rowMembers EXCEPT ![r] = {owner}]
          /\ rows' = rows /\ rowInvites' = rowInvites /\ creating' = None
        BY <1>2, <2>1 DEF CreateFinish, Put
    <2>3. TypeOK'
        BY <1>1, <2>2 DEF RoomInv, TypeOK
    <2>4. PersistedAreMembers' /\ MembersHaveRow' /\ GlobalStays' /\ CreationPending'
        BY <1>1, <1>2, <2>2
           DEF RoomInv, TypeOK, PersistedAreMembers, MembersHaveRow, GlobalStays,
               CreationPending, Created
    <2>5. MemoryIsTheRowsRoom'
        BY <1>1, <2>1, <2>2 DEF RoomInv, TypeOK, MemoryIsTheRowsRoom
    <2>6. QED
        BY <2>3, <2>4, <2>5 DEF RoomInv
<1>3. CASE ~Created
    <2>1. rows[r] = None
        BY <1>3 DEF Created, CreateFinish
    <2>2. QED
        BY <1>3, <1>1, <2>1
           DEF CreateFinish, RoomInv, TypeOK, PersistedAreMembers,
               MemoryIsTheRowsRoom, MembersHaveRow, GlobalStays, CreationPending
<1>4. QED
    BY <1>2, <1>3

LEMMA JoinKeeps ==
    ASSUME RoomInv, NEW r \in RoomName, NEW u \in User, NEW password,
           Join(r, u, password)
    PROVE  RoomInv'
<1> DEFINE room == [GetRoom(r) EXCEPT !.members = @ \cup {u}]
           members == IF rows[r] = None THEN rowMembers[r] ELSE rowMembers[r] \cup {u}
<1>1. GetRoom(r) # None
    BY DEF Join, MayEnter
<1>2. /\ room \in Room /\ room.info = GetRoom(r).info
      /\ room.members = GetRoom(r).members \cup {u}
    BY <1>1, GetRoomType DEF Room
<1>3. members \in SUBSET User /\ members \subseteq room.members
    BY <1>1, <1>2, GetRoomType DEF RoomInv, TypeOK
<1>4. rowMembers' = [rowMembers EXCEPT ![r] = members]
    BY DEF Join, RoomInv, TypeOK
<1>5. QED
    BY <1>1, <1>2, <1>3, <1>4, GetRoomType, PutKeeps
       DEF Join, RoomInv, TypeOK, MembersHaveRow

LEMMA DepartKeeps ==
    ASSUME RoomInv, NEW r \in RoomName, NEW u \in User, GetRoom(r) # None, Unlocked,
           Put(r, [GetRoom(r) EXCEPT !.members = @ \ {u}]),
           rowMembers' = [rowMembers EXCEPT ![r] = @ \ {u}],
           UNCHANGED <<rows, rowInvites, creating>>
    PROVE  RoomInv'
<1> DEFINE room == [GetRoom(r) EXCEPT !.members = @ \ {u}]
<1>1. /\ room \in Room /\ room.info = GetRoom(r).info
      /\ room.members = GetRoom(r).members \ {u}
    BY GetRoomType DEF Room
<1>2. Put(r, room)
    OBVIOUS
<1>3. /\ rowMembers[r] \ {u} \in SUBSET User
      /\ rowMembers[r] \ {u} \subseteq room.members
      /\ rows[r] = None => rowMembers[r] \ {u} = {}
    BY <1>1, GetRoomType DEF RoomInv, TypeOK, MembersHaveRow
<1>4. rows[r] # None => room.info = rows[r]
    BY <1>1, GetRoomType
<1> HIDE DEF room
<1>5. QED
    BY <1>1, <1>2, <1>3, <1>4, PutKeeps DEF RoomInv, TypeOK

LEMMA LeaveKeeps ==
    ASSUME RoomInv, NEW r \in RoomName, NEW u \in User, Leave(r, u)
    PROVE  RoomInv'
<1>1. CASE GetRoom(r) = None
    BY <1>1 DEF Leave, RoomInv, TypeOK, PersistedAreMembers, MemoryIsTheRowsRoom,
                MembersHaveRow, CreationPending, GlobalStays
<1>2. CASE GetRoom(r) # None /\ r \in MatchRoom /\ GetRoom(r).members \subseteq {u}
    BY <1>2, DropKeeps, RoomAssumption DEF Leave
<1>3. CASE GetRoom(r) # None /\ ~(r \in MatchRoom /\ GetRoom(r).members \subseteq {u})
    BY <1>3, DepartKeeps DEF Leave
<1>4. QED
    BY <1>1, <1>2, <1>3

LEMMA InviteKeeps ==
    ASSUME RoomInv, NEW r \in RoomName, NEW u \in User, Invite(r, u)
    PROVE  RoomInv'
<1> DEFINE room == [GetRoom(r) EXCEPT !.invites = @ \cup {u}]
<1>1. /\ room \in Room /\ room.info = GetRoom(r).info
      /\ room.members = GetRoom(r).members
    BY GetRoomType DEF Invite, Room
<1>2. rowMembers' = [rowMembers EXCEPT ![r] = rowMembers[r]]
    BY DEF Invite, RoomInv, TypeOK
<1>3. QED
    BY <1>1, <1>2, GetRoomType, PutKeeps DEF Invite, RoomInv, TypeOK, MembersHaveRow

\* The statements that change one table and leave memory alone.
LEMMA DbMemberOrInviteKeeps ==
    ASSUME RoomInv, NEW r \in RoomName, NEW u \in User,
           DbRemoveMember(r, u) \/ DbInvite(r, u)
    PROVE  RoomInv'
<1>1. CASE DbRemoveMember(r, u)
    BY <1>1 DEF DbRemoveMember, RoomInv, TypeOK, PersistedAreMembers,
                MemoryIsTheRowsRoom, MembersHaveRow, CreationPending, GlobalStays
<1>2. CASE DbInvite(r, u)
    BY <1>2 DEF DbInvite, RoomInv, TypeOK, PersistedAreMembers,
                MemoryIsTheRowsRoom, MembersHaveRow, CreationPending, GlobalStays
<1>3. QED
    BY <1>1, <1>2

LEMMA RestartKeeps ==
    ASSUME RoomInv, Restart
    PROVE  RoomInv'
<1>1. FromRow(Global) \in Room
    BY RoomAssumption, GlobalInfoType DEF RoomInv, TypeOK, GlobalStays, FromRow, Room
<1>2. TypeOK'
    BY <1>1 DEF Restart, RoomInv, TypeOK
<1>3. QED
    BY <1>1, <1>2
       DEF Restart, RoomInv, TypeOK, PersistedAreMembers, MemoryIsTheRowsRoom,
           MembersHaveRow, CreationPending, GlobalStays, FromRow

\* Every step keeps the invariant.
LEMMA NextRoomInv == RoomInv /\ [Next]_vars => RoomInv'
<1> SUFFICES ASSUME RoomInv, [Next]_vars PROVE RoomInv'
    OBVIOUS
<1>1. CASE CreateFinish
    BY <1>1, CreateFinishKeeps
<1>2. CASE Restart
    BY <1>2, RestartKeeps
<1>3. ASSUME NEW r \in RoomName, Lookup(r) PROVE RoomInv'
    BY <1>3, LookupKeeps
<1>4. ASSUME NEW r \in RoomName, Delete(r) PROVE RoomInv'
    BY <1>4, DropKeeps DEF Delete
<1>5. ASSUME NEW r \in RoomName, DbDeleteRoom(r) PROVE RoomInv'
    BY <1>5, DropKeeps DEF DbDeleteRoom
<1>6. ASSUME NEW r \in RoomName, NEW info \in NewInfo, CreateRow(r, info)
      PROVE  RoomInv'
    BY <1>6, CreateRowKeeps
<1>7. ASSUME NEW r \in RoomName, NEW u \in User, Leave(r, u) PROVE RoomInv'
    BY <1>7, LeaveKeeps
<1>8. ASSUME NEW r \in RoomName, NEW u \in User, Invite(r, u) PROVE RoomInv'
    BY <1>8, InviteKeeps
<1>9. ASSUME NEW r \in RoomName, NEW u \in User, Kick(r, u) PROVE RoomInv'
    BY <1>9, DepartKeeps DEF Kick
<1>10. ASSUME NEW r \in RoomName, NEW u \in User,
              DbRemoveMember(r, u) \/ DbInvite(r, u)
       PROVE  RoomInv'
    BY <1>10, DbMemberOrInviteKeeps
<1>11. ASSUME NEW r \in RoomName, NEW u \in User,
              NEW password \in Password \cup {NoPassword},
              Join(r, u, password) \/ JoinRefused(r, u, password)
       PROVE  RoomInv'
    BY <1>11, JoinKeeps, LookupKeeps DEF JoinRefused
<1>12. CASE UNCHANGED vars
    BY <1>12 DEF vars, RoomInv, TypeOK, PersistedAreMembers, MemoryIsTheRowsRoom,
                 MembersHaveRow, CreationPending, GlobalStays
<1>13. QED
    BY <1>1, <1>2, <1>3, <1>4, <1>5, <1>6, <1>7, <1>8, <1>9, <1>10, <1>11, <1>12
       DEF Next

\* The invariant holds throughout.
THEOREM RoomInvariant == Spec => []RoomInv
BY InitRoomInv, NextRoomInv, PTL DEF Spec

\* Every variable keeps its type.
THEOREM TypeCorrect == Spec => []TypeOK
<1>1. RoomInv => TypeOK
    BY DEF RoomInv
<1>2. QED
    BY <1>1, RoomInvariant, PTL

\* Memory never loses a member the database still has, whatever the unlocked
\* statements and restarts do (PersistedAreMembers).
THEOREM Persistence == Spec => []PersistedAreMembers
<1>1. RoomInv => PersistedAreMembers
    BY DEF RoomInv
<1>2. QED
    BY <1>1, RoomInvariant, PTL

\* A room in memory is the room of its row (MemoryIsTheRowsRoom).
THEOREM NoNamesake == Spec => []MemoryIsTheRowsRoom
<1>1. RoomInv => MemoryIsTheRowsRoom
    BY DEF RoomInv
<1>2. QED
    BY <1>1, RoomInvariant, PTL

------------------------------------------------------------------------------
(* Capacity.  A step is first shown to change each room in one of a few ways;  *)
(* each way keeps the room within its capacity.                               *)

\* A room in memory after the step is a new one with its owner, or the one
\* get_room gave with fewer members, or with one more where there was space.
MemoryStep(r) ==
    \/ \E u \in User : rooms'[r].members = {u}
    \/ /\ GetRoom(r) # None
       /\ rooms'[r].info = GetRoom(r).info
       /\ \/ rooms'[r].members \subseteq GetRoom(r).members
          \/ /\ Cardinality(GetRoom(r).members) < GetRoom(r).info.capacity
             /\ \E u \in User : rooms'[r].members = GetRoom(r).members \cup {u}

\* The table of a room that is not in memory after the step gained no member.
TableStep(r) ==
    \/ rowMembers'[r] = {}
    \/ rows'[r] = rows[r] /\ rowMembers'[r] \subseteq rowMembers[r]

RoomStep(r) ==
    /\ rooms'[r] # None => MemoryStep(r)
    /\ rows'[r] # None /\ rooms'[r] = None => TableStep(r)

\* A step that leaves room s out of account changes nothing of it.
LEMMA SameRoom ==
    ASSUME RoomInv, NEW s \in RoomName, rooms'[s] = rooms[s], rows'[s] = rows[s],
           rowMembers'[s] \subseteq rowMembers[s]
    PROVE  RoomStep(s)
BY DEF RoomStep, MemoryStep, TableStep, GetRoom

\* A method that puts back what get_room gave, with no more members.
LEMMA PutBack ==
    ASSUME RoomInv, NEW r \in RoomName, GetRoom(r) # None, NEW room,
           Put(r, room), room.info = GetRoom(r).info,
           room.members \subseteq GetRoom(r).members, room # None,
           rows' = rows,
           \A s \in RoomName : rowMembers'[s] \subseteq rowMembers[s]
    PROVE  \A s \in RoomName : RoomStep(s)
<1> TAKE s \in RoomName
<1>1. CASE s = r
    BY <1>1 DEF RoomStep, MemoryStep, Put, RoomInv, TypeOK
<1>2. CASE s # r
    BY <1>2, SameRoom DEF Put, RoomInv, TypeOK
<1>3. QED
    BY <1>1, <1>2

LEMMA DropSteps ==
    ASSUME RoomInv, NEW r \in RoomName, DropRow(r), Put(r, None) \/ rooms' = rooms
    PROVE  \A s \in RoomName : RoomStep(s)
<1> TAKE s \in RoomName
<1>1. CASE s = r
    BY <1>1 DEF RoomStep, MemoryStep, TableStep, GetRoom, DropRow, Put, RoomInv, TypeOK
<1>2. CASE s # r
    BY <1>2, SameRoom DEF DropRow, Put, RoomInv, TypeOK
<1>3. QED
    BY <1>1, <1>2

LEMMA LookupSteps ==
    ASSUME RoomInv, NEW r \in RoomName, Lookup(r)
    PROVE  \A s \in RoomName : RoomStep(s)
<1>1. CASE GetRoom(r) = None
    BY <1>1, GetRoomNone, SameRoom DEF Lookup, Load, RoomInv, TypeOK
<1>2. CASE GetRoom(r) # None
    BY <1>2, PutBack DEF Lookup, Load, Put
<1>3. QED
    BY <1>1, <1>2

LEMMA CreateFinishSteps ==
    ASSUME RoomInv, CreateFinish
    PROVE  \A s \in RoomName : RoomStep(s)
<1> TAKE s \in RoomName
<1>1. creating.room \in RoomName /\ creating.info.owner \in User
    BY DEF CreateFinish, RoomInv, TypeOK, Creation, NewInfo
<1>2. CASE Created /\ s = creating.room
    <2>1. rooms'[s] = [info |-> creating.info, members |-> {creating.info.owner},
                       invites |-> {}]
        BY <1>1, <1>2 DEF CreateFinish, Put, RoomInv, TypeOK
    <2>2. rooms'[s] # None
        BY <1>1, <2>1, NoneAssumption
           DEF CreateFinish, RoomInv, TypeOK, Creation, NewInfo, Room
    <2>3. QED
        BY <1>1, <2>1, <2>2 DEF RoomStep, MemoryStep
<1>3. CASE ~(Created /\ s = creating.room)
    <2>1. rooms'[s] = rooms[s] /\ rows'[s] = rows[s] /\ rowMembers'[s] = rowMembers[s]
        BY <1>1, <1>3 DEF CreateFinish, Put, RoomInv, TypeOK
    <2>2. QED
        BY <2>1, SameRoom
<1>4. QED
    BY <1>2, <1>3

LEMMA JoinSteps ==
    ASSUME RoomInv, NEW r \in RoomName, NEW u \in User, NEW password,
           Join(r, u, password)
    PROVE  \A s \in RoomName : RoomStep(s)
<1> TAKE s \in RoomName
<1>1. /\ GetRoom(r) # None
      /\ Cardinality(GetRoom(r).members) < GetRoom(r).info.capacity
    BY DEF Join, MayEnter
<1>2. CASE s = r
    <2>1. /\ rooms'[s] = [GetRoom(r) EXCEPT !.members = @ \cup {u}]
          /\ rooms'[s].info = GetRoom(s).info
          /\ rooms'[s].members = GetRoom(s).members \cup {u}
          /\ rooms'[s] # None
        BY <1>1, <1>2, GetRoomType, NoneAssumption DEF Join, Put, RoomInv, TypeOK, Room
    <2>2. QED
        BY <1>1, <1>2, <2>1 DEF RoomStep, MemoryStep
<1>3. CASE s # r
    BY <1>3, SameRoom DEF Join, Put, RoomInv, TypeOK
<1>4. QED
    BY <1>2, <1>3

LEMMA DepartSteps ==
    ASSUME RoomInv, NEW r \in RoomName, NEW u \in User, GetRoom(r) # None,
           Put(r, [GetRoom(r) EXCEPT !.members = @ \ {u}]),
           rowMembers' = [rowMembers EXCEPT ![r] = @ \ {u}], rows' = rows
    PROVE  \A s \in RoomName : RoomStep(s)
<1> DEFINE room == [GetRoom(r) EXCEPT !.members = @ \ {u}]
<1>1. /\ room # None /\ room.info = GetRoom(r).info
      /\ room.members \subseteq GetRoom(r).members
    BY GetRoomType, NoneAssumption DEF Room
<1>2. Put(r, room)
    OBVIOUS
<1>3. \A s \in RoomName : rowMembers'[s] \subseteq rowMembers[s]
    BY DEF RoomInv, TypeOK
<1> HIDE DEF room
<1>4. QED
    BY <1>1, <1>2, <1>3, PutBack

LEMMA LeaveSteps ==
    ASSUME RoomInv, NEW r \in RoomName, NEW u \in User, Leave(r, u)
    PROVE  \A s \in RoomName : RoomStep(s)
<1>1. CASE GetRoom(r) = None
    BY <1>1, SameRoom DEF Leave
<1>2. CASE GetRoom(r) # None /\ r \in MatchRoom /\ GetRoom(r).members \subseteq {u}
    BY <1>2, DropSteps DEF Leave
<1>3. CASE GetRoom(r) # None /\ ~(r \in MatchRoom /\ GetRoom(r).members \subseteq {u})
    BY <1>3, DepartSteps DEF Leave
<1>4. QED
    BY <1>1, <1>2, <1>3

LEMMA InviteSteps ==
    ASSUME RoomInv, NEW r \in RoomName, NEW u \in User, Invite(r, u)
    PROVE  \A s \in RoomName : RoomStep(s)
<1> DEFINE room == [GetRoom(r) EXCEPT !.invites = @ \cup {u}]
<1>1. /\ room # None /\ room.info = GetRoom(r).info
      /\ room.members = GetRoom(r).members
    BY GetRoomType, NoneAssumption DEF Invite, Room
<1>2. Put(r, room) /\ GetRoom(r) # None /\ rows' = rows /\ rowMembers' = rowMembers
    BY DEF Invite
<1> HIDE DEF room
<1>3. QED
    BY <1>1, <1>2, PutBack

LEMMA RestartSteps ==
    ASSUME RoomInv, Restart
    PROVE  \A s \in RoomName : RoomStep(s)
<1> TAKE s \in RoomName
<1>1. CASE s = Global
    <2>1. ~(creating # None /\ creating.room = Global)
        <3> SUFFICES ASSUME creating # None, creating.room = Global PROVE FALSE
            OBVIOUS
        <3>1. creating.info.owner \in User
            BY DEF RoomInv, TypeOK, Creation, NewInfo
        <3>2. creating.info = GlobalInfo
            BY GlobalInfoType DEF RoomInv, CreationPending, GlobalStays
        <3>3. QED
            BY <3>1, <3>2, RoomAssumption DEF GlobalInfo
    <2>2. GlobalInfo # None
        BY GlobalInfoType
    <2>3. /\ GetRoom(Global) # None
          /\ GetRoom(Global).info = GlobalInfo
          /\ rowMembers[Global] \subseteq GetRoom(Global).members
        <3>1. CASE rooms[Global] = None
            <4>1. GetRoom(Global) = FromRow(Global) /\ FromRow(Global) \in Room
                BY <2>2, <3>1, RoomAssumption
                   DEF GetRoom, FromRow, RoomInv, TypeOK, GlobalStays, Room
            <4>2. QED
                BY <4>1, NoneAssumption DEF FromRow, RoomInv, GlobalStays
        <3>2. CASE rooms[Global] # None
            BY <2>1, <2>2, <3>2, RoomAssumption
               DEF GetRoom, RoomInv, PersistedAreMembers, MemoryIsTheRowsRoom,
                   GlobalStays
        <3>3. QED
            BY <3>1, <3>2
    <2>4. rooms'[s] = FromRow(Global) /\ rows' = rows
        BY <1>1 DEF Restart
    <2>5. rooms'[s].info = GlobalInfo /\ rooms'[s].members = rowMembers[Global]
        BY <2>4 DEF FromRow, RoomInv, GlobalStays
    <2>6. rows'[s] # None /\ rooms'[s] # None
        BY <1>1, <2>2, <2>4, RoomAssumption, NoneAssumption
           DEF FromRow, RoomInv, TypeOK, GlobalStays, Room
    <2>7. QED
        BY <1>1, <2>3, <2>5, <2>6 DEF RoomStep, MemoryStep
<1>2. CASE s # Global
    BY <1>2 DEF Restart, RoomStep, TableStep
<1>3. QED
    BY <1>1, <1>2

LEMMA NextSteps ==
    ASSUME RoomInv, [Next]_vars
    PROVE  \/ \A s \in RoomName : RoomStep(s)
           \/ \E r \in RoomName, info \in NewInfo : CreateRow(r, info)
<1>1. CASE CreateFinish
    BY <1>1, CreateFinishSteps
<1>2. CASE Restart
    BY <1>2, RestartSteps
<1>3. ASSUME NEW r \in RoomName, Lookup(r) PROVE \A s \in RoomName : RoomStep(s)
    BY <1>3, LookupSteps
<1>4. ASSUME NEW r \in RoomName, Delete(r) \/ DbDeleteRoom(r)
      PROVE  \A s \in RoomName : RoomStep(s)
    BY <1>4, DropSteps DEF Delete, DbDeleteRoom
<1>5. ASSUME NEW r \in RoomName, NEW u \in User, Leave(r, u)
      PROVE  \A s \in RoomName : RoomStep(s)
    BY <1>5, LeaveSteps
<1>6. ASSUME NEW r \in RoomName, NEW u \in User, Invite(r, u)
      PROVE  \A s \in RoomName : RoomStep(s)
    BY <1>6, InviteSteps
<1>7. ASSUME NEW r \in RoomName, NEW u \in User, Kick(r, u)
      PROVE  \A s \in RoomName : RoomStep(s)
    BY <1>7, DepartSteps DEF Kick
<1>8. ASSUME NEW r \in RoomName, NEW u \in User,
             DbRemoveMember(r, u) \/ DbInvite(r, u)
      PROVE  \A s \in RoomName : RoomStep(s)
    <2> TAKE s \in RoomName
    <2>1. QED
        BY <1>8, SameRoom DEF DbRemoveMember, DbInvite, RoomInv, TypeOK
<1>9. ASSUME NEW r \in RoomName, NEW u \in User,
             NEW password \in Password \cup {NoPassword},
             Join(r, u, password) \/ JoinRefused(r, u, password)
      PROVE  \A s \in RoomName : RoomStep(s)
    BY <1>9, JoinSteps, LookupSteps DEF JoinRefused
<1>10. CASE UNCHANGED vars
    BY <1>10, SameRoom DEF vars
<1>11. QED
    BY <1>1, <1>2, <1>3, <1>4, <1>5, <1>6, <1>7, <1>8, <1>9, <1>10 DEF Next

\* Sets of users are finite, and adding one adds at most one.
LEMMA UserSets ==
    ASSUME NEW S \in SUBSET User
    PROVE  /\ Cardinality(S) \in Nat
           /\ \A T \in SUBSET S : Cardinality(T) \in Nat /\ Cardinality(T) <= Cardinality(S)
           /\ \A u \in User : /\ Cardinality(S \cup {u}) \in Nat
                              /\ Cardinality(S \cup {u}) <= Cardinality(S) + 1
<1>1. IsFiniteSet(S)
    BY RoomAssumption, FS_Subset
<1>2. Cardinality(S) \in Nat
    BY <1>1, FS_CardinalityType
<1>3. ASSUME NEW T \in SUBSET S
      PROVE  Cardinality(T) \in Nat /\ Cardinality(T) <= Cardinality(S)
    BY <1>1, FS_Subset, FS_CardinalityType
<1>4. ASSUME NEW u \in User
      PROVE  Cardinality(S \cup {u}) \in Nat /\ Cardinality(S \cup {u}) <= Cardinality(S) + 1
    BY <1>1, <1>2, FS_AddElement
<1>5. QED
    BY <1>2, <1>3, <1>4

\* A capacity is a number.
LEMMA CapacityType == \A info \in Info : info.capacity \in Int
<1>1. \A info \in Info : info.capacity \in Capacity \cup {GlobalCapacity}
    BY DEF Info
<1>2. Capacity \cup {GlobalCapacity} \subseteq Int
    BY RoomAssumption
<1>3. QED
    BY <1>1, <1>2

LEMMA LimitType ==
    ASSUME NEW info \in Info
    PROVE  Limit(info) \in Nat /\ Limit(info) >= 1 /\ Limit(info) >= info.capacity
BY CapacityType DEF Limit

Fits(members, info) == Cardinality(members) <= Limit(info)

LEMMA CapacityStep ==
    ASSUME RoomInv, WithinCapacity, [Next]_vars
    PROVE  WithinCapacity'
<1>1. RoomInv'
    BY NextRoomInv
<1>2. ASSUME NEW s \in RoomName, GetRoom(s) # None
      PROVE  Fits(GetRoom(s).members, GetRoom(s).info)
    BY <1>2 DEF GetRoom, FromRow, WithinCapacity, Fits
<1>3. ASSUME NEW S \in SUBSET User, NEW T \in SUBSET S, NEW info \in Info, Fits(S, info)
      PROVE  Fits(T, info)
    BY <1>3, UserSets, LimitType DEF Fits
<1>4. ASSUME NEW info \in Info, NEW u \in User PROVE Fits({}, info) /\ Fits({u}, info)
    <2>1. Cardinality({}) = 0 /\ Cardinality({u}) = 1
        BY FS_EmptySet, FS_Singleton
    <2>2. QED
        BY <1>4, <2>1, LimitType DEF Fits
<1>5. ASSUME NEW s \in RoomName, RoomStep(s), rooms'[s] # None
      PROVE  Fits(rooms'[s].members, rooms'[s].info)
    <2>1. rooms'[s] \in Room /\ rooms'[s].info \in Info /\ rooms'[s].members \in SUBSET User
        BY <1>1, <1>5 DEF RoomInv, TypeOK, Room
    <2>2. CASE \E u \in User : rooms'[s].members = {u}
        BY <1>4, <2>1, <2>2
    <2>3. CASE /\ GetRoom(s) # None
               /\ rooms'[s].info = GetRoom(s).info
               /\ rooms'[s].members \subseteq GetRoom(s).members
        BY <1>2, <1>3, <2>1, <2>3, GetRoomType DEF Room
    <2>4. CASE /\ GetRoom(s) # None
               /\ rooms'[s].info = GetRoom(s).info
               /\ Cardinality(GetRoom(s).members) < GetRoom(s).info.capacity
               /\ \E u \in User : rooms'[s].members = GetRoom(s).members \cup {u}
        <3>1. GetRoom(s).members \in SUBSET User /\ GetRoom(s).info \in Info
            BY <2>4, GetRoomType DEF Room
        <3>2. GetRoom(s).info.capacity \in Int
            BY <3>1, CapacityType
        <3>3. PICK u \in User : rooms'[s].members = GetRoom(s).members \cup {u}
            BY <2>4
        <3>4. /\ Cardinality(GetRoom(s).members) \in Nat
              /\ Cardinality(rooms'[s].members) \in Nat
              /\ Cardinality(rooms'[s].members) <= Cardinality(GetRoom(s).members) + 1
            BY <3>1, <3>3, UserSets
        <3>5. QED
            BY <2>4, <3>1, <3>2, <3>4, LimitType DEF Fits
    <2>5. QED
        BY <1>5, <2>2, <2>3, <2>4 DEF RoomStep, MemoryStep
<1>6. ASSUME NEW s \in RoomName, rows'[s] # None,
             rooms'[s] # None => Fits(rooms'[s].members, rooms'[s].info),
             rooms'[s] = None => TableStep(s)
      PROVE  Fits(rowMembers'[s], rows'[s])
    <2>1. rows'[s] \in Info /\ rowMembers'[s] \in SUBSET User
        BY <1>1, <1>6 DEF RoomInv, TypeOK
    <2>2. CASE rowMembers'[s] = {}
        <3>1. Cardinality({}) = 0
            BY FS_EmptySet
        <3>2. QED
            BY <2>1, <2>2, <3>1, LimitType DEF Fits
    <2>3. CASE rooms'[s] # None /\ rowMembers'[s] # {}
        <3>1. ~(creating' # None /\ creating'.room = s)
            BY <1>1, <2>3 DEF RoomInv, CreationPending
        <3>2. rowMembers'[s] \subseteq rooms'[s].members /\ rooms'[s].info = rows'[s]
            BY <1>1, <1>6, <2>3, <3>1
               DEF RoomInv, PersistedAreMembers, MemoryIsTheRowsRoom
        <3>3. rooms'[s].members \in SUBSET User
            BY <1>1, <2>3 DEF RoomInv, TypeOK, Room
        <3>4. QED
            BY <1>3, <1>6, <2>1, <2>3, <3>2, <3>3
    <2>4. CASE rooms'[s] = None /\ rowMembers'[s] # {}
        <3>1. rows'[s] = rows[s] /\ rowMembers'[s] \subseteq rowMembers[s]
            BY <1>6, <2>4 DEF TableStep
        <3>2. Fits(rowMembers[s], rows[s])
            BY <1>6, <3>1 DEF WithinCapacity, Fits
        <3>3. rowMembers[s] \in SUBSET User
            BY DEF RoomInv, TypeOK
        <3>4. QED
            BY <1>3, <2>1, <3>1, <3>2, <3>3
    <2>5. QED
        BY <2>2, <2>3, <2>4
<1>7. CASE \A s \in RoomName : RoomStep(s)
    BY <1>5, <1>6, <1>7 DEF WithinCapacity, Fits, RoomStep
<1>8. CASE \E r \in RoomName, info \in NewInfo : CreateRow(r, info)
    <2>1. PICK r \in RoomName, info \in NewInfo : CreateRow(r, info)
        BY <1>8
    <2>2. rooms' = rooms /\ rowMembers' = rowMembers
        BY <2>1 DEF CreateRow
    <2>3. \A s \in RoomName : s # r => rows'[s] = rows[s]
        BY <2>1 DEF CreateRow, RoomInv, TypeOK
    <2>4. rowMembers'[r] = {}
        BY <2>1, <2>2 DEF CreateRow, RoomInv, MembersHaveRow
    <2>5. \A s \in RoomName : TableStep(s)
        BY <2>2, <2>3, <2>4 DEF TableStep
    <2>6. QED
        BY <1>6, <2>2, <2>5 DEF WithinCapacity, Fits
<1>9. QED
    BY <1>7, <1>8, NextSteps

\* No room ever holds more people than it may, in memory or in the table, for
\* any number of users and rooms (WithinCapacity).
THEOREM CapacityHolds == Spec => []WithinCapacity
<1>1. Init => WithinCapacity
    <2> SUFFICES ASSUME Init PROVE WithinCapacity
        OBVIOUS
    <2>1. Cardinality({}) = 0
        BY FS_EmptySet
    <2>2. GlobalInfo \in Info
        BY RoomAssumption DEF GlobalInfo, Info
    <2>3. Limit(GlobalInfo) >= 0
        BY <2>2, LimitType
    <2>4. QED
        BY <2>1, <2>3 DEF Init, WithinCapacity
<1>2. RoomInv /\ WithinCapacity /\ [Next]_vars => WithinCapacity'
    BY CapacityStep
<1>3. QED
    BY <1>1, <1>2, RoomInvariant, PTL DEF Spec

==============================================================================
