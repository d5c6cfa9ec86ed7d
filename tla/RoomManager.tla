----------------------------- MODULE RoomManager -----------------------------
(***************************************************************************)
(* The room table of the server: rooms/room_manager.py together with the   *)
(* three SQLite tables behind it (rooms, room_members, room_invites of     *)
(* database/db.py).                                                        *)
(*                                                                         *)
(* Every RoomManager method holds the manager's RLock from its first       *)
(* statement to its last, so a call is one step here.  Two things break    *)
(* that picture and are kept:                                              *)
(*   - the service also runs database.remove_room_member, delete_room and  *)
(*     invite_room_user with no lock at all (the actions Db...);           *)
(*   - create_room commits the row and the owner's membership separately,  *)
(*     and an unlocked delete_room or a crash may fall between the two.    *)
(*     `creating' is the call that holds the lock between its commits.     *)
(* Everything in memory dies with the process; the tables do not.          *)
(***************************************************************************)
EXTENDS Integers, FiniteSets

CONSTANTS
    User,            \* user names
    System,          \* owner of the global room, no user
    RoomName,        \* names of rooms
    Global,          \* the room everybody starts in
    MatchRoom,       \* the names that start with "match_"
    Capacity,        \* values clients send as max_capacity
    GlobalCapacity,  \* 999 in the code
    Password,        \* room passwords
    NoPassword,      \* a room that has none, a join that sends none
    None             \* Python's None

ASSUME RoomAssumption ==
    /\ System \notin User
    /\ Global \in RoomName
    /\ MatchRoom \subseteq RoomName \ {Global}
    /\ Capacity \subseteq Int
    /\ GlobalCapacity \in Nat \ {0}
    /\ NoPassword \notin Password
    /\ IsFiniteSet(User)

VARIABLES
    rooms,       \* RoomManager.rooms: the rooms in memory, None when absent
    rows,        \* table rooms: the row of each name, None when absent
    rowMembers,  \* table room_members, by name of the room
    rowInvites,  \* table room_invites, by name of the room
    creating     \* the create_room call between its two commits, or None

vars == <<rooms, rows, rowMembers, rowInvites, creating>>

------------------------------------------------------------------------------
(* Rooms and rows. *)

Info == [owner : User \cup {System}, capacity : Capacity \cup {GlobalCapacity},
         inviteOnly : BOOLEAN, password : Password \cup {NoPassword}]

Room == [info : Info, members : SUBSET User, invites : SUBSET User]

\* The rooms clients and the matchmaker ask for.
NewInfo == {i \in Info : i.owner \in User /\ i.capacity \in Capacity}

Creation == [room : RoomName, info : NewInfo]

ASSUME NoneAssumption ==
    /\ None \notin RoomName
    /\ None \notin User
    /\ None \notin Info
    /\ None \notin Room
    /\ None \notin Creation

GlobalInfo == [owner |-> System, capacity |-> GlobalCapacity,
               inviteOnly |-> FALSE, password |-> NoPassword]

\* What a room object read from the database looks like: the members are in
\* the table, the invites are not loaded.
FromRow(r) == [info |-> rows[r], members |-> rowMembers[r], invites |-> {}]

\* get_room: the room in memory, else the one _load_room finds in the table.
GetRoom(r) ==
    IF rooms[r] # None THEN rooms[r]
    ELSE IF rows[r] # None THEN FromRow(r) ELSE None

\* The lock is free.
Unlocked == creating = None

\* Every method starts with get_room, which leaves a room it had to load in
\* memory.
Load(r) == rooms' = [rooms EXCEPT ![r] = GetRoom(r)]

Put(r, room) == rooms' = [rooms EXCEPT ![r] = room]

\* Mutants of MayEnter: one seat too many; the invitation is not asked for.
MayEnterOneMore(r, u, password) ==
    LET room == GetRoom(r) IN
    /\ room # None
    /\ room.info.inviteOnly =>
         u \in room.invites \cup rowInvites[r] \cup {room.info.owner}
    /\ room.info.password \in {NoPassword, password}
    /\ Cardinality(room.members) <= room.info.capacity

MayEnterUninvited(r, u, password) ==
    LET room == GetRoom(r) IN
    /\ room # None
    /\ room.info.password \in {NoPassword, password}
    /\ Cardinality(room.members) < room.info.capacity

\* join_room's three refusals: invite-only, wrong password, full.  The last
\* one looks at the room's size before asking whether the user is in already.
MayEnter(r, u, password) ==
    LET room == GetRoom(r) IN
    /\ room # None
    /\ room.info.inviteOnly =>
         u \in room.invites \cup rowInvites[r] \cup {room.info.owner}
    /\ room.info.password \in {NoPassword, password}
    /\ Cardinality(room.members) < room.info.capacity

------------------------------------------------------------------------------
(* The methods. *)

\* is_owner, is_room_member, get_members: they only look, and load.
Lookup(r) ==
    /\ Unlocked
    /\ Load(r)
    /\ UNCHANGED <<rows, rowMembers, rowInvites, creating>>

\* create_room up to the commit of the row.  A room of that name in memory is
\* not consulted.
CreateRow(r, info) ==
    /\ Unlocked
    /\ rows[r] = None
    /\ rows' = [rows EXCEPT ![r] = info]
    /\ creating' = [room |-> r, info |-> info]
    /\ UNCHANGED <<rooms, rowMembers, rowInvites>>

\* The row was still there when the owner's membership was added.
Created == creating # None /\ rows[creating.room] # None

\* Mutant of CreateFinish: an object already in memory under the name is kept.
CreateFinishKeepsOld ==
    /\ creating # None
    /\ creating' = None
    /\ LET r == creating.room  owner == creating.info.owner IN
       IF Created
       THEN /\ IF rooms[r] # None THEN UNCHANGED rooms
               ELSE Put(r, [info |-> creating.info, members |-> {owner}, invites |-> {}])
            /\ rowMembers' = [rowMembers EXCEPT ![r] = @ \cup {owner}]
       ELSE UNCHANGED <<rooms, rowMembers>>
    /\ UNCHANGED <<rows, rowInvites>>

\* The rest of create_room.  add_room_member raises when the row has gone, and
\* then the object never reaches `rooms'.
CreateFinish ==
    /\ creating # None
    /\ creating' = None
    /\ LET r == creating.room  owner == creating.info.owner IN
       IF Created
       THEN /\ Put(r, [info |-> creating.info, members |-> {owner}, invites |-> {}])
            /\ rowMembers' = [rowMembers EXCEPT ![r] = @ \cup {owner}]
       ELSE UNCHANGED <<rooms, rowMembers>>
    /\ UNCHANGED <<rows, rowInvites>>

\* join_room when it lets the user in.  The member is added in memory first;
\* add_room_member then raises when the row has gone.
Join(r, u, password) ==
    /\ Unlocked
    /\ MayEnter(r, u, password)
    /\ Put(r, [GetRoom(r) EXCEPT !.members = @ \cup {u}])
    /\ rowMembers' = IF rows[r] = None THEN rowMembers
                     ELSE [rowMembers EXCEPT ![r] = @ \cup {u}]
    /\ UNCHANGED <<rows, rowInvites, creating>>

JoinRefused(r, u, password) ==
    /\ ~MayEnter(r, u, password)
    /\ Lookup(r)

\* What delete_room leaves of a room, in memory and in the tables.
DropRow(r) ==
    /\ rows' = [rows EXCEPT ![r] = None]
    /\ rowMembers' = [rowMembers EXCEPT ![r] = {}]
    /\ rowInvites' = [rowInvites EXCEPT ![r] = {}]

\* leave_room: a match room whose last member leaves is deleted.
Leave(r, u) ==
    /\ Unlocked
    /\ LET room == GetRoom(r) IN
       \/ /\ room = None
          /\ UNCHANGED <<rooms, rows, rowMembers, rowInvites>>
       \/ /\ room # None
          /\ r \in MatchRoom /\ room.members \subseteq {u}
          /\ Put(r, None)
          /\ DropRow(r)
       \/ /\ room # None
          /\ ~(r \in MatchRoom /\ room.members \subseteq {u})
          /\ Put(r, [room EXCEPT !.members = @ \ {u}])
          /\ rowMembers' = [rowMembers EXCEPT ![r] = @ \ {u}]
          /\ UNCHANGED <<rows, rowInvites>>
    /\ UNCHANGED creating

\* invite_user: memory only.
Invite(r, u) ==
    /\ Unlocked
    /\ GetRoom(r) # None
    /\ Put(r, [GetRoom(r) EXCEPT !.invites = @ \cup {u}])
    /\ UNCHANGED <<rows, rowMembers, rowInvites, creating>>

\* Mutant of Kick: the table is forgotten.
KickInMemory(r, u) ==
    /\ Unlocked
    /\ GetRoom(r) # None
    /\ Put(r, [GetRoom(r) EXCEPT !.members = @ \ {u}])
    /\ UNCHANGED <<rows, rowMembers, rowInvites, creating>>

\* kick_user: leaving, without the deletion of an emptied match room.
Kick(r, u) ==
    /\ Unlocked
    /\ GetRoom(r) # None
    /\ Put(r, [GetRoom(r) EXCEPT !.members = @ \ {u}])
    /\ rowMembers' = [rowMembers EXCEPT ![r] = @ \ {u}]
    /\ UNCHANGED <<rows, rowInvites, creating>>

\* delete_room.
Delete(r) ==
    /\ Unlocked
    /\ r # Global
    /\ Put(r, None)
    /\ DropRow(r)
    /\ UNCHANGED creating

------------------------------------------------------------------------------
(* Statements the service runs on the tables without the lock. *)

\* database.remove_room_member
DbRemoveMember(r, u) ==
    /\ rowMembers' = [rowMembers EXCEPT ![r] = @ \ {u}]
    /\ UNCHANGED <<rooms, rows, rowInvites, creating>>

\* database.delete_room
DbDeleteRoom(r) ==
    /\ r # Global
    /\ DropRow(r)
    /\ UNCHANGED <<rooms, creating>>

\* database.invite_room_user; it raises when the row is not there.
DbInvite(r, u) ==
    /\ rows[r] # None
    /\ rowInvites' = [rowInvites EXCEPT ![r] = @ \cup {u}]
    /\ UNCHANGED <<rooms, rows, rowMembers, creating>>

\* The process dies and starts again: RoomManager.__init__ loads the global
\* room with the members its table still has.
Restart ==
    /\ rooms' = [r \in RoomName |-> IF r = Global THEN FromRow(Global) ELSE None]
    /\ creating' = None
    /\ UNCHANGED <<rows, rowMembers, rowInvites>>

------------------------------------------------------------------------------
(* First start on an empty database. *)
Init ==
    /\ rows = [r \in RoomName |-> IF r = Global THEN GlobalInfo ELSE None]
    /\ rooms = [r \in RoomName |->
                  IF r = Global
                  THEN [info |-> GlobalInfo, members |-> {}, invites |-> {}]
                  ELSE None]
    /\ rowMembers = [r \in RoomName |-> {}]
    /\ rowInvites = [r \in RoomName |-> {}]
    /\ creating = None

Next ==
    \/ CreateFinish
    \/ Restart
    \/ \E r \in RoomName :
         \/ Lookup(r) \/ Delete(r) \/ DbDeleteRoom(r)
         \/ \E info \in NewInfo : CreateRow(r, info)
         \/ \E u \in User :
              \/ Leave(r, u) \/ Invite(r, u) \/ Kick(r, u)
              \/ DbRemoveMember(r, u) \/ DbInvite(r, u)
              \/ \E password \in Password \cup {NoPassword} :
                   Join(r, u, password) \/ JoinRefused(r, u, password)

Spec == Init /\ [][Next]_vars

------------------------------------------------------------------------------
(* Properties. *)

\* Rooms in memory and rows hold values of their kind, also when a room has been
\* made from its row by _load_room.
TypeOK ==
    /\ rooms \in [RoomName -> Room \cup {None}]
    /\ rows \in [RoomName -> Info \cup {None}]
    /\ rowMembers \in [RoomName -> SUBSET User]
    /\ rowInvites \in [RoomName -> SUBSET User]
    /\ creating \in Creation \cup {None}

\* Memory never loses a member the database still has: the persisted members
\* of a loaded room are members in memory.  (The converse is false: see
\* leave_room's second, unlocked DELETE, server/service.py:443.)  A restart
\* therefore never lets anybody into a room who was not in it before.
PersistedAreMembers ==
    \A r \in RoomName : rooms[r] # None => rowMembers[r] \subseteq rooms[r].members

\* A room object never outlives its row to stand beside the row of a later
\* room of the same name: owner, capacity, invite-only flag and password in
\* memory are those in the table, except while create_room, holding the lock,
\* has committed the row and not yet replaced the object.
MemoryIsTheRowsRoom ==
    \A r \in RoomName :
        /\ rooms[r] # None
        /\ rows[r] # None
        /\ ~(creating # None /\ creating.room = r)
        => rooms[r].info = rows[r]

\* The owner is in from the start whatever the capacity is.
Limit(info) == IF info.capacity > 1 THEN info.capacity ELSE 1

\* join_room's capacity test is enough: neither races with the unlocked
\* statements nor a restart ever put more people in a room than it holds, in
\* memory or in the table.
WithinCapacity ==
    \A r \in RoomName :
        /\ rooms[r] # None => Cardinality(rooms[r].members) <= Limit(rooms[r].info)
        /\ rows[r] # None => Cardinality(rowMembers[r]) <= Limit(rows[r])

==============================================================================
