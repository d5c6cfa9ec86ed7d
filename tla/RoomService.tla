----------------------------- MODULE RoomService -----------------------------
(***************************************************************************)
(* Who is in which room: the room handlers of server/service.py run by one *)
(* thread per connected client (server/server.py), the matchmaker and the  *)
(* disconnection path, on top of RoomManager.                              *)
(*                                                                         *)
(* Each handler is cut where it releases a lock or runs an unlocked        *)
(* statement: between two labels of a thread every other thread may run.   *)
(* user_rooms is a plain dict read and written without any lock.           *)
(*                                                                         *)
(* Here an account has one thread at a time.  connections.remove is the    *)
(* first statement of unregister_client and a login takes no lock, so a    *)
(* second connection may overlap with the first: Sessions is about that.   *)
(***************************************************************************)
EXTENDS Integers, FiniteSets, Sequences, SequencesExt

CONSTANTS
    User, System, RoomName, Global, MatchRoom, Capacity, GlobalCapacity,
    Password, NoPassword, None,
    ClientRoom,     \* names clients use in CREATE_ROOM
    PoolRoom,       \* names uuid4 gives the matchmaker, never a client
    MatchCapacity,  \* 10 in the code
    Ops             \* the requests and events of this instance

AllOps == {"join", "leave", "create", "invite", "kick", "delete",
           "reconnect", "matchmake", "disconnect", "crash"}

ASSUME ServiceAssumption ==
    /\ Global \in RoomName
    /\ MatchRoom \subseteq RoomName \ {Global}
    /\ ClientRoom \subseteq RoomName \ {Global}
    /\ PoolRoom \subseteq MatchRoom \ ClientRoom
    /\ MatchCapacity \in Capacity
    /\ Ops \subseteq AllOps

VARIABLES
    rooms, rows, rowMembers, rowInvites, creating,  \* RoomManager
    userRoom,     \* service.user_rooms, None when the key is absent
    thread,       \* the thread serving each user: its label and its locals
    queue,        \* Matchmaker.queue
    match,        \* the _finish_match call holding Matchmaker.lock, or None
    serviceLock   \* holder of service.lock, or None

RM == INSTANCE RoomManager

\* What RoomManager assumes of its constants.
ASSUME RoomTableAssumption ==
    /\ System \notin User
    /\ IsFiniteSet(User)
    /\ Capacity \subseteq Int
    /\ GlobalCapacity \in Nat \ {0}
    /\ NoPassword \notin Password
    /\ None \notin RoomName
    /\ None \notin User
    /\ None \notin RM!Info
    /\ None \notin RM!Room
    /\ None \notin RM!Creation

roomVars == <<rooms, rows, rowMembers, rowInvites, creating>>
vars == <<roomVars, userRoom, thread, queue, match, serviceLock>>

------------------------------------------------------------------------------
(* Threads. *)

Label == {"offline", "registering", "leaked", "idle", "create.finish",
          "join.enter", "join.set",
          "leave.check", "leave.locked", "leave.db", "leave.reset",
          "home.enter", "home.set", "invite.memory", "invite.db",
          "kick.remove", "kick.where", "delete.locked", "delete.db", "rejoin",
          "match.create", "match.finish", "match.invite", "match.dbinvite",
          "match.previous", "match.enter", "match.set",
          "bye.queue", "bye.leave", "bye.db", "bye.forget"}

\* room: the room the handler is about; old: the room to leave; who: whose
\* membership; then: the label after leave_room returns.
Thread == [at : Label, room : RoomName \cup {None}, old : RoomName \cup {None},
           who : User \cup {None}, password : Password \cup {NoPassword},
           then : {"idle", "home.enter", "match.enter"}]

Match == [by : User, pair : User \X User, room : PoolRoom, i : {1, 2}]

ASSUME NoMatchAssumption == None \notin Match

Rest(label) == [at |-> label, room |-> None, old |-> None, who |-> None,
                password |-> NoPassword, then |-> "idle"]

At(t, label) == thread[t].at = label
Goto(t, label) == thread' = [thread EXCEPT ![t].at = label]
Become(t, local) == thread' = [thread EXCEPT ![t] = local]
Finish(t) == Become(t, Rest("idle"))

\* leave_room(who, old) called by thread t, going on at `then'.
CallLeave(t, who, old, then) ==
    Become(t, [Rest("leave.check") EXCEPT !.who = who, !.old = old, !.then = then])

\* Mutant of Return: the caller forgets whom it moves.
ReturnForgetsWho(t) ==
    IF thread[t].then = "idle" THEN Finish(t) ELSE Become(t, Rest(thread[t].then))

\* What the caller of leave_room does next.
Return(t) ==
    IF thread[t].then = "idle" THEN Finish(t)
    ELSE Become(t, [Rest(thread[t].then) EXCEPT !.who = thread[t].who])

\* user_rooms.get(username, "global")
RoomOf(u) == IF userRoom[u] = None THEN Global ELSE userRoom[u]

IsOwner(r, u) == RM!GetRoom(r) # None /\ RM!GetRoom(r).info.owner = u
IsMember(r, u) == RM!GetRoom(r) # None /\ u \in RM!GetRoom(r).members

\* Clients learn a generated name from MATCH_FOUND, which the first player gets
\* when _finish_match goes on to the second.
Told(r) ==
    match # None /\ match.room = r =>
        match.i = 2 /\ thread[match.by].at \notin {"match.invite", "match.dbinvite"}

\* A client at rest sends request op.
Request(u, op) == op \in Ops /\ At(u, "idle")

------------------------------------------------------------------------------
(* Connecting: the end of the handshake and register_client. *)

\* connections.add, user_rooms[u] = "global".
Login(u) ==
    /\ At(u, "offline")
    /\ userRoom' = [userRoom EXCEPT ![u] = Global]
    /\ Goto(u, "registering")
    /\ UNCHANGED <<roomVars, queue, match, serviceLock>>

\* register_client joins the room; when that fails the exception ends
\* handle_client with no user name, so the entry in `connections' stays and
\* no thread serves it: the account cannot log in again.
Register(u) ==
    /\ At(u, "registering")
    /\ \/ RM!Join(userRoom[u], u, NoPassword) /\ Finish(u)
       \/ RM!JoinRefused(userRoom[u], u, NoPassword) /\ Become(u, Rest("leaked"))
    /\ UNCHANGED <<userRoom, queue, match, serviceLock>>

(* handle_reconnect of the service: RECONNECT sent by a client that is      *)
(* connected.  The session's room is the one it was created with, "global". *)
Reconnect(u) ==
    /\ Request(u, "reconnect")
    /\ userRoom' = [userRoom EXCEPT ![u] = Global]
    /\ Goto(u, "rejoin")
    /\ UNCHANGED <<roomVars, queue, match, serviceLock>>

Rejoin(u) ==
    /\ At(u, "rejoin")
    /\ \/ RM!Join(userRoom[u], u, NoPassword)
       \/ RM!JoinRefused(userRoom[u], u, NoPassword)
    /\ Finish(u)
    /\ UNCHANGED <<userRoom, queue, match, serviceLock>>

------------------------------------------------------------------------------
(* leave_room of the service, for any thread and any user. *)

LeaveCheck(t) ==
    /\ At(t, "leave.check")
    /\ RM!Lookup(thread[t].old)
    /\ IF IsMember(thread[t].old, thread[t].who) THEN Goto(t, "leave.locked")
       ELSE Return(t)
    /\ UNCHANGED <<userRoom, queue, match, serviceLock>>

LeaveLocked(t) ==
    /\ At(t, "leave.locked")
    /\ RM!Leave(thread[t].old, thread[t].who)
    /\ Goto(t, "leave.db")
    /\ UNCHANGED <<userRoom, queue, match, serviceLock>>

\* The second, unlocked DELETE: the user may have come back meanwhile.
LeaveDb(t) ==
    /\ At(t, "leave.db")
    /\ RM!DbRemoveMember(thread[t].old, thread[t].who)
    /\ Goto(t, "leave.reset")
    /\ UNCHANGED <<userRoom, queue, match, serviceLock>>

LeaveReset(t) ==
    /\ At(t, "leave.reset")
    /\ userRoom' = [userRoom EXCEPT ![thread[t].who] =
                      IF @ = thread[t].old THEN Global ELSE @]
    /\ Return(t)
    /\ UNCHANGED <<roomVars, queue, match, serviceLock>>

(* join_room(who, "global") of the service. *)
HomeEnter(t) ==
    /\ At(t, "home.enter")
    /\ \/ RM!Join(Global, thread[t].who, NoPassword) /\ Goto(t, "home.set")
       \/ RM!JoinRefused(Global, thread[t].who, NoPassword) /\ Finish(t)
    /\ UNCHANGED <<userRoom, queue, match, serviceLock>>

HomeSet(t) ==
    /\ At(t, "home.set")
    /\ userRoom' = [userRoom EXCEPT ![thread[t].who] = Global]
    /\ Finish(t)
    /\ UNCHANGED <<roomVars, queue, match, serviceLock>>

------------------------------------------------------------------------------
(* handle_join_room: enter the new room, then leave the one read first. *)

CallJoin(u, r, password) ==
    Become(u, [Rest("join.enter") EXCEPT
                 !.room = r, !.old = RoomOf(u), !.password = password])

JoinRoom(u, r, password) ==
    /\ Request(u, "join")
    /\ Told(r)
    /\ CallJoin(u, r, password)
    /\ UNCHANGED <<roomVars, userRoom, queue, match, serviceLock>>

\* Refused, or in memory but not in the table because the row has gone:
\* either way an exception ends the handler.
JoinEnter(u) ==
    /\ At(u, "join.enter")
    /\ LET r == thread[u].room IN
       \/ /\ RM!Join(r, u, thread[u].password)
          /\ IF rows[r] = None THEN Finish(u) ELSE Goto(u, "join.set")
       \/ RM!JoinRefused(r, u, thread[u].password) /\ Finish(u)
    /\ UNCHANGED <<userRoom, queue, match, serviceLock>>

\* Mutant of JoinSet: the old room is read after user_rooms was set.
JoinSetReadsLate(u) ==
    /\ At(u, "join.set")
    /\ userRoom' = [userRoom EXCEPT ![u] = thread[u].room]
    /\ Finish(u)
    /\ UNCHANGED <<roomVars, queue, match, serviceLock>>

JoinSet(u) ==
    /\ At(u, "join.set")
    /\ userRoom' = [userRoom EXCEPT ![u] = thread[u].room]
    /\ IF thread[u].old = thread[u].room THEN Finish(u)
       ELSE CallLeave(u, u, thread[u].old, "idle")
    /\ UNCHANGED <<roomVars, queue, match, serviceLock>>

(* handle_create_room: create, then handle_join_room. *)
CreateRoom(u, r, info) ==
    /\ Request(u, "create")
    /\ info.owner = u
    /\ RM!CreateRow(r, info)
    /\ Become(u, [Rest("create.finish") EXCEPT !.room = r, !.password = info.password])
    /\ UNCHANGED <<userRoom, queue, match, serviceLock>>

CreateFinish(u) ==
    /\ At(u, "create.finish")
    /\ RM!CreateFinish
    /\ IF RM!Created THEN CallJoin(u, thread[u].room, thread[u].password)
       ELSE Finish(u)
    /\ UNCHANGED <<userRoom, queue, match, serviceLock>>

(* handle_leave_room: not from "global". *)
LeaveRoom(u) ==
    /\ Request(u, "leave")
    /\ RoomOf(u) # Global
    /\ CallLeave(u, u, RoomOf(u), "home.enter")
    /\ UNCHANGED <<roomVars, userRoom, queue, match, serviceLock>>

------------------------------------------------------------------------------
(* What owners do. *)

\* handle_invite_user
InviteUser(u, target) ==
    /\ Request(u, "invite")
    /\ IsOwner(RoomOf(u), u)
    /\ RM!Lookup(RoomOf(u))
    /\ Become(u, [Rest("invite.memory") EXCEPT !.room = RoomOf(u), !.who = target])
    /\ UNCHANGED <<userRoom, queue, match, serviceLock>>

InviteMemory(u) ==
    /\ At(u, "invite.memory")
    /\ LET r == thread[u].room IN
       \/ RM!Invite(r, thread[u].who) /\ Goto(u, "invite.db")
       \/ RM!GetRoom(r) = None /\ RM!Lookup(r) /\ Finish(u)
    /\ UNCHANGED <<userRoom, queue, match, serviceLock>>

InviteDb(u) ==
    /\ At(u, "invite.db")
    /\ LET r == thread[u].room IN
       \/ RM!DbInvite(r, thread[u].who)
       \/ rows[r] = None /\ UNCHANGED roomVars
    /\ Finish(u)
    /\ UNCHANGED <<userRoom, queue, match, serviceLock>>

\* Mutant of KickUser: no is_owner test.
KickUserUnchecked(u, target) ==
    /\ Request(u, "kick")
    /\ RM!Lookup(RoomOf(u))
    /\ Become(u, [Rest("kick.remove") EXCEPT !.room = RoomOf(u), !.who = target])
    /\ UNCHANGED <<userRoom, queue, match, serviceLock>>

\* handle_kick_user
KickUser(u, target) ==
    /\ Request(u, "kick")
    /\ IsOwner(RoomOf(u), u)
    /\ RM!Lookup(RoomOf(u))
    /\ Become(u, [Rest("kick.remove") EXCEPT !.room = RoomOf(u), !.who = target])
    /\ UNCHANGED <<userRoom, queue, match, serviceLock>>

KickRemove(u) ==
    /\ At(u, "kick.remove")
    /\ LET r == thread[u].room IN
       \/ RM!Kick(r, thread[u].who) /\ Goto(u, "kick.where")
       \/ RM!GetRoom(r) = None /\ RM!Lookup(r) /\ Finish(u)
    /\ UNCHANGED <<userRoom, queue, match, serviceLock>>

\* Where is the target now?  What is read here is used two steps later.
KickWhere(u) ==
    /\ At(u, "kick.where")
    /\ IF userRoom[thread[u].who] = thread[u].room THEN Goto(u, "home.enter")
       ELSE Finish(u)
    /\ UNCHANGED <<roomVars, userRoom, queue, match, serviceLock>>

\* handle_delete_room: is_owner, then the locked and the unlocked deletion.
DeleteRoom(u, r) ==
    /\ Request(u, "delete")
    /\ Told(r)
    /\ RM!Lookup(r)
    /\ IF IsOwner(r, u) THEN Become(u, [Rest("delete.locked") EXCEPT !.room = r])
       ELSE UNCHANGED thread
    /\ UNCHANGED <<userRoom, queue, match, serviceLock>>

DeleteLocked(u) ==
    /\ At(u, "delete.locked")
    /\ RM!Delete(thread[u].room)
    /\ Goto(u, "delete.db")
    /\ UNCHANGED <<userRoom, queue, match, serviceLock>>

DeleteDb(u) ==
    /\ At(u, "delete.db")
    /\ RM!DbDeleteRoom(thread[u].room)
    /\ Finish(u)
    /\ UNCHANGED <<userRoom, queue, match, serviceLock>>

------------------------------------------------------------------------------
(* The matchmaker.  Its lock is held from the enqueue that makes a pair to   *)
(* the end of _finish_match, run by the thread of the second player.         *)

\* A name uuid4 has not given out: nothing mentions it.
Fresh(r) ==
    /\ rows[r] = None /\ rooms[r] = None
    /\ \A u \in User : userRoom[u] # r /\ thread[u].room # r /\ thread[u].old # r

Matchmake(u) ==
    /\ Request(u, "matchmake")
    /\ match = None
    /\ u \notin Range(queue)
    /\ IF queue = <<>>
       THEN queue' = <<u>> /\ UNCHANGED <<thread, match>>
       ELSE /\ queue' = Tail(queue)
            /\ \E r \in PoolRoom :
                 /\ Fresh(r)
                 /\ match' = [by |-> u, pair |-> <<Head(queue), u>>, room |-> r, i |-> 1]
            /\ Goto(u, "match.create")
    /\ UNCHANGED <<roomVars, userRoom, serviceLock>>

Player == match.pair[match.i]

MatchInfo == [owner |-> match.pair[1], capacity |-> MatchCapacity,
              inviteOnly |-> TRUE, password |-> NoPassword]

MatchCreate(t) ==
    /\ At(t, "match.create")
    /\ RM!CreateRow(match.room, MatchInfo)
    /\ Goto(t, "match.finish")
    /\ UNCHANGED <<userRoom, queue, match, serviceLock>>

MatchFinish(t) ==
    /\ At(t, "match.finish")
    /\ RM!CreateFinish
    /\ Goto(t, "match.invite")
    /\ UNCHANGED <<userRoom, queue, match, serviceLock>>

MatchInvite(t) ==
    /\ At(t, "match.invite")
    /\ RM!Invite(match.room, Player)
    /\ Goto(t, "match.dbinvite")
    /\ UNCHANGED <<userRoom, queue, match, serviceLock>>

MatchDbInvite(t) ==
    /\ At(t, "match.dbinvite")
    /\ RM!DbInvite(match.room, Player)
    /\ match' = [match EXCEPT !.i = 3 - @]
    /\ Goto(t, IF match.i = 1 THEN "match.invite" ELSE "match.previous")
    /\ UNCHANGED <<userRoom, queue, serviceLock>>

MatchPrevious(t) ==
    /\ At(t, "match.previous")
    /\ IF RoomOf(Player) # match.room
       THEN CallLeave(t, Player, RoomOf(Player), "match.enter")
       ELSE Goto(t, "match.enter")
    /\ UNCHANGED <<roomVars, userRoom, queue, match, serviceLock>>

\* Mutant of NextPlayer: Matchmaker.lock is never released.
NextPlayerKeepsLock(t) ==
    IF match.i = 1
    THEN match' = [match EXCEPT !.i = 2] /\ Become(t, Rest("match.previous"))
    ELSE UNCHANGED match /\ Finish(t)

\* On to the second player, or out of the lock.
NextPlayer(t) ==
    IF match.i = 1
    THEN match' = [match EXCEPT !.i = 2] /\ Become(t, Rest("match.previous"))
    ELSE match' = None /\ Finish(t)

MatchEnter(t) ==
    /\ At(t, "match.enter")
    /\ \/ /\ RM!Join(match.room, Player, NoPassword)
          /\ Goto(t, "match.set")
          /\ UNCHANGED match
       \/ RM!JoinRefused(match.room, Player, NoPassword) /\ NextPlayer(t)
    /\ UNCHANGED <<userRoom, queue, serviceLock>>

MatchSet(t) ==
    /\ At(t, "match.set")
    /\ userRoom' = [userRoom EXCEPT ![Player] = match.room]
    /\ NextPlayer(t)
    /\ UNCHANGED <<roomVars, queue, serviceLock>>

------------------------------------------------------------------------------
(* unregister_client, under service.lock. *)

Disconnect(u) ==
    /\ Request(u, "disconnect")
    /\ serviceLock = None
    /\ serviceLock' = u
    /\ Goto(u, "bye.queue")
    /\ UNCHANGED <<roomVars, userRoom, queue, match>>

\* Matchmaker.leave_queue once it has the lock.
LeaveQueue(u) ==
    IF u \in Range(queue)
    THEN \E i \in DOMAIN queue : queue[i] = u /\ queue' = RemoveAt(queue, i)
    ELSE UNCHANGED queue

\* Mutants of ByeQueue: leave_queue without the matchmaker's lock; no
\* leave_queue; the wrong room is left.
ByeQueueUnlocked(u) ==
    /\ At(u, "bye.queue")
    /\ LeaveQueue(u)
    /\ Become(u, [Rest("bye.leave") EXCEPT !.old = RoomOf(u)])
    /\ UNCHANGED <<roomVars, userRoom, match, serviceLock>>

ByeQueueForgets(u) ==
    /\ At(u, "bye.queue")
    /\ match = None
    /\ Become(u, [Rest("bye.leave") EXCEPT !.old = RoomOf(u)])
    /\ UNCHANGED <<roomVars, userRoom, queue, match, serviceLock>>

ByeQueueLeavesGlobal(u) ==
    /\ At(u, "bye.queue")
    /\ match = None
    /\ LeaveQueue(u)
    /\ Become(u, [Rest("bye.leave") EXCEPT !.old = Global])
    /\ UNCHANGED <<roomVars, userRoom, match, serviceLock>>

\* leave_queue waits for the matchmaker; user_rooms is read after it.
ByeQueue(u) ==
    /\ At(u, "bye.queue")
    /\ match = None
    /\ LeaveQueue(u)
    /\ Become(u, [Rest("bye.leave") EXCEPT !.old = RoomOf(u)])
    /\ UNCHANGED <<roomVars, userRoom, match, serviceLock>>

ByeLeave(u) ==
    /\ At(u, "bye.leave")
    /\ RM!Leave(thread[u].old, u)
    /\ Goto(u, "bye.db")
    /\ UNCHANGED <<userRoom, queue, match, serviceLock>>

ByeDb(u) ==
    /\ At(u, "bye.db")
    /\ RM!DbRemoveMember(thread[u].old, u)
    /\ Goto(u, "bye.forget")
    /\ UNCHANGED <<userRoom, queue, match, serviceLock>>

ByeForget(u) ==
    /\ At(u, "bye.forget")
    /\ userRoom' = [userRoom EXCEPT ![u] = None]
    /\ serviceLock' = None
    /\ Become(u, Rest("offline"))
    /\ UNCHANGED <<roomVars, queue, match>>

\* Mutant of Crash: the global room is not loaded when the server starts.
CrashLoadsNothing ==
    /\ "crash" \in Ops
    /\ rooms' = [r \in RoomName |-> None]
    /\ creating' = None
    /\ UNCHANGED <<rows, rowMembers, rowInvites>>
    /\ userRoom' = [u \in User |-> None]
    /\ thread' = [u \in User |-> Rest("offline")]
    /\ queue' = <<>>
    /\ match' = None
    /\ serviceLock' = None

\* The server process dies and is started again.
Crash ==
    /\ "crash" \in Ops
    /\ RM!Restart
    /\ userRoom' = [u \in User |-> None]
    /\ thread' = [u \in User |-> Rest("offline")]
    /\ queue' = <<>>
    /\ match' = None
    /\ serviceLock' = None

------------------------------------------------------------------------------
Init ==
    /\ RM!Init
    /\ userRoom = [u \in User |-> None]
    /\ thread = [u \in User |-> Rest("offline")]
    /\ queue = <<>>
    /\ match = None
    /\ serviceLock = None

\* A thread goes on with what it is doing.
Continue(t) ==
    \/ Register(t) \/ Rejoin(t)
    \/ LeaveCheck(t) \/ LeaveLocked(t) \/ LeaveDb(t) \/ LeaveReset(t)
    \/ HomeEnter(t) \/ HomeSet(t)
    \/ JoinEnter(t) \/ JoinSet(t) \/ CreateFinish(t)
    \/ InviteMemory(t) \/ InviteDb(t)
    \/ KickRemove(t) \/ KickWhere(t)
    \/ DeleteLocked(t) \/ DeleteDb(t)
    \/ MatchCreate(t) \/ MatchFinish(t) \/ MatchInvite(t) \/ MatchDbInvite(t)
    \/ MatchPrevious(t) \/ MatchEnter(t) \/ MatchSet(t)
    \/ ByeQueue(t) \/ ByeLeave(t) \/ ByeDb(t) \/ ByeForget(t)

\* A client asks for something.
Ask(u) ==
    \/ Login(u) \/ Reconnect(u) \/ LeaveRoom(u) \/ Matchmake(u) \/ Disconnect(u)
    \/ \E target \in User : InviteUser(u, target) \/ KickUser(u, target)
    \/ \E r \in ClientRoom \cup PoolRoom : DeleteRoom(u, r)
    \/ \E r \in RoomName, password \in Password \cup {NoPassword} :
         JoinRoom(u, r, password)
    \/ \E r \in ClientRoom, info \in RM!NewInfo : CreateRoom(u, r, info)

Next == Crash \/ \E u \in User : Continue(u) \/ Ask(u)

Spec == Init /\ [][Next]_vars

\* A thread that can go on again and again does: the interpreter schedules every
\* thread, no lock is kept waiting for a client, and the locks, which are not
\* queues, starve nobody for ever.  Clients need not ask for anything.
FairSpec == Spec /\ \A u \in User : SF_vars(Continue(u))

------------------------------------------------------------------------------
(* Properties. *)

\* The room table, user_rooms, the queue and the locks hold values of their kind,
\* and a thread at any statement of a handler has only locals of its kind.
TypeOK ==
    /\ RM!TypeOK
    /\ userRoom \in [User -> RoomName \cup {None}]
    /\ thread \in [User -> Thread]
    /\ queue \in Seq(User)
    /\ match \in Match \cup {None}
    /\ serviceLock \in User \cup {None}

Members(r) == IF rooms[r] = None THEN {} ELSE rooms[r].members

InRooms(u) == {r \in RoomName : u \in Members(r)}

\* No thread but u's own is about to change where u is.
Unmoved(u) ==
    /\ \A t \in User \ {u} : thread[t].who # u
    /\ match # None => u \notin Range(match.pair)

\* A client between requests is a member of the room user_rooms names and of
\* no other: the order join, user_rooms, leave of handle_join_room and the
\* others leaves nobody in two rooms or in none.
SettledInOneRoom ==
    \A u \in User : At(u, "idle") /\ Unmoved(u) => InRooms(u) = {userRoom[u]}

\* The matchmaking queue holds a client once, and only one that is connected:
\* leave_queue runs before unregister_client forgets the client.
QueueIsOfConnected ==
    /\ \A i, j \in DOMAIN queue : queue[i] = queue[j] => i = j
    /\ \A u \in Range(queue) :
         thread[u].at \notin {"offline", "registering", "leaked",
                             "bye.leave", "bye.db", "bye.forget"}

\* unregister_client forgets a client completely: no room has it as a member,
\* in memory or in the table, user_rooms has no key for it, and nobody can be
\* matched with it.
NoGhosts ==
    /\ QueueIsOfConnected
    /\ \A u \in User : At(u, "offline") /\ Unmoved(u) =>
         /\ userRoom[u] = None
         /\ \A r \in RoomName : u \notin Members(r) \cup rowMembers[r]

\* Whoever is in an invite-only room owns it or was invited.
InviteOnlyRoomsHoldInvited ==
    \A r \in RoomName :
        rooms[r] # None /\ rooms[r].info.inviteOnly =>
            rooms[r].members \subseteq
                rooms[r].invites \cup rowInvites[r] \cup {rooms[r].info.owner}

\* Where nobody deletes a room and nobody is matched, only the user's own thread or
\* the room's owner takes a member out of it: no request of another client, however
\* the steps of kick, leave and join interleave.
OnlyOwnerRemoves ==
    [][\A r \in RoomName, u \in User :
         u \in Members(r) /\ u \notin Members(r)' =>
            \/ thread'[u] # thread[u]
            \/ \E t \in User : thread'[t] # thread[t] /\ rooms[r].info.owner = t]_vars

\* _finish_match ends with both players in the match room, and user_rooms
\* knows it.
MatchEndsTogether ==
    [][match # None /\ match' = None =>
         \A u \in Range(match.pair) :
            u \in Members(match.room) /\ userRoom'[u] = match.room]_vars

\* "Only the room owner can delete a room." (server/service.py:209): the row
\* of a room disappears only when its owner's thread deletes it, or when it is
\* a match room.
OnlyOwnerDeletes ==
    [][\A r \in RoomName :
         rows[r] # None /\ rows'[r] = None /\ r \notin MatchRoom =>
            thread'[rows[r].owner] # thread[rows[r].owner]]_vars

\* Every handler comes to its end: with service.lock, Matchmaker.lock and the
\* room manager's lock taken in this order nobody waits for ever.
HandlersReturn ==
    \A u \in User :
        thread[u].at \notin {"idle", "offline", "leaked"}
            ~> thread[u].at \in {"idle", "offline", "leaked"}

\* Every step on the room table is a call of the room manager or one of the
\* unlocked statements: RoomManager's properties are this system's.
RoomTable == RM!Spec
==============================================================================
