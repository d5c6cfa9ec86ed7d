---------------------------------- MODULE Chat ----------------------------------
(***************************************************************************)
(* What is said in rooms and in private: the terminal client               *)
(* (client/client_app.py), whose input loop and receiver thread share the  *)
(* current room; the message, join, leave and disconnection handlers of    *)
(* server/service.py with everything they send; the table of messages.     *)
(*                                                                         *)
(* sendall waits while a socket is full.  One client's requests are        *)
(* handled one after the other, on a thread of its own.  Who may be in a   *)
(* room, and the locks of the room table, are RoomService's.               *)
(***************************************************************************)
EXTENDS Naturals, Sequences

CONSTANTS
    Client,
    Room, Global,
    Nowhere,     \* a room that cannot be joined
    Nothing,
    Travellers,  \* clients that may have left Global before
    Buffer,      \* packets a socket holds
    MaxAsked     \* bound on what clients ask for

VARIABLES
    here,         \* ConvoxClient.current_room
    typed,        \* the packet the input loop is sending, or Nothing
    up, down,     \* the two directions of each socket
    online,       \* clients that have not quit
    live,         \* the messages a client has displayed, as they came
    past,         \* those it was shown as history
    told,         \* private messages it was told of: delivered, or stored
    userRooms, members, connections, messages, serviceLock,
    handler,      \* per client, what its server thread is doing
    owed,         \* what a client should see sooner or later
    asked

client == <<here, typed, online, live, past, told, asked>>
sockets == <<up, down>>
server == <<userRooms, members, connections, messages, serviceLock, owed>>
chatVars == <<client, sockets, server, handler>>

------------------------------------------------------------------------------
Message == [by : Client, room : Room \cup {Nothing}, to : Client \cup {Nothing}]

Request == [type : {"MESSAGE", "LEAVE_ROOM", "JOIN_ROOM", "PRIVATE_MESSAGE"},
            room : Room \cup {Nowhere, Nothing}, target : Client \cup {Nothing}]

ASSUME ChatAssumption ==
    /\ Global \in Room /\ Nowhere \notin Room /\ Nothing \notin Room \cup Client \cup Request
    /\ Travellers \subseteq Client /\ Buffer \in Nat /\ MaxAsked \in Nat

Id == 1 .. MaxAsked   \* of rows of messages

\* joined, left, delivered and stored are SYSTEM packets the client, or its user, acts
\* on; a notice is any other packet.
Packet == [type : {"MESSAGE", "PRIVATE_MESSAGE", "ROOM_HISTORY", "joined", "left",
                   "delivered", "stored", "notice"},
           room : Room \cup {Nothing}, ids : SUBSET Id]

Stage == {"receive", "send", "gone", "message.save", "message.members", "private.save", "private.send",
          "join.enter", "join.leave", "join.members", "join.fetch", "leave.leave", "leave.members",
          "home.enter", "bye.leave", "bye.members", "bye.online", "bye.unlock"}

\* packet goes to all in todo, which brings the handler to `then'.
Handler == [at : Stage, room : Room \cup {Nothing}, old : Room \cup {Nothing},
            target : Client \cup {Nothing}, id : Id \cup {Nothing},
            packet : Packet \cup {Nothing}, todo : SUBSET Client, then : Stage]

Rest == [at |-> "receive", room |-> Nothing, old |-> Nothing, target |-> Nothing, id |-> Nothing,
         packet |-> Nothing, todo |-> {}, then |-> "receive"]

Of(type, room, ids) == [type |-> type, room |-> room, ids |-> ids]
Notice == Of("notice", Nothing, {})

\* The ids of a room's messages.
Said(room) == {i \in DOMAIN messages : messages[i].room = room}

ChatTypeOK ==
    /\ here \in [Client -> Room \cup {Nowhere}]
    /\ typed \in [Client -> Request \cup {Nothing}]
    /\ \A c \in Client : /\ up[c] \in Seq(Request) /\ Len(up[c]) <= Buffer
                         /\ down[c] \in Seq(Packet) /\ Len(down[c]) <= Buffer
                         /\ live[c] \in Seq(Id)
    /\ online \subseteq Client /\ connections \subseteq Client
    /\ past \in [Client -> SUBSET Id] /\ owed \in [Client -> SUBSET Id]
    /\ told \in [Client -> SUBSET (Id \X {"delivered", "stored"})]
    /\ userRooms \in [Client -> Room] /\ members \in [Room -> SUBSET Client]
    /\ messages \in Seq(Message)
    /\ serviceLock \in Client \cup {Nothing}
    /\ handler \in [Client -> Handler]

\* Everybody has logged in, and is in one room.
ChatInit ==
    /\ userRooms \in [Client -> Room]
    /\ \A c \in Client \ Travellers : userRooms[c] = Global
    /\ members = [r \in Room |-> {c \in Client : userRooms[c] = r}]
    /\ here = userRooms /\ typed = [c \in Client |-> Nothing]
    /\ up = [c \in Client |-> <<>>] /\ down = [c \in Client |-> <<>>]
    /\ online = Client /\ connections = Client
    /\ live = [c \in Client |-> <<>>] /\ past = [c \in Client |-> {}] /\ told = [c \in Client |-> {}]
    /\ messages = <<>> /\ serviceLock = Nothing
    /\ handler = [c \in Client |-> Rest]
    /\ owed = [c \in Client |-> {}] /\ asked = 0

------------------------------------------------------------------------------
(* ConvoxClient *)

\* handle_command and run, up to the call of sendall: /join moves the client at once.
Type(c, p) ==
    /\ c \in online /\ typed[c] = Nothing /\ asked < MaxAsked
    /\ typed' = [typed EXCEPT ![c] = p]
    /\ here' = IF p.type = "JOIN_ROOM" THEN [here EXCEPT ![c] = p.room] ELSE here
    /\ asked' = asked + 1
    /\ UNCHANGED <<online, live, past, told, sockets, server, handler>>

Requests(c) ==
    {[type |-> "MESSAGE", room |-> here[c], target |-> Nothing],
     [type |-> "LEAVE_ROOM", room |-> here[c], target |-> Nothing]}
    \cup {[type |-> "JOIN_ROOM", room |-> r, target |-> Nothing] : r \in Room \cup {Nowhere}}
    \cup {[type |-> "PRIVATE_MESSAGE", room |-> Nothing, target |-> d] : d \in Client \ {c}}

SendPacket(c) ==
    /\ typed[c] # Nothing /\ Len(up[c]) < Buffer
    /\ up' = [up EXCEPT ![c] = Append(@, typed[c])]
    /\ typed' = [typed EXCEPT ![c] = Nothing]
    /\ UNCHANGED <<here, online, live, past, told, asked, down, server, handler>>

\* /quit closes the socket: what it has not read is lost, and with a reset what the
\* server has not read is, too.
Quit(c) ==
    /\ c \in online /\ typed[c] = Nothing
    /\ online' = online \ {c}
    /\ down' = [down EXCEPT ![c] = <<>>]
    /\ up' \in {up, [up EXCEPT ![c] = <<>>]}
    /\ UNCHANGED <<here, typed, live, past, told, asked, server, handler>>

\* Mutants of RoomShown: the client stays where it was when it is told that it left;
\* it takes the room of any packet.
RoomShownStays(packet, room) == IF packet.type = "joined" THEN packet.room ELSE room
RoomShownAny(packet, room) == packet.room

\* current_room after display_packet.
RoomShown(packet, room) ==
    CASE packet.type = "joined" -> packet.room
      [] packet.type = "left" -> Global
      [] OTHER -> room

\* receive_loop and display_packet, on a thread that does not wait for the input loop.
Display(c) ==
    /\ c \in online /\ down[c] # <<>>
    /\ LET packet == Head(down[c])
       IN /\ here' = [here EXCEPT ![c] = RoomShown(packet, @)]
          /\ live' = IF packet.type \in {"MESSAGE", "PRIVATE_MESSAGE"}
                     THEN [live EXCEPT ![c] = Append(@, CHOOSE i \in packet.ids : TRUE)] ELSE live
          /\ past' = IF packet.type = "ROOM_HISTORY"
                     THEN [past EXCEPT ![c] = @ \cup packet.ids] ELSE past
          /\ told' = IF packet.type \in {"delivered", "stored"}
                     THEN [told EXCEPT ![c] = @ \cup (packet.ids \X {packet.type})] ELSE told
    /\ down' = [down EXCEPT ![c] = Tail(@)]
    /\ UNCHANGED <<typed, online, asked, up, server, handler>>

------------------------------------------------------------------------------
(* The thread that serves client c *)

Doing(c, stage) == handler[c].at = stage
Turn(c, local) == handler' = [handler EXCEPT ![c] = local]
Proceed(c, stage) == handler' = [handler EXCEPT ![c].at = stage]

\* What comes after a packet was sent to everybody.
Onward(h, then) ==
    IF then = "receive" THEN Rest ELSE [h EXCEPT !.at = then, !.packet = Nothing, !.todo = {}]

\* packet to all of recipients, one after the other, and then on.
Tell(c, packet, recipients, then) ==
    Turn(c, IF recipients = {} THEN Onward(handler[c], then)
              ELSE [handler[c] EXCEPT !.at = "send", !.packet = packet, !.todo = recipients, !.then = then])

\* The handler that has told u.
Sent(h, u) == IF h.todo = {u} THEN Onward(h, h.then) ELSE [h EXCEPT !.todo = @ \ {u}]

\* A socket the server has for u, with u at its other end.
Reached(u) == u \in connections /\ u \in online

\* Mutants of Deliver: a packet that cannot be sent is tried again; one that was sent
\* is sent again.
DeliverRetries(c, u) ==
    /\ Doing(c, "send") /\ u \in handler[c].todo
    /\ Reached(u) => Len(down[u]) < Buffer
    /\ down' = IF Reached(u) THEN [down EXCEPT ![u] = Append(@, handler[c].packet)] ELSE down
    /\ IF u \in connections \ online THEN UNCHANGED handler ELSE Turn(c, Sent(handler[c], u))
    /\ UNCHANGED <<client, up, server>>

DeliverAgain(c, u) ==
    /\ Doing(c, "send") /\ u \in handler[c].todo
    /\ Reached(u) => Len(down[u]) < Buffer
    /\ down' = IF Reached(u) THEN [down EXCEPT ![u] = Append(@, handler[c].packet)] ELSE down
    /\ handler' \in {handler, [handler EXCEPT ![c] = Sent(@, u)]}
    /\ UNCHANGED <<client, up, server>>

\* ConnectionManager.send; a packet to a socket that is closed at the other end is lost.
Deliver(c, u) ==
    /\ Doing(c, "send") /\ u \in handler[c].todo
    /\ Reached(u) => Len(down[u]) < Buffer
    /\ down' = IF Reached(u) THEN [down EXCEPT ![u] = Append(@, handler[c].packet)] ELSE down
    /\ Turn(c, Sent(handler[c], u))
    /\ UNCHANGED <<client, up, server>>

\* handle_client and route_packet, with what refuses a request.
Receive(c) ==
    /\ Doing(c, "receive") /\ up[c] # <<>>
    /\ up' = [up EXCEPT ![c] = Tail(@)]
    /\ LET p == Head(up[c])
           Begin(stage, room) == Turn(c, [Rest EXCEPT !.at = stage, !.room = room, !.target = p.target])
           Refuse == Tell(c, Notice, {c}, "receive")
       IN CASE p.type = "MESSAGE" -> Begin("message.save", userRooms[c])
            [] p.type = "PRIVATE_MESSAGE" -> Begin("private.save", Nothing)
            [] p.type = "JOIN_ROOM" ->
                 IF p.room = Nowhere THEN Refuse ELSE Begin("join.enter", p.room)
            [] p.type = "LEAVE_ROOM" ->
                 IF userRooms[c] = Global THEN Refuse ELSE Begin("leave.leave", userRooms[c])
    /\ UNCHANGED <<client, down, server>>

\* save_message; the row's id is Len(messages) + 1.
Save(c, message, stage) ==
    /\ messages' = Append(messages, message)
    /\ Turn(c, [handler[c] EXCEPT !.at = stage, !.id = Len(messages) + 1])
    /\ UNCHANGED <<client, sockets, userRooms, members, connections, serviceLock>>

MessageSave(c) ==
    /\ Doing(c, "message.save")
    /\ Save(c, [by |-> c, room |-> handler[c].room, to |-> Nothing], "message.members")
    /\ owed' = [d \in Client |-> IF d \in members[handler[c].room]
                                 THEN owed[d] \cup {Len(messages) + 1} ELSE owed[d]]

\* broadcast_room_message: the members as they are now.
MessageMembers(c) ==
    /\ Doing(c, "message.members")
    /\ Tell(c, Of("MESSAGE", handler[c].room, {handler[c].id}), members[handler[c].room], "receive")
    /\ UNCHANGED <<client, sockets, server>>

PrivateSave(c) ==
    /\ Doing(c, "private.save")
    /\ Save(c, [by |-> c, room |-> Nothing, to |-> handler[c].target], "private.send")
    /\ UNCHANGED owed

\* Mutant of PrivateSend: a full socket is not waited for.
PrivateSendIfRoom(c) ==
    /\ Doing(c, "private.send")
    /\ LET u == handler[c].target
           ids == {handler[c].id}
           Answer(outcome) == Tell(c, Of(outcome, Nothing, ids), {c}, "receive")
       IN IF Reached(u)
          THEN /\ down' = IF Len(down[u]) = Buffer THEN down
                          ELSE [down EXCEPT ![u] = Append(@, Of("PRIVATE_MESSAGE", Nothing, ids))]
               /\ Answer("delivered")
          ELSE Answer("stored") /\ UNCHANGED down
    /\ UNCHANGED <<client, up, server>>

\* The message, and what its sender is told of it.  The first packet to a socket that
\* has just been closed may still be taken.
PrivateSend(c) ==
    /\ Doing(c, "private.send")
    /\ LET u == handler[c].target
           ids == {handler[c].id}
           Answer(outcome) == Tell(c, Of(outcome, Nothing, ids), {c}, "receive")
       IN \/ /\ Reached(u) /\ Len(down[u]) < Buffer
             /\ down' = [down EXCEPT ![u] = Append(@, Of("PRIVATE_MESSAGE", Nothing, ids))]
             /\ Answer("delivered")
          \/ u \in connections \ online /\ Answer("delivered") /\ UNCHANGED down
          \/ ~Reached(u) /\ Answer("stored") /\ UNCHANGED down
    /\ UNCHANGED <<client, up, server>>

------------------------------------------------------------------------------
(* Moving.  Leaving a room, a client is owed nothing of it any more. *)

Away(c, room) == owed' = [owed EXCEPT ![c] = @ \ Said(room)]

\* handle_join_room: the room, user_rooms, a word to the client, ...
JoinEnter(c) ==
    /\ Doing(c, "join.enter")
    /\ LET room == handler[c].room
       IN /\ members' = [members EXCEPT ![room] = @ \cup {c}]
          /\ userRooms' = [userRooms EXCEPT ![c] = room]
          /\ owed' = [owed EXCEPT ![c] = @ \cup Said(room)]
          /\ Turn(c, [handler[c] EXCEPT !.at = "send", !.old = userRooms[c], !.then = "join.leave",
                                          !.packet = Of("joined", room, {}), !.todo = {c}])
    /\ UNCHANGED <<client, sockets, connections, messages, serviceLock>>

\* ... leave_room of the old one, silently, ...
JoinLeave(c) ==
    /\ Doing(c, "join.leave")
    /\ LET old == handler[c].old
       IN IF old # handler[c].room
          THEN members' = [members EXCEPT ![old] = @ \ {c}] /\ Away(c, old)
          ELSE UNCHANGED <<members, owed>>
    /\ Proceed(c, "join.members")
    /\ UNCHANGED <<client, sockets, userRooms, connections, messages, serviceLock>>

\* ... broadcast_system to the members, ...
JoinMembers(c) ==
    /\ Doing(c, "join.members")
    /\ Tell(c, Notice, members[handler[c].room], "join.fetch")
    /\ UNCHANGED <<client, sockets, server>>

\* Mutant of History: without the newest, which is on its way in any case.
HistoryButLast(room) == {i \in Said(room) : \E j \in Said(room) : j > i}

\* fetch_room_messages.  (50 at most: more than the model says.)
History(room) == Said(room)

\* ... and the history, read and sent.
JoinFetch(c) ==
    /\ Doing(c, "join.fetch")
    /\ Tell(c, Of("ROOM_HISTORY", handler[c].room, History(handler[c].room)), {c}, "receive")
    /\ UNCHANGED <<client, sockets, server>>

\* handle_leave_room: leave_room, which tells the client and the others, ...
LeaveLeave(c) ==
    /\ Doing(c, "leave.leave")
    /\ members' = [members EXCEPT ![handler[c].room] = @ \ {c}]
    /\ userRooms' = [userRooms EXCEPT ![c] = Global]
    /\ Away(c, handler[c].room)
    /\ Tell(c, Of("left", handler[c].room, {}), {c}, "leave.members")
    /\ UNCHANGED <<client, sockets, connections, messages, serviceLock>>

LeaveMembers(c) ==
    /\ Doing(c, "leave.members")
    /\ Tell(c, Notice, members[handler[c].room], "home.enter")
    /\ UNCHANGED <<client, sockets, server>>

\* ... and join_room of "global", without a history.
HomeEnter(c) ==
    /\ Doing(c, "home.enter")
    /\ members' = [members EXCEPT ![Global] = @ \cup {c}]
    /\ Turn(c, Rest)
    /\ UNCHANGED <<client, sockets, userRooms, connections, messages, serviceLock, owed>>

------------------------------------------------------------------------------
(* unregister_client, all of it under service.lock *)

HangUp(c) ==
    /\ Doing(c, "receive") /\ c \notin online /\ up[c] = <<>>
    /\ serviceLock = Nothing /\ serviceLock' = c
    /\ connections' = connections \ {c}
    /\ Turn(c, [Rest EXCEPT !.at = "bye.leave", !.room = userRooms[c]])
    /\ UNCHANGED <<client, sockets, userRooms, members, messages, owed>>

ByeLeave(c) ==
    /\ Doing(c, "bye.leave")
    /\ members' = [members EXCEPT ![handler[c].room] = @ \ {c}]
    /\ Proceed(c, "bye.members")
    /\ UNCHANGED <<client, sockets, userRooms, connections, messages, serviceLock, owed>>

ByeMembers(c) ==
    /\ Doing(c, "bye.members")
    /\ Tell(c, Notice, members[handler[c].room], "bye.online")
    /\ UNCHANGED <<client, sockets, server>>

\* send_online_users
ByeOnline(c) ==
    /\ Doing(c, "bye.online")
    /\ Tell(c, Notice, connections, "bye.unlock")
    /\ UNCHANGED <<client, sockets, server>>

ByeUnlock(c) ==
    /\ Doing(c, "bye.unlock")
    /\ serviceLock' = Nothing
    /\ Turn(c, [Rest EXCEPT !.at = "gone"])
    /\ UNCHANGED <<client, sockets, userRooms, members, connections, messages, owed>>

------------------------------------------------------------------------------
Serve(c) ==
    \/ Receive(c) \/ (\E u \in Client : Deliver(c, u))
    \/ MessageSave(c) \/ MessageMembers(c) \/ PrivateSave(c) \/ PrivateSend(c)
    \/ JoinEnter(c) \/ JoinLeave(c) \/ JoinMembers(c) \/ JoinFetch(c)
    \/ LeaveLeave(c) \/ LeaveMembers(c) \/ HomeEnter(c)
    \/ HangUp(c) \/ ByeLeave(c) \/ ByeMembers(c) \/ ByeOnline(c) \/ ByeUnlock(c)

Unoccupied(c) == handler[c].at \in {"receive", "gone"} /\ up[c] = <<>> /\ typed[c] = Nothing

\* Nothing of c's is left to do.
Served(c) == Unoccupied(c) /\ (c \notin online => Doing(c, "gone"))

AllServed ==
    /\ \A c \in Client : Served(c) /\ down[c] = <<>>
    /\ UNCHANGED chatVars

ChatNext ==
    \/ \E c \in Client : \/ \E p \in Requests(c) : Type(c, p)
                         \/ SendPacket(c) \/ Quit(c) \/ Display(c) \/ Serve(c)
    \/ AllServed

\* The threads of clients and server go on; nobody has to ask for anything.
ChatFairness ==
    \A c \in Client : WF_chatVars(SendPacket(c)) /\ WF_chatVars(Display(c)) /\ WF_chatVars(Serve(c))

ChatSpec == ChatInit /\ [][ChatNext]_chatVars /\ ChatFairness

------------------------------------------------------------------------------
Seen(c) == {live[c][i] : i \in DOMAIN live[c]} \cup past[c]

\* When all is handled, a client has seen all that was said in its room while it was
\* there, and all that was there when it joined: what is saved before it enters is in
\* the history, what is saved after reaches it as a member, and nothing falls between.
NothingMissed ==
    (\A c \in Client : handler[c].at \in {"receive", "gone"})
        => \A c \in online : down[c] = <<>> => owed[c] \subseteq Seen(c)

\* When all is answered, the room a client shows, and uses for images, files and voice,
\* is the room the server has it in: the answers overtake no later command.  The one
\* exception is a join that was refused, which the client believes.
RoomAgrees ==
    \A c \in online : Unoccupied(c) /\ down[c] = <<>> => here[c] \in {userRooms[c], Nowhere}

\* A sender is told that a private message was delivered only if it has been shown, is
\* on its way, or its addressee has quit; and that it was stored only if he has.
DeliveredIsSeen ==
    \A c \in Client, i \in Id, outcome \in {"delivered", "stored"} :
        <<i, outcome>> \in told[c] =>
            LET u == messages[i].to
            IN \/ u \notin online
               \/ outcome = "delivered" /\ (i \in Seen(u) \/ \E k \in DOMAIN down[u] : down[u][k].ids = {i})

\* Nobody sees a message twice as it is said, nor two of one speaker in the wrong order.
InOrderSaid ==
    \A c \in Client : \A i, j \in DOMAIN live[c] :
        i < j /\ messages[live[c][i]].by = messages[live[c][j]].by => live[c][i] < live[c][j]

\* Every request is served to its end, and who has quit is unregistered, though
\* handlers wait for other clients' sockets, some of them with service.lock held.
EveryoneServed == \A c \in Client : ~Served(c) ~> Served(c)
==============================================================================
