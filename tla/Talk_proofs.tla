------------------------------ MODULE Talk_proofs ------------------------------
(***************************************************************************)
(* Proofs about Friends, for any users; and about Chat, for any clients    *)
(* and rooms, sockets of any size, and any number of messages.             *)
(***************************************************************************)
EXTENDS Friends, Chat, FiniteSetTheorems, TLAPS

------------------------------------------------------------------------------
(* Friends: what must hold beside FriendsWereAsked for it to be inductive. *)

\* A handler in progress is about another user.
OthersAreOthers ==
    \A u \in User : ~At(u, "idle") => Other(u) \in User \ {u}

\* A request has a row by the time somebody answers it.
AnswersHaveRequests ==
    \A u \in User :
        thread[u].at \in {"accept.update", "accept.first", "accept.second", "reject.update"}
            => request[Other(u)][u] # None

NobodyAsksHimself == \A u \in User : request[u][u] = None

FriendsInv ==
    /\ TypeOK
    /\ OthersAreOthers
    /\ AnswersHaveRequests
    /\ NobodyAsksHimself
    /\ FriendsWereAsked

------------------------------------------------------------------------------
\* No step takes a row of friend_requests away; none is added from a user to
\* himself.
LEMMA RowsStay ==
    ASSUME FriendsInv, [Next]_vars
    PROVE  /\ request' \in [User -> [User -> Status \cup {None}]]
           /\ \A u, v \in User : request[u][v] # None => request'[u][v] # None
           /\ NobodyAsksHimself'
<1> DEFINE Stays ==
        /\ request' \in [User -> [User -> Status \cup {None}]]
        /\ \A u, v \in User : request[u][v] # None => request'[u][v] # None
        /\ NobodyAsksHimself'
<1>1. ASSUME NEW u \in User, NEW v \in User, u # v, NEW status \in Status,
             SetRequest(u, v, status)
      PROVE  Stays
    BY <1>1, FriendsAssumption
       DEF FriendsInv, TypeOK, SetRequest, NobodyAsksHimself
<1>2. ASSUME UNCHANGED request
      PROVE  Stays
    BY <1>2 DEF FriendsInv, TypeOK, NobodyAsksHimself
<1>3. ASSUME NEW u \in User, Step(u)
      PROVE  Stays
    <2>1. {"PENDING", "ACCEPTED", "REJECTED"} \subseteq Status
        BY DEF Status
    <2>2. CASE AddWrite(u)
        BY <1>1, <2>1, <2>2 DEF FriendsInv, OthersAreOthers, AddWrite, At, Other
    <2>3. CASE AcceptUpdate(u)
        BY <1>1, <1>2, <2>1, <2>3 DEF FriendsInv, OthersAreOthers, AcceptUpdate, At, Other
    <2>4. CASE RejectUpdate(u)
        BY <1>1, <1>2, <2>1, <2>4 DEF FriendsInv, OthersAreOthers, RejectUpdate, At, Other
    <2>5. QED
        BY <1>2, <1>3, <2>2, <2>3, <2>4
           DEF Step, AddExists, AddSelect, AcceptFirst, AcceptSecond, RemoveDelete
<1>4. QED
    BY <1>2, <1>3 DEF Next, AddFriend, Respond, RemoveFriend, Crash, vars

\* The locals of every handler keep their meaning.
LEMMA LocalsStay ==
    ASSUME FriendsInv, [Next]_vars
    PROVE  /\ thread' \in [User -> Thread]
           /\ OthersAreOthers'
           /\ AnswersHaveRequests'
<1> DEFINE Fits(w, local) ==
        /\ local \in Thread
        /\ local.at # "idle" => local.other \in User \ {w}
        /\ local.at \in {"accept.update", "accept.first", "accept.second", "reject.update"}
              => request[local.other][w] # None
<1> DEFINE Stays ==
        /\ thread' \in [User -> Thread]
        /\ OthersAreOthers'
        /\ AnswersHaveRequests'
<1>1. \A w \in User : Fits(w, thread[w])
    BY DEF FriendsInv, TypeOK, OthersAreOthers, AnswersHaveRequests, At, Other
<1>2. ASSUME thread' \in [User -> Thread], \A w \in User : Fits(w, thread'[w])
      PROVE  Stays
    <2>1. OthersAreOthers'
        BY <1>2 DEF OthersAreOthers, At, Other
    <2>2. ASSUME NEW w \in User,
                 thread'[w].at \in {"accept.update", "accept.first", "accept.second",
                                    "reject.update"}
          PROVE  request'[thread'[w].other][w] # None
        <3>1. thread'[w].other \in User /\ request[thread'[w].other][w] # None
            BY <1>2, <2>2
        <3>2. QED
            BY <3>1, RowsStay
    <2>3. QED
        BY <1>2, <2>1, <2>2 DEF AnswersHaveRequests, Other
<1>3. ASSUME NEW w \in User, NEW local, Fits(w, local), Become(w, local)
      PROVE  Stays
    <2>1. thread' \in [User -> Thread] /\ \A x \in User : Fits(x, thread'[x])
        BY <1>1, <1>3 DEF FriendsInv, TypeOK, Become
    <2>2. QED
        BY <1>2, <2>1
<1>4. ASSUME UNCHANGED thread
      PROVE  Stays
    <2>1. QED
        BY <1>1, <1>2, <1>4 DEF FriendsInv, TypeOK
<1>5. \A w \in User : Fits(w, Idle)
    BY DEF Idle, Thread, Label
<1>6. ASSUME NEW u \in User, NEW label \in Label,
             ~At(u, "idle"),
             label \in {"add.select", "add.insert", "add.update"} \/
                (At(u, "accept.update") /\ label = "accept.first") \/
                (At(u, "accept.first") /\ label = "accept.second"),
             Goto(u, label)
      PROVE  Stays
    <2> DEFINE local == [thread[u] EXCEPT !.at = label]
    <2>1. Fits(u, local)
        BY <1>1, <1>6 DEF Thread, At
    <2>2. Become(u, local)
        BY <1>6 DEF Goto, Become
    <2>3. QED
        BY <1>3, <2>1, <2>2
<1>7. ASSUME NEW u \in User, Step(u)
      PROVE  Stays
    <2>1. CASE AddExists(u)
        BY <1>3, <1>5, <1>6, <2>1 DEF AddExists, At, Label
    <2>2. CASE AddSelect(u)
        BY <1>3, <1>5, <1>6, <2>2 DEF AddSelect, At, Label
    <2>3. CASE AcceptUpdate(u)
        BY <1>6, <2>3 DEF AcceptUpdate, At, Label
    <2>4. CASE AcceptFirst(u)
        BY <1>6, <2>4 DEF AcceptFirst, At, Label
    <2>5. QED
        BY <1>3, <1>5, <1>7, <2>1, <2>2, <2>3, <2>4
           DEF Step, AddWrite, AcceptSecond, RejectUpdate, RemoveDelete
<1>8. ASSUME NEW u \in User, NEW v \in User, AddFriend(u, v)
      PROVE  Stays
    <2>1. Fits(u, [at |-> "add.exists", other |-> v])
        BY <1>8 DEF AddFriend, Thread, Label
    <2>2. QED
        BY <1>3, <1>8, <2>1 DEF AddFriend
<1>9. ASSUME NEW v \in User, NEW u \in User, Respond(v, u)
      PROVE  Stays
    <2>1. u # v /\ request[u][v] # None
        BY <1>9, FriendsAssumption
           DEF Respond, Pending, FriendsInv, NobodyAsksHimself, Status
    <2>2. /\ Fits(v, [at |-> "accept.update", other |-> u])
          /\ Fits(v, [at |-> "reject.update", other |-> u])
        BY <2>1 DEF Thread, Label
    <2>3. QED
        BY <1>3, <1>9, <2>2 DEF Respond
<1>10. ASSUME NEW u \in User, NEW v \in User, RemoveFriend(u, v)
       PROVE  Stays
    <2>1. Fits(u, [at |-> "remove.delete", other |-> v])
        BY <1>10 DEF RemoveFriend, FriendsInv, FriendsWereAsked, Thread, Label
    <2>2. QED
        BY <1>3, <1>10, <2>1 DEF RemoveFriend
<1>11. CASE Crash
    BY <1>2, <1>5, <1>11 DEF Crash, Idle, Thread, Label
<1>12. QED
    BY <1>4, <1>7, <1>8, <1>9, <1>10, <1>11 DEF Next, vars

\* Whatever the interleaving of requests, answers, removals and crashes, two are
\* friends only when one has asked the other, and nobody is his own friend.
THEOREM FriendsInvariant == Spec => []FriendsInv
<1>1. Init => FriendsInv
    BY FriendsAssumption
       DEF Init, FriendsInv, TypeOK, OthersAreOthers, AnswersHaveRequests,
           NobodyAsksHimself, FriendsWereAsked, AreFriends, At, Idle, Thread, Label
<1>2. FriendsInv /\ [Next]_vars => FriendsInv'
    <2> SUFFICES ASSUME FriendsInv, [Next]_vars
                 PROVE  FriendsInv'
        OBVIOUS
    <2> DEFINE Asked(u, v) == u # v /\ (request[u][v] # None \/ request[v][u] # None)
    <2>1. \A u, v \in User : Asked(u, v) => Asked(u, v)'
        BY RowsStay
    <2>2. /\ friends' \subseteq User \X User
          /\ \A u, v \in User : <<u, v>> \in friends' => <<u, v>> \in friends \/ Asked(u, v)
        <3>1. ASSUME NEW u \in User, AcceptFirst(u) \/ AcceptSecond(u)
              PROVE  /\ friends' \subseteq User \X User
                     /\ \A x, y \in User :
                           <<x, y>> \in friends' => <<x, y>> \in friends \/ Asked(x, y)
            <4>1. Other(u) \in User /\ Other(u) # u /\ request[Other(u)][u] # None
                BY <3>1 DEF AcceptFirst, AcceptSecond, FriendsInv, OthersAreOthers,
                            AnswersHaveRequests, At
            <4>2. Asked(Other(u), u) /\ Asked(u, Other(u))
                BY <4>1
            <4>3. friends' = friends \cup {<<Other(u), u>>} \/
                  friends' = friends \cup {<<u, Other(u)>>}
                BY <3>1 DEF AcceptFirst, AcceptSecond
            <4>4. QED
                BY <4>1, <4>2, <4>3 DEF FriendsInv, TypeOK
        <3>2. ASSUME NEW u \in User, RemoveDelete(u)
              PROVE  friends' \subseteq friends
            BY <3>2 DEF RemoveDelete
        <3>3. QED
            BY <3>1, <3>2
               DEF Next, Step, AddExists, AddSelect, AddWrite, AcceptUpdate, RejectUpdate,
                   AddFriend, Respond, RemoveFriend, Crash, vars, FriendsInv, TypeOK
    <2>3. FriendsWereAsked'
        BY <2>1, <2>2 DEF FriendsInv, FriendsWereAsked, AreFriends
    <2>4. QED
        BY <2>2, <2>3, RowsStay, LocalsStay DEF FriendsInv, TypeOK
<1>3. QED
    BY <1>1, <1>2, PTL DEF Spec

\* FriendsWereAsked for any number of users.
THEOREM OnlyTheAsked == Spec => []FriendsWereAsked
<1>1. FriendsInv => FriendsWereAsked
    BY DEF FriendsInv
<1>2. QED
    BY <1>1, FriendsInvariant, PTL

\* A request has one of the statuses the queries of db.py look for, for any number of
\* users.
THEOREM FriendsTypes == Spec => []TypeOK
<1>1. FriendsInv => TypeOK
    BY DEF FriendsInv
<1>2. QED
    BY <1>1, FriendsInvariant, PTL

------------------------------------------------------------------------------
(* Chat: what the parts of the state satisfy by themselves.  Chat bounds the *)
(* numbers of messages (Id); here they are any.                              *)

WidePacket == [type : {"MESSAGE", "PRIVATE_MESSAGE", "ROOM_HISTORY", "joined", "left",
                       "delivered", "stored", "notice"},
               room : Room \cup {Nothing}, ids : SUBSET Nat]

WideHandler == [at : Stage, room : Room \cup {Nothing}, old : Room \cup {Nothing},
                target : Client \cup {Nothing}, id : Nat \cup {Nothing},
                packet : WidePacket \cup {Nothing}, todo : SUBSET Client, then : Stage]

Speech == {"MESSAGE", "PRIVATE_MESSAGE"}
Outcome == {"delivered", "stored"}
Naming == {"joined", "left"}

\* A packet about a message is about one that is in the table.
PacketFits(p, ms) ==
    /\ p \in WidePacket
    /\ p.type \in Speech \cup Outcome => \E i \in DOMAIN ms : p.ids = {i}
    /\ p.type = "joined" => p.room \in Room

RequestFits(p) ==
    /\ p \in Request
    /\ p.type = "PRIVATE_MESSAGE" => p.target \in Client
    /\ p.type = "JOIN_ROOM" => p.room \in Room \cup {Nowhere}

\* The stage a handler is at, or comes to when it has sent.
Coming(h) == IF h.at = "send" THEN h.then ELSE h.at

Bye == {"gone", "bye.leave", "bye.members", "bye.online", "bye.unlock"}
WithRoom == {"message.save", "message.members", "join.enter", "join.leave", "join.members",
             "join.fetch", "leave.leave", "leave.members", "bye.leave", "bye.members"}
AfterSending == {"receive", "join.leave", "join.fetch", "leave.members", "home.enter",
                 "bye.online", "bye.unlock"}

\* The locals of c's handler are there when it comes to use them; what it sends itself
\* about a room or a message of its own goes to c alone.
LocalsFitIn(c, h, ms, on) ==
    /\ h \in WideHandler
    /\ Coming(h) \in WithRoom => h.room \in Room
    /\ Coming(h) = "join.leave" => h.old \in Room
    /\ Coming(h) \in {"private.save", "private.send"} => h.target \in Client
    /\ Coming(h) \in Bye => c \notin on

SavedFits(c, h, ms) ==
    /\ h.at \in {"message.members", "private.send"} => h.id \in DOMAIN ms /\ ms[h.id].by = c
    /\ h.at = "message.members" => ms[h.id].room = h.room
    /\ h.at = "private.send" => ms[h.id].to = h.target

SendingFits(c, h, ms) ==
    h.at = "send" =>
        /\ PacketFits(h.packet, ms) /\ h.then \in AfterSending
        /\ h.packet.type \in Naming \cup Outcome \cup {"ROOM_HISTORY"} => h.todo = {c}
        /\ h.packet.type \in Speech => \A i \in h.packet.ids : ms[i].by = c

HandlerFits(c, h, ms, on) ==
    LocalsFitIn(c, h, ms, on) /\ SavedFits(c, h, ms) /\ SendingFits(c, h, ms)

ChatTypes ==
    /\ here \in [Client -> Room \cup {Nowhere}]
    /\ typed \in [Client -> Request \cup {Nothing}]
    /\ up \in [Client -> Seq(Request)] /\ down \in [Client -> Seq(WidePacket)]
    /\ online \subseteq connections /\ connections \subseteq Client
    /\ live \in [Client -> Seq(Nat)]
    /\ past \in [Client -> SUBSET Nat] /\ owed \in [Client -> SUBSET Nat]
    /\ told \in [Client -> SUBSET (Nat \X Outcome)]
    /\ userRooms \in [Client -> Room] /\ members \in [Room -> SUBSET Client]
    /\ messages \in Seq(Message)
    /\ serviceLock \in Client \cup {Nothing}
    /\ handler \in [Client -> WideHandler]

HandlersFit == \A c \in Client : HandlerFits(c, handler[c], messages, online)

PacketsFit == \A c \in Client : \A k \in DOMAIN down[c] : PacketFits(down[c][k], messages)

RequestsFit == \A c \in Client :
    /\ \A k \in DOMAIN up[c] : RequestFits(up[c][k])
    /\ typed[c] # Nothing => RequestFits(typed[c])

LiveFits == \A c \in Client : \A k \in DOMAIN live[c] : live[c][k] \in DOMAIN messages

ChatFits == ChatTypes /\ HandlersFit /\ PacketsFit /\ RequestsFit /\ LiveFits

(* InOrderSaid. *)

\* The messages that the handler h has still to bring to u.
Waiting(h, u) ==
    CASE h.at \in {"message.members", "private.send"} -> {h.id}
      [] h.at = "send" /\ h.packet.type \in Speech /\ u \in h.todo -> h.packet.ids
      [] OTHER -> {}

\* What has been displayed is older than what is in the socket, ...
LiveIsOlder ==
    \A u \in Client : \A i \in DOMAIN live[u], k \in DOMAIN down[u] : \A x \in down[u][k].ids :
        down[u][k].type \in Speech /\ messages[live[u][i]].by = messages[x].by => live[u][i] < x

\* ... where it is in order, ...
DownIsInOrder ==
    \A u \in Client : \A j, k \in DOMAIN down[u] : \A x \in down[u][j].ids, y \in down[u][k].ids :
        /\ j < k /\ down[u][j].type \in Speech /\ down[u][k].type \in Speech
        /\ messages[x].by = messages[y].by
        => x < y

\* ... and what its speaker's handler has still to bring is newer than both.
WaitingIsNewer ==
    \A u, b \in Client : \A x \in Waiting(handler[b], u) :
        /\ \A i \in DOMAIN live[u] : messages[live[u][i]].by = b => live[u][i] < x
        /\ \A k \in DOMAIN down[u] : \A y \in down[u][k].ids :
              down[u][k].type \in Speech /\ messages[y].by = b => y < x

OrderInv == InOrderSaid /\ LiveIsOlder /\ DownIsInOrder /\ WaitingIsNewer

(* RoomAgrees. *)

Names(p) == p.type \in Naming
Shows(p) == IF p.type = "joined" THEN p.room ELSE Global

\* A join that the server has not carried out.
Joins(p) == p.type = "JOIN_ROOM" /\ p.room # Nowhere
Joining(c) ==
    \/ typed[c] # Nothing /\ Joins(typed[c])
    \/ \E k \in DOMAIN up[c] : Joins(up[c][k])
    \/ handler[c].at = "join.enter"

\* The last packet that names a room, among those to be sent and those in the socket, names
\* the room the server has the client in; if there is none, the client shows it already, or
\* a room it has not been let into yet.
Announcing(h) == h.at = "send" /\ Names(h.packet)

RoomIsTold(c) ==
    IF Announcing(handler[c])
    THEN Shows(handler[c].packet) = userRooms[c]
    ELSE \/ \E k \in DOMAIN down[c] :
              /\ Names(down[c][k]) /\ Shows(down[c][k]) = userRooms[c]
              /\ \A j \in DOMAIN down[c] : j > k => ~Names(down[c][j])
         \/ /\ \A k \in DOMAIN down[c] : ~Names(down[c][k])
            /\ here[c] \in {userRooms[c], Nowhere} \/ Joining(c)

RoomInv == \A c \in online : RoomIsTold(c)

(* DeliveredIsSeen. *)

\* What a sender may be told of message i.
MayTell(i, outcome) ==
    /\ i \in DOMAIN messages /\ messages[i].to \in Client
    /\ \/ messages[i].to \notin online
       \/ /\ outcome = "delivered"
          /\ \/ i \in Seen(messages[i].to)
             \/ \E k \in DOMAIN down[messages[i].to] :
                   /\ down[messages[i].to][k].type = "PRIVATE_MESSAGE"
                   /\ down[messages[i].to][k].ids = {i}

TellsTruth(p) == p.type \in Outcome => \A i \in p.ids : MayTell(i, p.type)

AnswersInv ==
    \A c \in Client :
        /\ \A t \in told[c] : MayTell(t[1], t[2])
        /\ \A k \in DOMAIN down[c] : TellsTruth(down[c][k])
        /\ handler[c].at = "send" => TellsTruth(handler[c].packet)

(* NothingMissed. *)

Bringing(p, i) == p.type \in {"MESSAGE", "ROOM_HISTORY"} /\ i \in p.ids

\* The handler h is to send its client the history of room.
HistoryComing(h, room) == Coming(h) \in {"join.leave", "join.members", "join.fetch"} /\ h.room = room

\* b's handler h is to bring c message i, which was said in room.
Brings(b, h, c, i, room) ==
    \/ h.at = "send" /\ Bringing(h.packet, i) /\ c \in h.todo
    \/ h.at = "message.members" /\ h.id = i
    \/ b = c /\ HistoryComing(h, room)

InSocket(c, i) == \E k \in DOMAIN down[c] : Bringing(down[c][k], i)

\* A message owed to c is one of a room c is a member of, and until c sees it, on its way.
IsOwed(c, i) ==
    /\ i \in DOMAIN messages /\ messages[i].room \in Room /\ c \in members[messages[i].room]
    /\ \/ i \in Seen(c) \/ InSocket(c, i)
       \/ \E b \in Client : Brings(b, handler[b], c, i, messages[i].room)

OwedInv == \A c \in online : \A i \in owed[c] : IsOwed(c, i)

ChatInv == ChatFits /\ OrderInv /\ RoomInv /\ AnswersInv /\ OwedInv

------------------------------------------------------------------------------
(* Chat: the parts fit after every step. *)

\* Rows are added to the table of messages, and none is changed.
MessagesGrow ==
    /\ messages' \in Seq(Message)
    /\ \A i \in DOMAIN messages : i \in DOMAIN messages' /\ messages'[i] = messages[i]

LEMMA PacketStaysFit ==
    ASSUME MessagesGrow, NEW p, PacketFits(p, messages)
    PROVE  PacketFits(p, messages')
  BY DEF PacketFits, MessagesGrow

LEMMA HandlerStaysFit ==
    ASSUME MessagesGrow, online' \subseteq online,
           NEW c \in Client, NEW h, HandlerFits(c, h, messages, online)
    PROVE  HandlerFits(c, h, messages', online')
<1>1. LocalsFitIn(c, h, messages, online')
  BY DEF HandlerFits, LocalsFitIn
<1>2. SavedFits(c, h, messages')
  BY DEF HandlerFits, SavedFits, MessagesGrow
<1>3. ASSUME h.at = "send"
      PROVE  /\ PacketFits(h.packet, messages')
             /\ h.packet.type \in Speech => \A i \in h.packet.ids : messages'[i].by = c
  <2>1. PacketFits(h.packet, messages)
    BY <1>3 DEF HandlerFits, SendingFits
  <2>2. h.packet.type \in Speech => \A i \in h.packet.ids : i \in DOMAIN messages /\ messages[i].by = c
    BY <1>3, <2>1 DEF HandlerFits, SendingFits, PacketFits
  <2>. QED BY <2>1, <2>2, PacketStaysFit DEF MessagesGrow
<1>4. SendingFits(c, h, messages')
  BY <1>3 DEF HandlerFits, SendingFits
<1>. QED BY <1>1, <1>2, <1>4 DEF HandlerFits, LocalsFitIn

LEMMA RestFits ==
    ASSUME NEW c \in Client, NEW ms, NEW on
    PROVE  HandlerFits(c, Rest, ms, on)
  BY DEF HandlerFits, LocalsFitIn, SavedFits, SendingFits, Rest, WideHandler, Stage, Coming, WithRoom, Bye

LEMMA OnwardFits ==
    ASSUME NEW c \in Client, NEW ms, NEW on, NEW h \in WideHandler, NEW then \in AfterSending,
           then \in WithRoom => h.room \in Room, then = "join.leave" => h.old \in Room,
           then \in Bye => c \notin on
    PROVE  HandlerFits(c, Onward(h, then), ms, on)
<1>1. CASE then = "receive"
  BY <1>1, RestFits DEF Onward
<1>2. CASE then # "receive"
  <2> DEFINE g == [h EXCEPT !.at = then, !.packet = Nothing, !.todo = {}]
  <2>0. then \in Stage
    BY DEF AfterSending, Stage
  <2>1. g \in WideHandler
    BY <2>0 DEF WideHandler
  <2>a. g.at = then /\ g.room = h.room /\ g.old = h.old
    BY DEF WideHandler
  <2>2. LocalsFitIn(c, g, ms, on)
    BY <1>2, <2>1, <2>a DEF LocalsFitIn, Coming, AfterSending
  <2>3. SavedFits(c, g, ms) /\ SendingFits(c, g, ms)
    BY <2>a DEF SavedFits, SendingFits, AfterSending
  <2>. QED BY <1>2, <2>2, <2>3 DEF HandlerFits, Onward
<1>. QED BY <1>1, <1>2

LEMMA SentFits ==
    ASSUME NEW c \in Client, NEW ms, NEW on, NEW h, HandlerFits(c, h, ms, on),
           h.at = "send", NEW u \in h.todo
    PROVE  HandlerFits(c, Sent(h, u), ms, on)
<1>1. /\ h \in WideHandler /\ h.then \in AfterSending /\ h.then # "send"
      /\ h.then \in WithRoom => h.room \in Room
      /\ h.then = "join.leave" => h.old \in Room
      /\ h.then \in Bye => c \notin on
  BY DEF HandlerFits, LocalsFitIn, SendingFits, Coming, AfterSending
<1>2. CASE h.todo = {u}
  BY <1>1, <1>2, OnwardFits DEF Sent
<1>3. CASE h.todo # {u}
  <2> DEFINE g == [h EXCEPT !.todo = @ \ {u}]
  <2>1. /\ g \in WideHandler /\ g.at = h.at /\ g.room = h.room /\ g.old = h.old /\ g.then = h.then
        /\ g.packet = h.packet
    BY <1>1 DEF WideHandler
  <2>2. LocalsFitIn(c, g, ms, on)
    BY <2>1 DEF HandlerFits, LocalsFitIn, Coming
  <2>3. SavedFits(c, g, ms)
    BY <2>1 DEF SavedFits
  <2>4. h.packet.type \notin Naming \cup Outcome \cup {"ROOM_HISTORY"}
    BY <1>3 DEF HandlerFits, SendingFits
  <2>5. SendingFits(c, g, ms)
    BY <2>1, <2>4 DEF HandlerFits, SendingFits
  <2>. QED BY <1>3, <2>2, <2>3, <2>5 DEF HandlerFits, Sent
<1>. QED BY <1>2, <1>3

LEMMA TurnFits ==
    ASSUME ChatFits, MessagesGrow, online' \subseteq online,
           NEW c \in Client, NEW h, HandlerFits(c, h, messages', online'), Turn(c, h)
    PROVE  handler' \in [Client -> WideHandler] /\ HandlersFit'
<1>1. handler \in [Client -> WideHandler] /\ h \in WideHandler
  BY DEF ChatFits, ChatTypes, HandlerFits, LocalsFitIn
<1>2. /\ handler' \in [Client -> WideHandler] /\ handler'[c] = h
      /\ \A d \in Client : d # c => handler'[d] = handler[d]
  BY <1>1 DEF Turn
<1>3. ASSUME NEW d \in Client PROVE HandlerFits(d, handler'[d], messages', online')
  <2>1. CASE d = c
    BY <1>2, <2>1
  <2>2. CASE d # c
    BY <1>2, <2>2, HandlerStaysFit DEF ChatFits, HandlersFit
  <2>. QED BY <2>1, <2>2
<1>. QED BY <1>2, <1>3 DEF HandlersFit

LEMMA SameHandlersFit ==
    ASSUME ChatFits, MessagesGrow, online' \subseteq online, UNCHANGED handler
    PROVE  handler' \in [Client -> WideHandler] /\ HandlersFit'
<1>1. ASSUME NEW d \in Client PROVE HandlerFits(d, handler'[d], messages', online')
  BY HandlerStaysFit DEF ChatFits, HandlersFit
<1>. QED BY <1>1 DEF HandlersFit, ChatFits, ChatTypes

LEMMA TellFits ==
    ASSUME ChatFits, messages' = messages, online' \subseteq online, NEW c \in Client,
           NEW packet, NEW recipients \in SUBSET Client, NEW then \in AfterSending,
           PacketFits(packet, messages),
           packet.type \in Naming \cup Outcome \cup {"ROOM_HISTORY"} => recipients = {c},
           packet.type \in Speech => \A i \in packet.ids : messages[i].by = c,
           then \in WithRoom => handler[c].room \in Room, then # "join.leave",
           then \in Bye => c \notin online,
           Tell(c, packet, recipients, then)
    PROVE  handler' \in [Client -> WideHandler] /\ HandlersFit'
<1>1. MessagesGrow
  BY DEF MessagesGrow, ChatFits, ChatTypes
<1>2. handler[c] \in WideHandler
  BY DEF ChatFits, ChatTypes
<1>3. CASE recipients = {}
  <2>1. HandlerFits(c, Onward(handler[c], then), messages', online')
    BY <1>2, OnwardFits
  <2>. QED BY <1>1, <1>3, <2>1, TurnFits DEF Tell
<1>4. CASE recipients # {}
  <2> DEFINE g == [handler[c] EXCEPT !.at = "send", !.packet = packet, !.todo = recipients, !.then = then]
  <2>0. then \in Stage /\ "send" \in Stage /\ packet \in WidePacket
    BY DEF AfterSending, Stage, PacketFits
  <2>1. g \in WideHandler
    BY <1>2, <2>0 DEF WideHandler
  <2>a. /\ g.at = "send" /\ g.room = handler[c].room
        /\ g.packet = packet /\ g.todo = recipients /\ g.then = then
    BY <1>2 DEF WideHandler
  <2>2. LocalsFitIn(c, g, messages', online')
    BY <2>1, <2>a DEF LocalsFitIn, Coming, AfterSending
  <2>3. SavedFits(c, g, messages') /\ SendingFits(c, g, messages')
    BY <2>a DEF SavedFits, SendingFits
  <2>. QED BY <1>1, <1>4, <2>2, <2>3, TurnFits DEF Tell, HandlerFits
<1>. QED BY <1>3, <1>4

LEMMA NoticeFits == PacketFits(Notice, messages) /\ Notice.type = "notice"
  BY DEF PacketFits, Notice, Of, WidePacket, Speech, Outcome

\* u's socket takes a packet, or loses one, or all; the others are as they were.
LEMMA SocketFits ==
    ASSUME ChatFits, MessagesGrow, NEW u \in Client, NEW s \in Seq(WidePacket),
           \A k \in DOMAIN s : PacketFits(s[k], messages'), down' = [down EXCEPT ![u] = s]
    PROVE  down' \in [Client -> Seq(WidePacket)] /\ PacketsFit'
<1>1. /\ down' \in [Client -> Seq(WidePacket)] /\ down'[u] = s
      /\ \A d \in Client : d # u => down'[d] = down[d]
  BY DEF ChatFits, ChatTypes
<1>2. ASSUME NEW d \in Client, NEW k \in DOMAIN down'[d] PROVE PacketFits(down'[d][k], messages')
  <2>1. CASE d = u
    BY <1>1, <1>2, <2>1
  <2>2. CASE d # u
    BY <1>1, <1>2, <2>2, PacketStaysFit DEF ChatFits, PacketsFit
  <2>. QED BY <2>1, <2>2
<1>. QED BY <1>1, <1>2 DEF PacketsFit

LEMMA TakenFits ==
    ASSUME ChatFits, MessagesGrow, NEW u \in Client, NEW p, PacketFits(p, messages'),
           down' = [down EXCEPT ![u] = Append(@, p)]
    PROVE  down' \in [Client -> Seq(WidePacket)] /\ PacketsFit'
<1>1. down[u] \in Seq(WidePacket) /\ p \in WidePacket
  BY DEF ChatFits, ChatTypes, PacketFits
<1>2. Append(down[u], p) \in Seq(WidePacket)
  BY <1>1
<1>3. ASSUME NEW k \in DOMAIN Append(down[u], p) PROVE PacketFits(Append(down[u], p)[k], messages')
  <2>1. \/ Append(down[u], p)[k] = p
        \/ k \in DOMAIN down[u] /\ Append(down[u], p)[k] = down[u][k]
    BY <1>1, <1>3
  <2>. QED BY <2>1, PacketStaysFit DEF ChatFits, PacketsFit
<1>4. down' = [down EXCEPT ![u] = Append(down[u], p)]
  OBVIOUS
<1>. QED BY <1>2, <1>3, <1>4, SocketFits

LEMMA SameSocketsFit ==
    ASSUME ChatFits, MessagesGrow, UNCHANGED down
    PROVE  down' \in [Client -> Seq(WidePacket)] /\ PacketsFit'
<1>1. ASSUME NEW d \in Client, NEW k \in DOMAIN down'[d] PROVE PacketFits(down'[d][k], messages')
  BY <1>1, PacketStaysFit DEF ChatFits, PacketsFit
<1>. QED BY <1>1 DEF PacketsFit, ChatFits, ChatTypes

LEMMA SameClientsFit ==
    ASSUME ChatFits, MessagesGrow, UNCHANGED live, UNCHANGED typed
    PROVE  LiveFits' /\ (UNCHANGED up => RequestsFit')
  BY DEF ChatFits, LiveFits, RequestsFit, MessagesGrow

LEMMA NoNewRows ==
    ASSUME ChatFits, UNCHANGED messages
    PROVE  MessagesGrow
  BY DEF MessagesGrow, ChatFits, ChatTypes

(* What the client does. *)

LEMMA RequestsAreFit ==
    ASSUME ChatAssumption, ChatFits, NEW c \in Client, NEW p \in Requests(c)
    PROVE  RequestFits(p) /\ p # Nothing /\ p.room \in Room \cup {Nowhere, Nothing}
<1>1. here[c] \in Room \cup {Nowhere}
  BY DEF ChatFits, ChatTypes
<1>2. RequestFits(p)
  BY <1>1 DEF Requests, RequestFits, Request
<1>3. p # Nothing
  BY <1>2, ChatAssumption DEF RequestFits
<1>. QED BY <1>2, <1>3 DEF RequestFits, Request

LEMMA TypeChatFits ==
    ASSUME ChatAssumption, ChatFits, NEW c \in Client, NEW p \in Requests(c), Type(c, p)
    PROVE  ChatFits'
<1>1. MessagesGrow /\ UNCHANGED handler /\ UNCHANGED down /\ UNCHANGED live /\ online' = online
  BY NoNewRows DEF Type, client, sockets, server
<1>2. RequestFits(p)
  BY RequestsAreFit
<1>3. RequestsFit'
  BY <1>2 DEF Type, sockets, RequestsFit, ChatFits, ChatTypes
<1>4. LiveFits'
  BY <1>1, NoNewRows DEF ChatFits, LiveFits, MessagesGrow
<1>5. here' \in [Client -> Room \cup {Nowhere}] /\ typed' \in [Client -> Request \cup {Nothing}]
  BY <1>2 DEF Type, RequestFits, ChatFits, ChatTypes
<1>6. ChatTypes'
  BY <1>1, <1>5 DEF Type, sockets, server, ChatFits, ChatTypes
<1>. QED BY <1>1, <1>3, <1>4, <1>6, SameHandlersFit, SameSocketsFit DEF ChatFits

LEMMA SendPacketChatFits ==
    ASSUME ChatFits, NEW c \in Client, SendPacket(c)
    PROVE  ChatFits'
<1>1. MessagesGrow /\ UNCHANGED handler /\ UNCHANGED down /\ UNCHANGED live /\ online' = online
  BY NoNewRows DEF SendPacket, server
<1>2. RequestFits(typed[c]) /\ typed[c] \in Request /\ up[c] \in Seq(Request)
  BY DEF SendPacket, ChatFits, ChatTypes, RequestsFit, RequestFits
<1>3. /\ up' \in [Client -> Seq(Request)] /\ typed' \in [Client -> Request \cup {Nothing}]
      /\ up'[c] = Append(up[c], typed[c]) /\ typed'[c] = Nothing
      /\ \A d \in Client : d # c => up'[d] = up[d] /\ typed'[d] = typed[d]
  BY <1>2 DEF SendPacket, ChatFits, ChatTypes
<1>4. ASSUME NEW d \in Client, NEW k \in DOMAIN up'[d] PROVE RequestFits(up'[d][k])
  <2>1. CASE d # c
    BY <1>3, <1>4, <2>1 DEF ChatFits, RequestsFit
  <2>2. CASE d = c
    <3>1. \/ up'[c][k] = typed[c]
          \/ k \in DOMAIN up[c] /\ up'[c][k] = up[c][k]
      BY <1>2, <1>3, <1>4, <2>2
    <3>. QED BY <1>2, <2>2, <3>1 DEF ChatFits, RequestsFit
  <2>. QED BY <2>1, <2>2
<1>5. RequestsFit'
  BY <1>3, <1>4 DEF ChatFits, RequestsFit
<1>6. LiveFits'
  BY <1>1 DEF ChatFits, LiveFits, MessagesGrow
<1>7. ChatTypes'
  BY <1>1, <1>3 DEF SendPacket, server, ChatFits, ChatTypes
<1>. QED BY <1>1, <1>5, <1>6, <1>7, SameHandlersFit, SameSocketsFit DEF ChatFits

LEMMA QuitChatFits ==
    ASSUME ChatFits, NEW c \in Client, Quit(c)
    PROVE  ChatFits'
<1>1. MessagesGrow /\ UNCHANGED handler /\ UNCHANGED live /\ UNCHANGED typed /\ online' \subseteq online
  BY NoNewRows DEF Quit, server
<1>2. PacketsFit' /\ down' \in [Client -> Seq(WidePacket)]
  <2>1. <<>> \in Seq(WidePacket) /\ \A k \in DOMAIN <<>> : PacketFits(<<>>[k], messages')
    OBVIOUS
  <2>. QED BY <1>1, <2>1, SocketFits DEF Quit
<1>3. up' \in [Client -> Seq(Request)] /\ \A d \in Client : up'[d] = up[d] \/ up'[d] = <<>>
  <2>1. up' = up \/ up' = [up EXCEPT ![c] = <<>>]
    BY DEF Quit
  <2>2. up \in [Client -> Seq(Request)]
    BY DEF ChatFits, ChatTypes
  <2>3. <<>> \in Seq(Request)
    OBVIOUS
  <2>. QED BY <2>1, <2>2, <2>3
<1>4. RequestsFit'
  BY <1>1, <1>3 DEF ChatFits, RequestsFit
<1>5. ChatTypes'
  BY <1>1, <1>2, <1>3 DEF Quit, server, ChatFits, ChatTypes
<1>. QED BY <1>1, <1>2, <1>4, <1>5, SameClientsFit, SameHandlersFit DEF ChatFits

\* What the head of c's socket is, and what is left without it.
LEMMA HeadOfSocket ==
    ASSUME ChatFits, NEW c \in Client, Display(c)
    PROVE  /\ down[c] \in Seq(WidePacket) /\ 1 \in DOMAIN down[c] /\ Head(down[c]) = down[c][1]
           /\ PacketFits(Head(down[c]), messages)
           /\ down' = [down EXCEPT ![c] = Tail(down[c])] /\ down'[c] = Tail(down[c])
           /\ down'[c] \in Seq(WidePacket)
           /\ \A d \in Client : d # c => down'[d] = down[d]
           /\ \A k \in DOMAIN down'[c] : k + 1 \in DOMAIN down[c] /\ down'[c][k] = down[c][k + 1]
           /\ \A k \in DOMAIN down[c] : k = 1 \/ (k - 1 \in DOMAIN down'[c] /\ down'[c][k - 1] = down[c][k])
<1>1. down[c] \in Seq(WidePacket) /\ down[c] # <<>>
  BY DEF Display, ChatFits, ChatTypes
<1>2. 1 \in DOMAIN down[c] /\ Head(down[c]) = down[c][1]
  BY <1>1
<1>3. PacketFits(Head(down[c]), messages)
  BY <1>2 DEF ChatFits, PacketsFit
<1>4. /\ down' = [down EXCEPT ![c] = Tail(down[c])] /\ down'[c] = Tail(down[c])
      /\ \A d \in Client : d # c => down'[d] = down[d]
  BY DEF Display, ChatFits, ChatTypes
<1>5. /\ Tail(down[c]) \in Seq(WidePacket)
      /\ \A k \in DOMAIN Tail(down[c]) : k + 1 \in DOMAIN down[c] /\ Tail(down[c])[k] = down[c][k + 1]
      /\ \A k \in DOMAIN down[c] :
            k = 1 \/ (k - 1 \in DOMAIN Tail(down[c]) /\ Tail(down[c])[k - 1] = down[c][k])
  BY <1>1
<1>. QED BY <1>1, <1>2, <1>3, <1>4, <1>5

\* What is displayed of speech is one more message, at the end.
LEMMA DisplayedSpeech ==
    ASSUME ChatFits, NEW c \in Client, Display(c)
    PROVE  /\ live' \in [Client -> Seq(Nat)] /\ \A d \in Client : d # c => live'[d] = live[d]
           /\ Head(down[c]).type \notin Speech => live' = live
           /\ Head(down[c]).type \in Speech =>
                 \E i \in DOMAIN messages : /\ i \in Nat /\ Head(down[c]).ids = {i}
                                            /\ live'[c] = Append(live[c], i)
<1>1. live \in [Client -> Seq(Nat)] /\ live[c] \in Seq(Nat) /\ messages \in Seq(Message)
  BY DEF ChatFits, ChatTypes
<1>2. CASE Head(down[c]).type \notin Speech
  BY <1>1, <1>2 DEF Display, Speech
<1>3. CASE Head(down[c]).type \in Speech
  <2>1. PICK i \in DOMAIN messages : Head(down[c]).ids = {i}
    BY <1>3, HeadOfSocket DEF PacketFits
  <2>2. i \in Nat
    BY <1>1
  <2>3. (CHOOSE j \in Head(down[c]).ids : TRUE) = i
    BY <2>1
  <2>4. live' = [live EXCEPT ![c] = Append(live[c], i)]
    BY <1>3, <2>3 DEF Display, Speech
  <2>5. Append(live[c], i) \in Seq(Nat)
    BY <1>1, <2>2
  <2>. QED BY <1>1, <1>3, <2>1, <2>2, <2>4, <2>5
<1>. QED BY <1>2, <1>3

LEMMA DisplayChatFits ==
    ASSUME ChatAssumption, ChatFits, NEW c \in Client, Display(c)
    PROVE  ChatFits'
<1>1. MessagesGrow /\ UNCHANGED handler /\ UNCHANGED typed /\ UNCHANGED up /\ online' = online
      /\ messages' = messages
  BY NoNewRows DEF Display, server
<1>2. Head(down[c]) \in WidePacket
  BY HeadOfSocket DEF PacketFits
<1>3. PacketsFit' /\ down' \in [Client -> Seq(WidePacket)]
  <2>1. down' = [down EXCEPT ![c] = Tail(down[c])] /\ Tail(down[c]) \in Seq(WidePacket)
    BY HeadOfSocket
  <2>2. \A k \in DOMAIN Tail(down[c]) : PacketFits(Tail(down[c])[k], messages')
    BY <1>1, HeadOfSocket DEF ChatFits, PacketsFit
  <2>. QED BY <1>1, <2>1, <2>2, SocketFits
<1>4. RequestsFit'
  BY <1>1 DEF ChatFits, RequestsFit
<1>5. LiveFits'
  <2>1. ASSUME NEW k \in DOMAIN live'[c] PROVE live'[c][k] \in DOMAIN messages
    <3>1. live[c] \in Seq(Nat)
      BY DEF ChatFits, ChatTypes
    <3>2. CASE live'[c] = live[c]
      BY <2>1, <3>2 DEF ChatFits, LiveFits
    <3>3. ASSUME NEW i \in DOMAIN messages, i \in Nat, live'[c] = Append(live[c], i)
          PROVE  live'[c][k] \in DOMAIN messages
      BY <2>1, <3>1, <3>3 DEF ChatFits, LiveFits
    <3>. QED BY <3>2, <3>3, DisplayedSpeech
  <2>2. ASSUME NEW d \in Client, NEW k \in DOMAIN live'[d] PROVE live'[d][k] \in DOMAIN messages
    BY <2>1, <2>2, DisplayedSpeech DEF ChatFits, LiveFits
  <2>. QED BY <1>1, <2>2 DEF LiveFits
<1>6. here' \in [Client -> Room \cup {Nowhere}]
  <2>1. here \in [Client -> Room \cup {Nowhere}]
    BY DEF ChatFits, ChatTypes
  <2>2. RoomShown(Head(down[c]), here[c]) \in Room \cup {Nowhere}
    BY <2>1, HeadOfSocket, ChatAssumption DEF RoomShown, PacketFits
  <2>. QED BY <2>1, <2>2 DEF Display
<1>7. Head(down[c]).ids \in SUBSET Nat
  BY <1>2 DEF WidePacket
<1>8. past' \in [Client -> SUBSET Nat] /\ told' \in [Client -> SUBSET (Nat \X Outcome)]
  <2>1. past \in [Client -> SUBSET Nat] /\ told \in [Client -> SUBSET (Nat \X Outcome)]
    BY DEF ChatFits, ChatTypes
  <2>2. past' \in [Client -> SUBSET Nat]
    BY <1>7, <2>1 DEF Display
  <2>3. CASE Head(down[c]).type \in Outcome
    <3>1. told' = [told EXCEPT ![c] = @ \cup (Head(down[c]).ids \X {Head(down[c]).type})]
      BY <2>3 DEF Display, Outcome
    <3>2. Head(down[c]).ids \X {Head(down[c]).type} \subseteq Nat \X Outcome
      BY <1>7, <2>3
    <3>. QED BY <2>1, <2>2, <3>1, <3>2
  <2>4. CASE Head(down[c]).type \notin Outcome
    BY <2>1, <2>2, <2>4 DEF Display, Outcome
  <2>. QED BY <2>3, <2>4
<1>9. ChatTypes'
  BY <1>1, <1>3, <1>6, <1>8, DisplayedSpeech DEF Display, server, ChatFits, ChatTypes
<1>. QED BY <1>1, <1>3, <1>4, <1>5, <1>9, SameHandlersFit DEF ChatFits

(* What the server does. *)

LEMMA DeliverChatFits ==
    ASSUME ChatFits, NEW c \in Client, NEW u \in Client, Deliver(c, u)
    PROVE  ChatFits'
<1>1. MessagesGrow /\ UNCHANGED live /\ UNCHANGED typed /\ UNCHANGED up /\ online' = online
      /\ messages' = messages
  BY NoNewRows DEF Deliver, client, server
<1>2. HandlerFits(c, handler[c], messages, online) /\ handler[c].at = "send" /\ u \in handler[c].todo
  BY DEF Deliver, Doing, ChatFits, HandlersFit
<1>3. HandlerFits(c, Sent(handler[c], u), messages', online')
  BY <1>1, <1>2, SentFits
<1>4. handler' \in [Client -> WideHandler] /\ HandlersFit'
  BY <1>1, <1>3, TurnFits DEF Deliver
<1>5. PacketFits(handler[c].packet, messages')
  BY <1>1, <1>2 DEF HandlerFits, SendingFits
<1>6. down' \in [Client -> Seq(WidePacket)] /\ PacketsFit'
  BY <1>1, <1>5, TakenFits, SameSocketsFit DEF Deliver
<1>7. ChatTypes'
  BY <1>1, <1>4, <1>6 DEF Deliver, client, server, ChatFits, ChatTypes
<1>. QED BY <1>1, <1>4, <1>6, <1>7, SameClientsFit DEF ChatFits

\* A step of c's handler alone.
LEMMA ServerAloneFits ==
    ASSUME ChatFits, MessagesGrow, UNCHANGED client, UNCHANGED sockets, UNCHANGED <<userRooms, members, owed>>,
           connections' = connections, serviceLock' = serviceLock,
           handler' \in [Client -> WideHandler], HandlersFit'
    PROVE  ChatFits'
<1>1. UNCHANGED live /\ UNCHANGED typed /\ UNCHANGED up /\ UNCHANGED down
  BY DEF client, sockets
<1>2. ChatTypes'
  BY DEF client, sockets, MessagesGrow, ChatFits, ChatTypes
<1>. QED BY <1>1, <1>2, SameClientsFit, SameSocketsFit DEF ChatFits

LEMMA BeginFits ==
    ASSUME NEW c \in Client, NEW ms, NEW on, NEW stage \in Stage, NEW room \in Room \cup {Nothing},
           NEW target \in Client \cup {Nothing},
           stage \notin {"send", "message.members", "private.send", "join.leave"} \cup Bye,
           stage \in WithRoom => room \in Room,
           stage = "private.save" => target \in Client
    PROVE  HandlerFits(c, [Rest EXCEPT !.at = stage, !.room = room, !.target = target], ms, on)
<1> DEFINE g == [Rest EXCEPT !.at = stage, !.room = room, !.target = target]
<1>1. g \in WideHandler
  BY DEF Rest, WideHandler, Stage
<1>2. g.at = stage /\ g.room = room /\ g.target = target
  BY DEF Rest
<1>3. LocalsFitIn(c, g, ms, on)
  BY <1>1, <1>2 DEF LocalsFitIn, Coming, Bye, WithRoom
<1>4. SavedFits(c, g, ms) /\ SendingFits(c, g, ms)
  BY <1>2 DEF SavedFits, SendingFits, Bye
<1>. QED BY <1>3, <1>4 DEF HandlerFits

\* The head of c's other direction.
LEMMA HeadOfRequests ==
    ASSUME ChatFits, NEW c \in Client, Receive(c)
    PROVE  /\ up[c] \in Seq(Request) /\ 1 \in DOMAIN up[c] /\ Head(up[c]) = up[c][1]
           /\ RequestFits(Head(up[c]))
           /\ up' \in [Client -> Seq(Request)] /\ up'[c] = Tail(up[c])
           /\ \A d \in Client : d # c => up'[d] = up[d]
           /\ \A k \in DOMAIN up'[c] : k + 1 \in DOMAIN up[c] /\ up'[c][k] = up[c][k + 1]
           /\ \A k \in DOMAIN up[c] : k = 1 \/ (k - 1 \in DOMAIN up'[c] /\ up'[c][k - 1] = up[c][k])
<1>1. up[c] \in Seq(Request) /\ up[c] # <<>> /\ up \in [Client -> Seq(Request)]
  BY DEF Receive, ChatFits, ChatTypes
<1>2. 1 \in DOMAIN up[c] /\ Head(up[c]) = up[c][1]
  BY <1>1
<1>3. RequestFits(Head(up[c]))
  BY <1>2 DEF ChatFits, RequestsFit
<1>4. /\ Tail(up[c]) \in Seq(Request)
      /\ \A k \in DOMAIN Tail(up[c]) : k + 1 \in DOMAIN up[c] /\ Tail(up[c])[k] = up[c][k + 1]
      /\ \A k \in DOMAIN up[c] : k = 1 \/ (k - 1 \in DOMAIN Tail(up[c]) /\ Tail(up[c])[k - 1] = up[c][k])
  BY <1>1
<1>5. up' = [up EXCEPT ![c] = Tail(up[c])]
  BY DEF Receive
<1>6. up' \in [Client -> Seq(Request)] /\ up'[c] = Tail(up[c]) /\ \A d \in Client : d # c => up'[d] = up[d]
  BY <1>1, <1>4, <1>5
<1>. QED BY <1>1, <1>2, <1>3, <1>4, <1>6

\* What a request makes of the handler.
LEMMA ReceivedHandler ==
    ASSUME ChatFits, ChatAssumption, NEW c \in Client, Receive(c)
    PROVE  \/ Tell(c, Notice, {c}, "receive") /\ ~Joins(Head(up[c]))
           \/ \E stage \in {"message.save", "private.save", "join.enter", "leave.leave"},
                 room \in Room \cup {Nothing}, target \in Client \cup {Nothing} :
                /\ Turn(c, [Rest EXCEPT !.at = stage, !.room = room, !.target = target])
                /\ stage # "private.save" => room \in Room
                /\ stage = "private.save" => target \in Client
                /\ Joins(Head(up[c])) => stage = "join.enter"
<1> DEFINE p == Head(up[c])
<1>1. RequestFits(p) /\ p \in Request /\ p.target \in Client \cup {Nothing} /\ userRooms[c] \in Room
  BY HeadOfRequests DEF RequestFits, Request, ChatFits, ChatTypes
<1> DEFINE Begin(stage, room) == Turn(c, [Rest EXCEPT !.at = stage, !.room = room, !.target = p.target])
<1>2. CASE p.type = "MESSAGE"
  <2>1. Begin("message.save", userRooms[c])
    BY <1>2 DEF Receive
  <2>. QED BY <1>1, <1>2, <2>1 DEF Joins
<1>3. CASE p.type = "PRIVATE_MESSAGE"
  <2>1. Begin("private.save", Nothing)
    BY <1>3 DEF Receive
  <2>. QED BY <1>1, <1>3, <2>1 DEF Joins, RequestFits
<1>4. CASE p.type = "JOIN_ROOM"
  <2>1. CASE p.room = Nowhere
    BY <1>4, <2>1 DEF Receive, Joins
  <2>2. CASE p.room # Nowhere
    <3>1. Begin("join.enter", p.room) /\ p.room \in Room
      BY <1>1, <1>4, <2>2 DEF Receive, RequestFits
    <3>. QED BY <1>1, <3>1
  <2>. QED BY <2>1, <2>2
<1>5. CASE p.type = "LEAVE_ROOM"
  <2>1. CASE userRooms[c] = Global
    BY <1>5, <2>1 DEF Receive, Joins
  <2>2. CASE userRooms[c] # Global
    <3>1. Begin("leave.leave", userRooms[c])
      BY <1>5, <2>2 DEF Receive
    <3>. QED BY <1>1, <1>5, <3>1 DEF Joins
  <2>. QED BY <2>1, <2>2
<1>. QED BY <1>1, <1>2, <1>3, <1>4, <1>5 DEF Request

LEMMA ReceiveChatFits ==
    ASSUME ChatFits, ChatAssumption, NEW c \in Client, Receive(c)
    PROVE  ChatFits'
<1>1. MessagesGrow /\ UNCHANGED client /\ UNCHANGED server /\ UNCHANGED down /\ messages' = messages
      /\ online' = online
  BY NoNewRows DEF Receive, client, server
<1>2. handler' \in [Client -> WideHandler] /\ HandlersFit'
  <2>1. CASE Tell(c, Notice, {c}, "receive")
    BY <1>1, <2>1, NoticeFits, TellFits DEF AfterSending, Naming, Outcome, Speech, WithRoom, Bye
  <2>2. ASSUME NEW stage \in {"message.save", "private.save", "join.enter", "leave.leave"},
               NEW room \in Room \cup {Nothing}, NEW target \in Client \cup {Nothing},
               Turn(c, [Rest EXCEPT !.at = stage, !.room = room, !.target = target]),
               stage # "private.save" => room \in Room,
               stage = "private.save" => target \in Client
        PROVE  handler' \in [Client -> WideHandler] /\ HandlersFit'
    <3>1. HandlerFits(c, [Rest EXCEPT !.at = stage, !.room = room, !.target = target], messages', online')
      BY <2>2, BeginFits DEF Stage, Bye, WithRoom
    <3>. QED BY <1>1, <2>2, <3>1, TurnFits
  <2>. QED BY <2>1, <2>2, ReceivedHandler
<1>3. RequestsFit'
  BY <1>1, HeadOfRequests DEF client, ChatFits, RequestsFit
<1>4. ChatTypes'
  BY <1>1, <1>2, HeadOfRequests DEF client, server, ChatFits, ChatTypes
<1>. QED BY <1>1, <1>2, <1>3, <1>4, SameClientsFit, SameSocketsFit DEF ChatFits, client

\* The row that save_message adds, and the handler that has its number.
LEMMA SaveFits ==
    ASSUME ChatFits, NEW c \in Client, NEW m \in Message, m.by = c,
           NEW stage \in {"message.members", "private.send"},
           stage = "message.members" => m.room = handler[c].room /\ handler[c].room \in Room,
           stage = "private.send" => m.to = handler[c].target /\ m.to \in Client,
           Save(c, m, stage)
    PROVE  /\ MessagesGrow /\ messages' = Append(messages, m)
           /\ Len(messages) \in Nat /\ DOMAIN messages = 1 .. Len(messages)
           /\ DOMAIN messages' = 1 .. Len(messages) + 1 /\ messages'[Len(messages) + 1] = m
           /\ handler'[c].at = stage /\ handler'[c].id = Len(messages) + 1
           /\ handler'[c].room = handler[c].room
           /\ \A d \in Client : d # c => handler'[d] = handler[d]
           /\ handler' \in [Client -> WideHandler] /\ HandlersFit'
<1> DEFINE g == [handler[c] EXCEPT !.at = stage, !.id = Len(messages) + 1]
<1>1. messages \in Seq(Message) /\ handler \in [Client -> WideHandler] /\ handler[c] \in WideHandler
  BY DEF ChatFits, ChatTypes
<1>2. messages' = Append(messages, m) /\ handler' = [handler EXCEPT ![c] = g] /\ online' = online
  BY DEF Save, Turn, client
<1>3. /\ Len(messages) \in Nat /\ DOMAIN messages = 1 .. Len(messages)
      /\ DOMAIN messages' = 1 .. Len(messages) + 1 /\ messages'[Len(messages) + 1] = m
      /\ messages' \in Seq(Message)
      /\ \A i \in DOMAIN messages : i \in DOMAIN messages' /\ messages'[i] = messages[i]
  BY <1>1, <1>2
<1>0. stage \in Stage /\ Len(messages) + 1 \in Nat
  BY <1>3 DEF Stage
<1>4. g \in WideHandler
  BY <1>0, <1>1 DEF WideHandler
<1>5. g.at = stage /\ g.id = Len(messages) + 1 /\ g.room = handler[c].room /\ g.target = handler[c].target
  BY <1>1 DEF WideHandler
<1>6. LocalsFitIn(c, g, messages', online')
  BY <1>4, <1>5 DEF LocalsFitIn, Coming, WithRoom, Bye
<1>7. SavedFits(c, g, messages')
  BY <1>3, <1>5 DEF SavedFits
<1>8. SendingFits(c, g, messages')
  BY <1>5 DEF SendingFits
<1>9. MessagesGrow
  BY <1>3 DEF MessagesGrow
<1>10. HandlerFits(c, g, messages', online')
  BY <1>6, <1>7, <1>8 DEF HandlerFits
<1>11. handler' \in [Client -> WideHandler] /\ HandlersFit'
  BY <1>2, <1>9, <1>10, TurnFits DEF Turn
<1>12. handler'[c] = g /\ \A d \in Client : d # c => handler'[d] = handler[d]
  BY <1>1, <1>2
<1>. QED BY <1>2, <1>3, <1>5, <1>9, <1>11, <1>12

LEMMA MessageSaved ==
    ASSUME ChatFits, NEW c \in Client, MessageSave(c)
    PROVE  /\ MessagesGrow
           /\ messages' = Append(messages, [by |-> c, room |-> handler[c].room, to |-> Nothing])
           /\ Len(messages) \in Nat /\ DOMAIN messages = 1 .. Len(messages)
           /\ DOMAIN messages' = 1 .. Len(messages) + 1
           /\ messages'[Len(messages) + 1] = [by |-> c, room |-> handler[c].room, to |-> Nothing]
           /\ handler[c].at = "message.save" /\ handler[c].room \in Room
           /\ handler'[c].at = "message.members" /\ handler'[c].id = Len(messages) + 1
           /\ handler'[c].room = handler[c].room
           /\ \A d \in Client : d # c => handler'[d] = handler[d]
           /\ handler' \in [Client -> WideHandler] /\ HandlersFit'
<1> DEFINE m == [by |-> c, room |-> handler[c].room, to |-> Nothing]
<1>1. handler[c].at = "message.save" /\ handler[c].room \in Room
  BY DEF MessageSave, Doing, ChatFits, HandlersFit, HandlerFits, LocalsFitIn, Coming, WithRoom
<1>2. m \in Message /\ m.by = c /\ m.room = handler[c].room
  BY <1>1 DEF Message
<1>3. Save(c, m, "message.members")
  BY DEF MessageSave
<1> HIDE DEF m
<1>4. /\ MessagesGrow /\ messages' = Append(messages, m)
      /\ Len(messages) \in Nat /\ DOMAIN messages = 1 .. Len(messages)
      /\ DOMAIN messages' = 1 .. Len(messages) + 1 /\ messages'[Len(messages) + 1] = m
      /\ handler'[c].at = "message.members" /\ handler'[c].id = Len(messages) + 1
      /\ handler'[c].room = handler[c].room
      /\ \A d \in Client : d # c => handler'[d] = handler[d]
      /\ handler' \in [Client -> WideHandler] /\ HandlersFit'
  BY <1>1, <1>2, <1>3, SaveFits
<1>. QED BY <1>1, <1>4 DEF m

LEMMA PrivateSaved ==
    ASSUME ChatFits, NEW c \in Client, PrivateSave(c)
    PROVE  /\ MessagesGrow
           /\ messages' = Append(messages, [by |-> c, room |-> Nothing, to |-> handler[c].target])
           /\ Len(messages) \in Nat /\ DOMAIN messages = 1 .. Len(messages)
           /\ DOMAIN messages' = 1 .. Len(messages) + 1
           /\ handler[c].at = "private.save"
           /\ handler'[c].at = "private.send" /\ handler'[c].id = Len(messages) + 1
           /\ \A d \in Client : d # c => handler'[d] = handler[d]
           /\ handler' \in [Client -> WideHandler] /\ HandlersFit'
<1> DEFINE m == [by |-> c, room |-> Nothing, to |-> handler[c].target]
<1>1. handler[c].at = "private.save" /\ handler[c].target \in Client
  BY DEF PrivateSave, Doing, ChatFits, HandlersFit, HandlerFits, LocalsFitIn, Coming
<1>2. m \in Message /\ m.by = c /\ m.to = handler[c].target
  BY <1>1 DEF Message
<1>3. Save(c, m, "private.send")
  BY DEF PrivateSave
<1> HIDE DEF m
<1>4. /\ MessagesGrow /\ messages' = Append(messages, m)
      /\ Len(messages) \in Nat /\ DOMAIN messages = 1 .. Len(messages)
      /\ DOMAIN messages' = 1 .. Len(messages) + 1
      /\ handler'[c].at = "private.send" /\ handler'[c].id = Len(messages) + 1
      /\ \A d \in Client : d # c => handler'[d] = handler[d]
      /\ handler' \in [Client -> WideHandler] /\ HandlersFit'
  BY <1>1, <1>2, <1>3, SaveFits
<1>. QED BY <1>1, <1>4 DEF m

LEMMA MessageSaveChatFits ==
    ASSUME ChatFits, NEW c \in Client, MessageSave(c)
    PROVE  ChatFits'
<1>1. MessagesGrow /\ handler' \in [Client -> WideHandler] /\ HandlersFit'
      /\ Len(messages) \in Nat
  BY MessageSaved
<1>2. /\ UNCHANGED client /\ UNCHANGED sockets
      /\ UNCHANGED <<userRooms, members, connections, serviceLock>>
  BY DEF MessageSave, Save
<1>3. owed' \in [Client -> SUBSET Nat]
  BY <1>1 DEF MessageSave, ChatFits, ChatTypes
<1>4. ChatTypes'
  BY <1>1, <1>2, <1>3 DEF client, sockets, MessagesGrow, ChatFits, ChatTypes
<1>. QED BY <1>1, <1>2, <1>4, SameClientsFit, SameSocketsFit DEF ChatFits, client, sockets

LEMMA PrivateSaveChatFits ==
    ASSUME ChatFits, NEW c \in Client, PrivateSave(c)
    PROVE  ChatFits'
  BY PrivateSaved, ServerAloneFits DEF PrivateSave, Save

LEMMA MessageMembersChatFits ==
    ASSUME ChatFits, NEW c \in Client, MessageMembers(c)
    PROVE  ChatFits'
<1> DEFINE p == Of("MESSAGE", handler[c].room, {handler[c].id})
<1>1. /\ HandlerFits(c, handler[c], messages, online) /\ handler[c].at = "message.members"
      /\ members \in [Room -> SUBSET Client] /\ messages \in Seq(Message)
  BY DEF MessageMembers, Doing, ChatFits, HandlersFit, ChatTypes
<1>2. /\ handler[c].room \in Room /\ handler[c].id \in DOMAIN messages /\ messages[handler[c].id].by = c
      /\ handler[c].id \in Nat
  BY <1>1 DEF HandlerFits, LocalsFitIn, SavedFits, Coming, WithRoom
<1>3. PacketFits(p, messages) /\ p.type = "MESSAGE" /\ p.ids = {handler[c].id}
  BY <1>2 DEF PacketFits, Of, WidePacket, Speech, Outcome
<1>4. /\ messages' = messages /\ online' = online
      /\ Tell(c, p, members[handler[c].room], "receive")
  BY DEF MessageMembers, client, server
<1> HIDE DEF p
<1>5. handler' \in [Client -> WideHandler] /\ HandlersFit'
  BY <1>1, <1>2, <1>3, <1>4, TellFits DEF AfterSending, Naming, Outcome, Speech, WithRoom, Bye
<1>. QED BY <1>4, <1>5, NoNewRows, ServerAloneFits DEF MessageMembers, server

\* What a sender is told of its message, and what it is told of.
LEMMA AnswerFits ==
    ASSUME ChatFits, NEW c \in Client, handler[c].at = "private.send", UNCHANGED <<messages, online>>,
           NEW outcome \in Outcome, Tell(c, Of(outcome, Nothing, {handler[c].id}), {c}, "receive")
    PROVE  /\ handler[c].id \in DOMAIN messages /\ messages[handler[c].id].by = c
           /\ messages[handler[c].id].to = handler[c].target /\ handler[c].target \in Client
           /\ PacketFits(Of("PRIVATE_MESSAGE", Nothing, {handler[c].id}), messages)
           /\ handler' \in [Client -> WideHandler] /\ HandlersFit'
<1> DEFINE p == Of(outcome, Nothing, {handler[c].id})
<1>1. HandlerFits(c, handler[c], messages, online) /\ messages \in Seq(Message)
  BY DEF ChatFits, HandlersFit, ChatTypes
<1>2. /\ handler[c].id \in DOMAIN messages /\ messages[handler[c].id].by = c
      /\ messages[handler[c].id].to = handler[c].target /\ handler[c].target \in Client
      /\ handler[c].id \in Nat
  BY <1>1 DEF HandlerFits, LocalsFitIn, SavedFits, Coming
<1>3. PacketFits(p, messages) /\ p.type = outcome /\ p.ids = {handler[c].id}
  BY <1>2 DEF PacketFits, Of, WidePacket, Speech, Outcome
<1>4. PacketFits(Of("PRIVATE_MESSAGE", Nothing, {handler[c].id}), messages)
  BY <1>2 DEF PacketFits, Of, WidePacket, Speech, Outcome
<1> HIDE DEF p
<1>5. handler' \in [Client -> WideHandler] /\ HandlersFit'
  <2>1. Tell(c, p, {c}, "receive")
    BY DEF p
  <2>. QED BY <1>3, <2>1, TellFits DEF AfterSending, Naming, Outcome, Speech, WithRoom, Bye
<1>. QED BY <1>2, <1>4, <1>5

\* The cases of PrivateSend.
LEMMA PrivatelySent ==
    ASSUME NEW c \in Client, PrivateSend(c)
    PROVE  LET u == handler[c].target
               ids == {handler[c].id}
           IN \/ /\ Reached(u) /\ Len(down[u]) < Buffer
                 /\ down' = [down EXCEPT ![u] = Append(@, Of("PRIVATE_MESSAGE", Nothing, ids))]
                 /\ Tell(c, Of("delivered", Nothing, ids), {c}, "receive")
              \/ /\ u \in connections \ online /\ UNCHANGED down
                 /\ Tell(c, Of("delivered", Nothing, ids), {c}, "receive")
              \/ /\ ~Reached(u) /\ UNCHANGED down
                 /\ Tell(c, Of("stored", Nothing, ids), {c}, "receive")
  BY DEF PrivateSend

LEMMA PrivateSendChatFits ==
    ASSUME ChatFits, NEW c \in Client, PrivateSend(c)
    PROVE  ChatFits'
<1>1. /\ UNCHANGED <<messages, online>> /\ UNCHANGED <<live, typed, up>>
      /\ handler[c].at = "private.send" /\ MessagesGrow
  BY NoNewRows DEF PrivateSend, Doing, client, server
<1>2. PICK outcome \in Outcome : Tell(c, Of(outcome, Nothing, {handler[c].id}), {c}, "receive")
  BY PrivatelySent DEF Outcome
<1>3. /\ handler[c].target \in Client
      /\ PacketFits(Of("PRIVATE_MESSAGE", Nothing, {handler[c].id}), messages')
      /\ handler' \in [Client -> WideHandler] /\ HandlersFit'
  BY <1>1, <1>2, AnswerFits
<1>4. \/ UNCHANGED down
      \/ down' = [down EXCEPT ![handler[c].target] =
                      Append(@, Of("PRIVATE_MESSAGE", Nothing, {handler[c].id}))]
  BY PrivatelySent
<1>5. down' \in [Client -> Seq(WidePacket)] /\ PacketsFit'
  BY <1>1, <1>3, <1>4, TakenFits, SameSocketsFit
<1>6. ChatTypes'
  BY <1>1, <1>3, <1>5 DEF PrivateSend, client, server, ChatFits, ChatTypes
<1>. QED BY <1>1, <1>3, <1>5, <1>6, SameClientsFit DEF ChatFits

\* A step of c's handler and of the room table.
LEMMA ServerMoveFits ==
    ASSUME ChatFits, UNCHANGED client, UNCHANGED sockets, UNCHANGED messages,
           userRooms' \in [Client -> Room], members' \in [Room -> SUBSET Client],
           owed' \in [Client -> SUBSET Nat], online' \subseteq connections', connections' \subseteq Client,
           serviceLock' \in Client \cup {Nothing},
           handler' \in [Client -> WideHandler], HandlersFit'
    PROVE  ChatFits'
<1>1. UNCHANGED live /\ UNCHANGED typed /\ UNCHANGED up /\ UNCHANGED down
  BY DEF client, sockets
<1>2. ChatTypes'
  BY DEF client, sockets, ChatFits, ChatTypes
<1>. QED BY <1>1, <1>2, NoNewRows, SameClientsFit, SameSocketsFit DEF ChatFits

\* The room of a handler that uses it, and that the others of a room are clients.
LEMMA RoomOfHandler ==
    ASSUME ChatFits, NEW c \in Client, Coming(handler[c]) \in WithRoom
    PROVE  handler[c].room \in Room /\ members[handler[c].room] \in SUBSET Client
  BY DEF ChatFits, ChatTypes, HandlersFit, HandlerFits, LocalsFitIn

LEMMA SaidIsFit ==
    ASSUME ChatFits, NEW room
    PROVE  Said(room) \subseteq DOMAIN messages /\ Said(room) \in SUBSET Nat
  BY DEF Said, ChatFits, ChatTypes

LEMMA AwayFits ==
    ASSUME ChatFits, NEW c \in Client, NEW room, Away(c, room)
    PROVE  owed' \in [Client -> SUBSET Nat]
  BY DEF Away, ChatFits, ChatTypes

\* The handler of a client that has been put in a room, and is to be told.
LEMMA EnteredHandler ==
    ASSUME ChatFits, NEW c \in Client, JoinEnter(c)
    PROVE  /\ handler[c].at = "join.enter" /\ handler[c].room \in Room /\ userRooms[c] \in Room
           /\ handler'[c].at = "send" /\ handler'[c].then = "join.leave"
           /\ handler'[c].packet = Of("joined", handler[c].room, {}) /\ handler'[c].todo = {c}
           /\ handler'[c].room = handler[c].room /\ handler'[c].old = userRooms[c]
           /\ \A d \in Client : d # c => handler'[d] = handler[d]
           /\ handler' \in [Client -> WideHandler] /\ HandlersFit'
<1> DEFINE p == Of("joined", handler[c].room, {})
<1>1. /\ handler[c].at = "join.enter" /\ userRooms[c] \in Room /\ handler[c] \in WideHandler
      /\ handler \in [Client -> WideHandler] /\ online' = online /\ messages' = messages
  BY DEF JoinEnter, Doing, ChatFits, ChatTypes, client
<1>2. handler[c].room \in Room
  BY <1>1, RoomOfHandler DEF Coming, WithRoom
<1>3. PacketFits(p, messages) /\ p.type = "joined" /\ p \in WidePacket
  BY <1>2 DEF PacketFits, Of, WidePacket, Speech, Outcome
<1> HIDE DEF p
<1> DEFINE g == [handler[c] EXCEPT !.at = "send", !.old = userRooms[c], !.then = "join.leave",
                                   !.packet = p, !.todo = {c}]
<1>4. handler' = [handler EXCEPT ![c] = g]
  BY DEF JoinEnter, Turn, p
<1>5. /\ g.at = "send" /\ g.then = "join.leave" /\ g.packet = p /\ g.todo = {c}
      /\ g.room = handler[c].room /\ g.old = userRooms[c]
  BY <1>1 DEF WideHandler
<1>6. g \in WideHandler
  BY <1>1, <1>3 DEF WideHandler, Stage
<1>7. LocalsFitIn(c, g, messages, online)
  BY <1>1, <1>2, <1>5, <1>6 DEF LocalsFitIn, Coming, WithRoom, Bye
<1>8. SavedFits(c, g, messages) /\ SendingFits(c, g, messages)
  BY <1>3, <1>5 DEF SavedFits, SendingFits, AfterSending, Speech
<1>9. handler' \in [Client -> WideHandler] /\ HandlersFit'
  BY <1>1, <1>4, <1>7, <1>8, NoNewRows, TurnFits DEF HandlerFits, Turn
<1>10. handler'[c] = g /\ \A d \in Client : d # c => handler'[d] = handler[d]
  BY <1>1, <1>4
<1>. QED BY <1>1, <1>2, <1>5, <1>9, <1>10 DEF p

LEMMA JoinEnterChatFits ==
    ASSUME ChatFits, NEW c \in Client, JoinEnter(c)
    PROVE  ChatFits'
<1>1. handler[c].room \in Room /\ handler' \in [Client -> WideHandler] /\ HandlersFit'
  BY EnteredHandler
<1>2. userRooms' \in [Client -> Room] /\ members' \in [Room -> SUBSET Client]
  BY <1>1 DEF JoinEnter, ChatFits, ChatTypes
<1>3. owed' \in [Client -> SUBSET Nat]
  BY SaidIsFit DEF JoinEnter, ChatFits, ChatTypes
<1>. QED BY <1>1, <1>2, <1>3, ServerMoveFits DEF JoinEnter, client, ChatFits, ChatTypes

\* A handler that goes on to another stage, with the same locals.
LEMMA ProceedFits ==
    ASSUME ChatFits, UNCHANGED <<messages, online>>, NEW c \in Client, NEW stage \in {"join.members", "bye.members"},
           handler[c].room \in Room, stage = "bye.members" => c \notin online, Proceed(c, stage)
    PROVE  /\ handler'[c].at = stage /\ handler'[c].room = handler[c].room
           /\ \A d \in Client : d # c => handler'[d] = handler[d]
           /\ handler' \in [Client -> WideHandler] /\ HandlersFit'
<1> DEFINE g == [handler[c] EXCEPT !.at = stage]
<1>1. handler \in [Client -> WideHandler] /\ handler[c] \in WideHandler
  BY DEF ChatFits, ChatTypes
<1>2. g \in WideHandler /\ g.at = stage /\ g.room = handler[c].room
  BY <1>1 DEF WideHandler, Stage
<1>3. handler' = [handler EXCEPT ![c] = g]
  BY DEF Proceed
<1>4. LocalsFitIn(c, g, messages, online)
  BY <1>2 DEF LocalsFitIn, Coming, WithRoom, Bye
<1>5. SavedFits(c, g, messages) /\ SendingFits(c, g, messages)
  BY <1>2 DEF SavedFits, SendingFits
<1>6. handler' \in [Client -> WideHandler] /\ HandlersFit'
  BY <1>3, <1>4, <1>5, NoNewRows, TurnFits DEF HandlerFits, Turn
<1>. QED BY <1>1, <1>2, <1>3, <1>6

LEMMA JoinLeaveChatFits ==
    ASSUME ChatFits, NEW c \in Client, JoinLeave(c)
    PROVE  ChatFits'
<1>1. handler[c].at = "join.leave" /\ UNCHANGED <<messages, online>> /\ Proceed(c, "join.members")
  BY DEF JoinLeave, Doing, client
<1>2. handler[c].room \in Room
  BY <1>1, RoomOfHandler DEF Coming, WithRoom
<1>3. handler' \in [Client -> WideHandler] /\ HandlersFit'
  BY <1>1, <1>2, ProceedFits
<1>4. owed' \in [Client -> SUBSET Nat] /\ members' \in [Room -> SUBSET Client]
  <2>1. CASE handler[c].old # handler[c].room
    <3>1. /\ members' = [members EXCEPT ![handler[c].old] = @ \ {c}]
          /\ Away(c, handler[c].old)
      BY <2>1 DEF JoinLeave
    <3>2. owed' \in [Client -> SUBSET Nat]
      BY <3>1, AwayFits
    <3>. QED BY <3>1, <3>2 DEF ChatFits, ChatTypes
  <2>2. CASE handler[c].old = handler[c].room
    BY <2>2 DEF JoinLeave, ChatFits, ChatTypes
  <2>. QED BY <2>1, <2>2
<1>. QED BY <1>1, <1>3, <1>4, ServerMoveFits DEF JoinLeave, client, ChatFits, ChatTypes

\* A notice to the members of a room, or to everybody.
LEMMA NoticeToAllFits ==
    ASSUME ChatFits, NEW c \in Client, NEW recipients \in SUBSET Client,
           NEW then \in {"join.fetch", "home.enter", "bye.online", "bye.unlock"},
           then = "join.fetch" => handler[c].room \in Room,
           then \in {"bye.online", "bye.unlock"} => c \notin online,
           Tell(c, Notice, recipients, then), UNCHANGED <<client, sockets, server>>
    PROVE  ChatFits'
<1>1. messages' = messages /\ online' = online
  BY DEF client, server
<1>2. handler' \in [Client -> WideHandler] /\ HandlersFit'
  BY <1>1, NoticeFits, TellFits DEF AfterSending, Naming, Outcome, Speech, WithRoom, Bye
<1>. QED BY <1>1, <1>2, NoNewRows, ServerAloneFits DEF server

LEMMA ByeIsOffline ==
    ASSUME ChatFits, NEW c \in Client, Coming(handler[c]) \in Bye
    PROVE  c \notin online
  BY DEF ChatFits, HandlersFit, HandlerFits, LocalsFitIn

LEMMA NoticesChatFits ==
    ASSUME ChatFits, NEW c \in Client, JoinMembers(c) \/ LeaveMembers(c) \/ ByeMembers(c) \/ ByeOnline(c)
    PROVE  ChatFits'
<1>1. CASE JoinMembers(c)
  <2>1. handler[c].room \in Room /\ members[handler[c].room] \in SUBSET Client
    BY <1>1, RoomOfHandler DEF JoinMembers, Doing, Coming, WithRoom
  <2>. QED BY <1>1, <2>1, NoticeToAllFits DEF JoinMembers
<1>2. CASE LeaveMembers(c)
  <2>1. handler[c].room \in Room /\ members[handler[c].room] \in SUBSET Client
    BY <1>2, RoomOfHandler DEF LeaveMembers, Doing, Coming, WithRoom
  <2>. QED BY <1>2, <2>1, NoticeToAllFits DEF LeaveMembers
<1>3. CASE ByeMembers(c)
  <2>1. handler[c].room \in Room /\ members[handler[c].room] \in SUBSET Client
    BY <1>3, RoomOfHandler DEF ByeMembers, Doing, Coming, WithRoom
  <2>2. c \notin online
    BY <1>3, ByeIsOffline DEF ByeMembers, Doing, Coming, Bye
  <2>. QED BY <1>3, <2>1, <2>2, NoticeToAllFits DEF ByeMembers
<1>4. CASE ByeOnline(c)
  <2>1. c \notin online
    BY <1>4, ByeIsOffline DEF ByeOnline, Doing, Coming, Bye
  <2>2. connections \in SUBSET Client
    BY DEF ChatFits, ChatTypes
  <2>. QED BY <1>4, <2>1, <2>2, NoticeToAllFits DEF ByeOnline
<1>. QED BY <1>1, <1>2, <1>3, <1>4

LEMMA JoinFetchChatFits ==
    ASSUME ChatFits, NEW c \in Client, JoinFetch(c)
    PROVE  ChatFits'
<1> DEFINE p == Of("ROOM_HISTORY", handler[c].room, History(handler[c].room))
<1>1. handler[c].room \in Room
  BY RoomOfHandler DEF JoinFetch, Doing, Coming, WithRoom
<1>2. PacketFits(p, messages) /\ p.type = "ROOM_HISTORY"
  BY <1>1, SaidIsFit DEF History, PacketFits, Of, WidePacket, Speech, Outcome
<1>3. Tell(c, p, {c}, "receive") /\ messages' = messages /\ online' = online
  BY DEF JoinFetch, client, server
<1> HIDE DEF p
<1>4. handler' \in [Client -> WideHandler] /\ HandlersFit'
  BY <1>2, <1>3, TellFits DEF AfterSending, Naming, Outcome, Speech, WithRoom, Bye
<1>. QED BY <1>3, <1>4, NoNewRows, ServerAloneFits DEF JoinFetch, server

LEMMA LeaveLeaveChatFits ==
    ASSUME ChatAssumption, ChatFits, NEW c \in Client, LeaveLeave(c)
    PROVE  ChatFits'
<1> DEFINE p == Of("left", handler[c].room, {})
<1>1. handler[c].room \in Room
  BY RoomOfHandler DEF LeaveLeave, Doing, Coming, WithRoom
<1>2. PacketFits(p, messages) /\ p.type = "left"
  BY <1>1 DEF PacketFits, Of, WidePacket, Speech, Outcome
<1>3. Tell(c, p, {c}, "leave.members") /\ messages' = messages /\ online' = online
  BY DEF LeaveLeave, client
<1> HIDE DEF p
<1>4. handler' \in [Client -> WideHandler] /\ HandlersFit'
  BY <1>1, <1>2, <1>3, TellFits DEF AfterSending, Naming, Outcome, Speech, WithRoom, Bye
<1>5. owed' \in [Client -> SUBSET Nat]
  BY AwayFits DEF LeaveLeave
<1>6. userRooms' \in [Client -> Room] /\ members' \in [Room -> SUBSET Client]
  BY <1>1, ChatAssumption DEF LeaveLeave, ChatFits, ChatTypes
<1>. QED BY <1>3, <1>4, <1>5, <1>6, ServerMoveFits DEF LeaveLeave, ChatFits, ChatTypes

LEMMA HomeEnterChatFits ==
    ASSUME ChatAssumption, ChatFits, NEW c \in Client, HomeEnter(c)
    PROVE  ChatFits'
<1>1. messages' = messages /\ online' = online /\ Turn(c, Rest)
  BY DEF HomeEnter, client
<1>2. handler' \in [Client -> WideHandler] /\ HandlersFit'
  BY <1>1, NoNewRows, RestFits, TurnFits
<1>3. members' \in [Room -> SUBSET Client]
  BY ChatAssumption DEF HomeEnter, ChatFits, ChatTypes
<1>. QED BY <1>1, <1>2, <1>3, ServerMoveFits DEF HomeEnter, ChatFits, ChatTypes

LEMMA HangUpChatFits ==
    ASSUME ChatFits, NEW c \in Client, HangUp(c)
    PROVE  ChatFits'
<1>1. messages' = messages /\ online' = online /\ c \notin online /\ userRooms[c] \in Room
  BY DEF HangUp, client, ChatFits, ChatTypes
<1> DEFINE g == [Rest EXCEPT !.at = "bye.leave", !.room = userRooms[c]]
<1>2. Turn(c, g)
  BY DEF HangUp
<1>a. g \in WideHandler /\ g.at = "bye.leave" /\ g.room = userRooms[c]
  BY <1>1 DEF Rest, WideHandler, Stage
<1>3. HandlerFits(c, g, messages, online)
  BY <1>1, <1>a DEF HandlerFits, LocalsFitIn, SavedFits, SendingFits, Coming, WithRoom, Bye
<1> HIDE DEF g
<1>4. handler' \in [Client -> WideHandler] /\ HandlersFit'
  BY <1>1, <1>2, <1>3, NoNewRows, TurnFits
<1>. QED BY <1>1, <1>4, ServerMoveFits DEF HangUp, ChatFits, ChatTypes

LEMMA ByeLeaveChatFits ==
    ASSUME ChatFits, NEW c \in Client, ByeLeave(c)
    PROVE  ChatFits'
<1>1. UNCHANGED <<messages, online>> /\ c \notin online /\ handler[c].room \in Room
  BY ByeIsOffline, RoomOfHandler DEF ByeLeave, Doing, Coming, Bye, WithRoom, client
<1>2. handler' \in [Client -> WideHandler] /\ HandlersFit'
  BY <1>1, ProceedFits DEF ByeLeave
<1>3. members' \in [Room -> SUBSET Client]
  BY <1>1 DEF ByeLeave, ChatFits, ChatTypes
<1>. QED BY <1>1, <1>2, <1>3, ServerMoveFits DEF ByeLeave, ChatFits, ChatTypes

LEMMA ByeUnlockChatFits ==
    ASSUME ChatFits, NEW c \in Client, ByeUnlock(c)
    PROVE  ChatFits'
<1>1. UNCHANGED <<messages, online>> /\ c \notin online
  BY ByeIsOffline DEF ByeUnlock, Doing, Coming, Bye, client
<1>2. HandlerFits(c, [Rest EXCEPT !.at = "gone"], messages, online)
  BY <1>1 DEF HandlerFits, LocalsFitIn, SavedFits, SendingFits, Rest, WideHandler, Stage, Coming, WithRoom, Bye
<1>3. handler' \in [Client -> WideHandler] /\ HandlersFit'
  BY <1>1, <1>2, NoNewRows, TurnFits DEF ByeUnlock
<1>. QED BY <1>1, <1>3, ServerMoveFits DEF ByeUnlock, ChatFits, ChatTypes

LEMMA ChatInitFits == ChatAssumption /\ ChatInit => ChatFits
<1> SUFFICES ASSUME ChatAssumption, ChatInit PROVE ChatFits
  OBVIOUS
<1>1. HandlersFit
  BY RestFits DEF ChatInit, HandlersFit
<1>2. handler \in [Client -> WideHandler]
  BY <1>1 DEF ChatInit, HandlersFit, HandlerFits, LocalsFitIn
<1>3. ChatTypes
  BY <1>2 DEF ChatInit, ChatTypes
<1>. QED BY <1>1, <1>3 DEF ChatInit, ChatFits, PacketsFit, RequestsFit, LiveFits

LEMMA ChatStutterFits ==
    ASSUME ChatFits, UNCHANGED chatVars
    PROVE  ChatFits'
<1>1. UNCHANGED client /\ UNCHANGED sockets /\ UNCHANGED server /\ UNCHANGED handler
  BY DEF chatVars
<1>2. MessagesGrow /\ online' = online
  BY <1>1, NoNewRows DEF server, client
<1>. QED BY <1>1, <1>2, SameHandlersFit, ServerAloneFits DEF server

LEMMA ChatFitsStep == ChatAssumption /\ ChatFits /\ [ChatNext]_chatVars => ChatFits'
  BY TypeChatFits, SendPacketChatFits, QuitChatFits, DisplayChatFits, ReceiveChatFits, DeliverChatFits,
     MessageSaveChatFits, MessageMembersChatFits, PrivateSaveChatFits, PrivateSendChatFits,
     JoinEnterChatFits, JoinLeaveChatFits, NoticesChatFits, JoinFetchChatFits, LeaveLeaveChatFits,
     HomeEnterChatFits, HangUpChatFits, ByeLeaveChatFits, ByeUnlockChatFits, ChatStutterFits
     DEF ChatNext, Serve, AllServed

\* A socket that has taken a packet.
LEMMA Taken ==
    ASSUME ChatFits, NEW u \in Client, NEW p \in WidePacket, down' = [down EXCEPT ![u] = Append(@, p)]
    PROVE  /\ \A d \in Client : d # u => down'[d] = down[d]
           /\ Len(down[u]) \in Nat /\ DOMAIN down[u] = 1 .. Len(down[u])
           /\ DOMAIN down'[u] = 1 .. Len(down[u]) + 1 /\ down'[u][Len(down[u]) + 1] = p
           /\ \A k \in DOMAIN down[u] : k \in DOMAIN down'[u] /\ down'[u][k] = down[u][k]
<1>1. down \in [Client -> Seq(WidePacket)] /\ down[u] \in Seq(WidePacket)
  BY DEF ChatFits, ChatTypes
<1>2. down'[u] = Append(down[u], p) /\ \A d \in Client : d # u => down'[d] = down[d]
  BY <1>1
<1>. QED BY <1>1, <1>2

------------------------------------------------------------------------------
(* Chat: messages come in the order of their speakers. *)

LEMMA RowNumbers ==
    ASSUME ChatFits
    PROVE  /\ Len(messages) \in Nat /\ DOMAIN messages = 1 .. Len(messages)
           /\ \A u \in Client : \A i \in DOMAIN live[u] : live[u][i] \in DOMAIN messages
           /\ \A u \in Client : \A k \in DOMAIN down[u] : \A x \in down[u][k].ids :
                 down[u][k].type \in Speech => x \in DOMAIN messages
           /\ \A b, u \in Client : \A x \in Waiting(handler[b], u) :
                 x \in DOMAIN messages /\ messages[x].by = b
<1>1. messages \in Seq(Message)
  BY DEF ChatFits, ChatTypes
<1>2. \A u \in Client : \A i \in DOMAIN live[u] : live[u][i] \in DOMAIN messages
  BY DEF ChatFits, LiveFits
<1>3. ASSUME NEW u \in Client, NEW k \in DOMAIN down[u], NEW x \in down[u][k].ids, down[u][k].type \in Speech
      PROVE  x \in DOMAIN messages
  BY <1>3 DEF ChatFits, PacketsFit, PacketFits
<1>4. ASSUME NEW b \in Client, NEW u \in Client, NEW x \in Waiting(handler[b], u)
      PROVE  x \in DOMAIN messages /\ messages[x].by = b
  <2>1. HandlerFits(b, handler[b], messages, online)
    BY DEF ChatFits, HandlersFit
  <2>2. CASE handler[b].at \in {"message.members", "private.send"}
    BY <2>1, <2>2 DEF Waiting, HandlerFits, SavedFits
  <2>3. CASE handler[b].at = "send"
    <3>1. handler[b].packet.type \in Speech /\ x \in handler[b].packet.ids
      BY <2>3 DEF Waiting
    <3>2. PacketFits(handler[b].packet, messages) /\ messages[x].by = b
      BY <2>1, <2>3, <3>1 DEF HandlerFits, SendingFits
    <3>. QED BY <3>1, <3>2 DEF PacketFits
  <2>4. CASE handler[b].at \notin {"message.members", "private.send", "send"}
    BY <2>4 DEF Waiting
  <2>. QED BY <2>2, <2>3, <2>4
<1>. QED BY <1>1, <1>2, <1>3, <1>4

\* Nothing has come to anybody, and what is new to be brought is new altogether.
LEMMA OrderStays ==
    ASSUME ChatFits, OrderInv, MessagesGrow, UNCHANGED live, UNCHANGED down,
           \A b, u \in Client : \A x \in Waiting(handler'[b], u) :
              x \in Waiting(handler[b], u) \/ x = Len(messages) + 1
    PROVE  OrderInv'
<1>1. InOrderSaid'
  BY RowNumbers DEF OrderInv, InOrderSaid, MessagesGrow
<1>2. LiveIsOlder'
  BY RowNumbers DEF OrderInv, LiveIsOlder, MessagesGrow
<1>3. DownIsInOrder'
  BY RowNumbers DEF OrderInv, DownIsInOrder, MessagesGrow
<1>4. ASSUME NEW u \in Client, NEW b \in Client, NEW x \in Waiting(handler'[b], u)
      PROVE  /\ \A i \in DOMAIN live[u] : messages'[live[u][i]].by = b => live[u][i] < x
             /\ \A k \in DOMAIN down[u] : \A y \in down[u][k].ids :
                   down[u][k].type \in Speech /\ messages'[y].by = b => y < x
  <2>1. /\ \A i \in DOMAIN live[u] : messages'[live[u][i]] = messages[live[u][i]]
        /\ \A k \in DOMAIN down[u] : \A y \in down[u][k].ids :
              down[u][k].type \in Speech => messages'[y] = messages[y]
    BY RowNumbers DEF MessagesGrow
  <2>2. CASE x \in Waiting(handler[b], u)
    BY <2>1, <2>2 DEF OrderInv, WaitingIsNewer
  <2>3. CASE x = Len(messages) + 1
    BY <2>1, <2>3, RowNumbers
  <2>. QED BY <1>4, <2>2, <2>3
<1>5. WaitingIsNewer'
  BY <1>4 DEF WaitingIsNewer
<1>. QED BY <1>1, <1>2, <1>3, <1>5 DEF OrderInv

\* b's handler has brought p to u.
LEMMA OrderTakes ==
    ASSUME ChatFits, OrderInv, UNCHANGED live, UNCHANGED messages,
           NEW b \in Client, NEW u \in Client, NEW p \in WidePacket,
           p.type \in Speech => p.ids \subseteq Waiting(handler[b], u),
           down' = [down EXCEPT ![u] = Append(@, p)],
           p.type \in Speech => Waiting(handler'[b], u) = {},
           \A d, v \in Client : Waiting(handler'[d], v) \subseteq Waiting(handler[d], v)
    PROVE  OrderInv'
<1>1. InOrderSaid'
  BY DEF OrderInv, InOrderSaid
<1> DEFINE n == Len(down[u])
<1>2. /\ \A d \in Client : d # u => down'[d] = down[d]
      /\ n \in Nat /\ DOMAIN down[u] = 1 .. n /\ DOMAIN down'[u] = 1 .. n + 1 /\ down'[u][n + 1] = p
      /\ \A k \in DOMAIN down[u] : down'[u][k] = down[u][k]
  BY Taken
<1>3. ASSUME NEW d \in Client, NEW k \in DOMAIN down'[d]
      PROVE  \/ k \in DOMAIN down[d] /\ down'[d][k] = down[d][k]
             \/ d = u /\ k = n + 1 /\ down'[d][k] = p
  <2>1. CASE d = u
    BY <1>2, <1>3, <2>1
  <2>2. CASE d # u
    BY <1>2, <1>3, <2>2
  <2>. QED BY <2>1, <2>2
<1>4. n \in Nat /\ \A k \in DOMAIN down[u] : k < n + 1 /\ k \in Nat
  BY <1>2
<1> HIDE DEF n
<1>5. ASSUME p.type \in Speech, NEW x \in p.ids
      PROVE  /\ messages[x].by = b
             /\ \A i \in DOMAIN live[u] : messages[live[u][i]].by = b => live[u][i] < x
             /\ \A k \in DOMAIN down[u] : \A y \in down[u][k].ids :
                   down[u][k].type \in Speech /\ messages[y].by = b => y < x
  BY <1>5, RowNumbers DEF OrderInv, WaitingIsNewer
<1>6. LiveIsOlder'
  <2>1. ASSUME NEW d \in Client, NEW i \in DOMAIN live[d], NEW k \in DOMAIN down'[d], NEW x \in down'[d][k].ids,
               down'[d][k].type \in Speech, messages[live[d][i]].by = messages[x].by
        PROVE  live[d][i] < x
    <3>1. CASE k \in DOMAIN down[d] /\ down'[d][k] = down[d][k]
      BY <2>1, <3>1 DEF OrderInv, LiveIsOlder
    <3>2. CASE d = u /\ down'[d][k] = p
      BY <1>5, <2>1, <3>2
    <3>. QED BY <1>3, <3>1, <3>2
  <2>. QED BY <2>1 DEF LiveIsOlder
<1>7. DownIsInOrder'
  <2>1. ASSUME NEW d \in Client, NEW j \in DOMAIN down'[d], NEW k \in DOMAIN down'[d],
               NEW x \in down'[d][j].ids, NEW y \in down'[d][k].ids, j < k,
               down'[d][j].type \in Speech, down'[d][k].type \in Speech, messages[x].by = messages[y].by
        PROVE  x < y
    <3>1. CASE d # u
      <4>1. down'[d] = down[d]
        BY <1>2, <3>1
      <4>. QED BY <2>1, <4>1 DEF OrderInv, DownIsInOrder
    <3>2. CASE d = u
      <4>1. j \in DOMAIN down[u] /\ down'[u][j] = down[u][j]
        <5>1. k = n + 1 \/ k < n + 1
          BY <1>3, <1>4, <2>1, <3>2
        <5>2. j # n + 1
          BY <1>2, <1>4, <2>1, <3>2, <5>1
        <5>. QED BY <1>3, <2>1, <3>2, <5>2
      <4>2. CASE k \in DOMAIN down[u] /\ down'[u][k] = down[u][k]
        BY <2>1, <3>2, <4>1, <4>2 DEF OrderInv, DownIsInOrder
      <4>3. CASE down'[u][k] = p
        BY <1>5, <2>1, <3>2, <4>1, <4>3
      <4>. QED BY <1>3, <2>1, <3>2, <4>2, <4>3
    <3>. QED BY <3>1, <3>2
  <2>. QED BY <2>1 DEF DownIsInOrder
<1>8. WaitingIsNewer'
  <2>1. ASSUME NEW v \in Client, NEW d \in Client, NEW x \in Waiting(handler'[d], v),
               NEW k \in DOMAIN down'[v], NEW y \in down'[v][k].ids,
               down'[v][k].type \in Speech, messages[y].by = d
        PROVE  y < x
    <3>1. x \in Waiting(handler[d], v)
      BY <2>1
    <3>2. CASE k \in DOMAIN down[v] /\ down'[v][k] = down[v][k]
      BY <2>1, <3>1, <3>2 DEF OrderInv, WaitingIsNewer
    <3>3. CASE v = u /\ down'[v][k] = p
      <4>1. d = b
        BY <1>5, <2>1, <3>3
      <4>. QED BY <2>1, <3>3, <4>1
    <3>. QED BY <1>3, <3>2, <3>3
  <2>2. ASSUME NEW v \in Client, NEW d \in Client, NEW x \in Waiting(handler'[d], v), NEW i \in DOMAIN live[v],
               messages[live[v][i]].by = d
        PROVE  live[v][i] < x
    BY <2>2 DEF OrderInv, WaitingIsNewer
  <2>. QED BY <2>1, <2>2 DEF WaitingIsNewer
<1>. QED BY <1>1, <1>6, <1>7, <1>8 DEF OrderInv

LEMMA OrderDisplayed ==
    ASSUME ChatFits, OrderInv, NEW c \in Client, Display(c)
    PROVE  OrderInv'
<1>1. messages' = messages /\ handler' = handler
  BY DEF Display, server
<1>2. /\ 1 \in DOMAIN down[c] /\ Head(down[c]) = down[c][1]
      /\ \A d \in Client : d # c => down'[d] = down[d]
      /\ \A k \in DOMAIN down'[c] : k + 1 \in DOMAIN down[c] /\ down'[c][k] = down[c][k + 1]
      /\ \A d \in Client : down[d] \in Seq(WidePacket)
      /\ down'[c] \in Seq(WidePacket)
  BY HeadOfSocket DEF ChatFits, ChatTypes
<1>3. \A d \in Client : d # c => live'[d] = live[d]
  BY DisplayedSpeech
<1>4. \A d \in Client : live[d] \in Seq(Nat)
  BY DEF ChatFits, ChatTypes
<1>5. ASSUME NEW i \in DOMAIN live'[c]
      PROVE  \/ i \in DOMAIN live[c] /\ live'[c][i] = live[c][i]
             \/ /\ i = Len(live[c]) + 1 /\ down[c][1].type \in Speech /\ live'[c][i] \in down[c][1].ids
  <2>1. CASE Head(down[c]).type \notin Speech
    BY <2>1, DisplayedSpeech
  <2>2. CASE Head(down[c]).type \in Speech
    <3>1. PICK x \in DOMAIN messages : Head(down[c]).ids = {x} /\ live'[c] = Append(live[c], x)
      BY <2>2, DisplayedSpeech
    <3>. QED BY <1>2, <1>4, <1>5, <2>2, <3>1
  <2>. QED BY <2>1, <2>2
<1>6. InOrderSaid'
  <2>1. ASSUME NEW i \in DOMAIN live'[c], NEW j \in DOMAIN live'[c], i < j,
               messages[live'[c][i]].by = messages[live'[c][j]].by
        PROVE  live'[c][i] < live'[c][j]
    <3>1. i \in DOMAIN live[c] /\ live'[c][i] = live[c][i]
      <4>1. i # Len(live[c]) + 1
        BY <1>4, <1>5, <2>1
      <4>. QED BY <1>5, <4>1
    <3>2. CASE j \in DOMAIN live[c] /\ live'[c][j] = live[c][j]
      BY <2>1, <3>1, <3>2 DEF OrderInv, InOrderSaid
    <3>3. CASE down[c][1].type \in Speech /\ live'[c][j] \in down[c][1].ids
      BY <1>2, <2>1, <3>1, <3>3 DEF OrderInv, LiveIsOlder
    <3>. QED BY <1>5, <3>2, <3>3
  <2>2. ASSUME NEW d \in Client, NEW i \in DOMAIN live'[d], NEW j \in DOMAIN live'[d], i < j,
               messages[live'[d][i]].by = messages[live'[d][j]].by
        PROVE  live'[d][i] < live'[d][j]
    BY <1>3, <2>1, <2>2 DEF OrderInv, InOrderSaid
  <2>. QED BY <1>1, <2>2 DEF InOrderSaid
<1>7. LiveIsOlder'
  <2>1. ASSUME NEW i \in DOMAIN live'[c], NEW k \in DOMAIN down'[c], NEW x \in down'[c][k].ids,
               down'[c][k].type \in Speech, messages[live'[c][i]].by = messages[x].by
        PROVE  live'[c][i] < x
    <3>1. k + 1 \in DOMAIN down[c] /\ down'[c][k] = down[c][k + 1] /\ 1 < k + 1
      BY <1>2
    <3>2. CASE i \in DOMAIN live[c] /\ live'[c][i] = live[c][i]
      BY <2>1, <3>1, <3>2 DEF OrderInv, LiveIsOlder
    <3>3. CASE down[c][1].type \in Speech /\ live'[c][i] \in down[c][1].ids
      BY <1>2, <2>1, <3>1, <3>3 DEF OrderInv, DownIsInOrder
    <3>. QED BY <1>5, <3>2, <3>3
  <2>2. ASSUME NEW d \in Client, NEW i \in DOMAIN live'[d], NEW k \in DOMAIN down'[d], NEW x \in down'[d][k].ids,
               down'[d][k].type \in Speech, messages[live'[d][i]].by = messages[x].by
        PROVE  live'[d][i] < x
    <3>1. CASE d = c
      BY <2>1, <2>2, <3>1
    <3>2. CASE d # c
      <4>1. live'[d] = live[d] /\ down'[d] = down[d]
        BY <1>2, <1>3, <3>2
      <4>. QED BY <2>2, <4>1 DEF OrderInv, LiveIsOlder
    <3>. QED BY <3>1, <3>2
  <2>. QED BY <1>1, <2>2 DEF LiveIsOlder
<1>8. DownIsInOrder'
  <2>1. ASSUME NEW j \in DOMAIN down'[c], NEW k \in DOMAIN down'[c],
               NEW x \in down'[c][j].ids, NEW y \in down'[c][k].ids, j < k,
               down'[c][j].type \in Speech, down'[c][k].type \in Speech, messages[x].by = messages[y].by
        PROVE  x < y
    <3>1. /\ k + 1 \in DOMAIN down[c] /\ down'[c][k] = down[c][k + 1]
          /\ j + 1 \in DOMAIN down[c] /\ down'[c][j] = down[c][j + 1] /\ j + 1 < k + 1
      BY <1>2, <2>1
    <3>. QED BY <2>1, <3>1 DEF OrderInv, DownIsInOrder
  <2>2. ASSUME NEW d \in Client, NEW j \in DOMAIN down'[d], NEW k \in DOMAIN down'[d],
               NEW x \in down'[d][j].ids, NEW y \in down'[d][k].ids, j < k,
               down'[d][j].type \in Speech, down'[d][k].type \in Speech, messages[x].by = messages[y].by
        PROVE  x < y
    BY <1>2, <2>1, <2>2 DEF OrderInv, DownIsInOrder
  <2>. QED BY <1>1, <2>2 DEF DownIsInOrder
<1>9. WaitingIsNewer'
  <2>1. ASSUME NEW u \in Client, NEW b \in Client, NEW x \in Waiting(handler[b], u), NEW i \in DOMAIN live'[u],
               messages[live'[u][i]].by = b
        PROVE  live'[u][i] < x
    <3>1. CASE i \in DOMAIN live[u] /\ live'[u][i] = live[u][i]
      BY <2>1, <3>1 DEF OrderInv, WaitingIsNewer
    <3>2. CASE u = c /\ down[c][1].type \in Speech /\ live'[c][i] \in down[c][1].ids
      BY <1>2, <2>1, <3>2 DEF OrderInv, WaitingIsNewer
    <3>. QED BY <1>3, <1>5, <2>1, <3>1, <3>2
  <2>2. ASSUME NEW u \in Client, NEW b \in Client, NEW x \in Waiting(handler[b], u),
               NEW k \in DOMAIN down'[u], NEW y \in down'[u][k].ids,
               down'[u][k].type \in Speech, messages[y].by = b
        PROVE  y < x
    <3>1. PICK j \in DOMAIN down[u] : down'[u][k] = down[u][j]
      BY <1>2, <2>2
    <3>. QED BY <2>2, <3>1 DEF OrderInv, WaitingIsNewer
  <2>. QED BY <1>1, <2>1, <2>2 DEF WaitingIsNewer
<1>. QED BY <1>6, <1>7, <1>8, <1>9 DEF OrderInv

LEMMA OrderQuit ==
    ASSUME ChatFits, OrderInv, NEW c \in Client, Quit(c)
    PROVE  OrderInv'
<1>1. /\ messages' = messages /\ handler' = handler /\ live' = live
      /\ \A d \in Client : down'[d] = down[d] \/ down'[d] = <<>>
  BY DEF Quit, server, ChatFits, ChatTypes
<1>2. \A d \in Client : \A k \in DOMAIN down'[d] : k \in DOMAIN down[d] /\ down'[d][k] = down[d][k]
  BY <1>1
<1>3. InOrderSaid' /\ LiveIsOlder' /\ DownIsInOrder'
  BY <1>1, <1>2 DEF OrderInv, InOrderSaid, LiveIsOlder, DownIsInOrder
<1>4. WaitingIsNewer'
  BY <1>1, <1>2 DEF OrderInv, WaitingIsNewer
<1>. QED BY <1>3, <1>4 DEF OrderInv

\* Whatever else a step changes, the other handlers are as they were.
LEMMA TurnTurns ==
    ASSUME ChatFits, NEW c \in Client, NEW h, Turn(c, h)
    PROVE  handler'[c] = h /\ \A d \in Client : d # c => handler'[d] = handler[d]
  BY DEF Turn, ChatFits, ChatTypes

LEMMA OnwardWaits ==
    ASSUME NEW h \in WideHandler, NEW then \in AfterSending
    PROVE  /\ Onward(h, then).at = then
           /\ \A u : Waiting(Onward(h, then), u) = {}
<1>1. Onward(h, then).at = then
  <2>1. CASE then = "receive"
    BY <2>1 DEF Onward, Rest
  <2>2. CASE then # "receive"
    BY <2>2 DEF Onward, WideHandler
  <2>. QED BY <2>1, <2>2
<1>2. then \notin {"message.members", "private.send", "send"}
  BY DEF AfterSending
<1>. QED BY <1>1, <1>2 DEF Waiting

\* A handler that is to tell what is no speech has none to bring.
LEMMA TellWaits ==
    ASSUME ChatFits, NEW c \in Client, NEW packet, NEW recipients, NEW then \in AfterSending,
           Tell(c, packet, recipients, then)
    PROVE  /\ \A d \in Client : d # c => handler'[d] = handler[d]
           /\ \A u \in Client : \A x \in Waiting(handler'[c], u) : packet.type \in Speech /\ x \in packet.ids
<1>1. handler[c] \in WideHandler /\ handler \in [Client -> WideHandler]
  BY DEF ChatFits, ChatTypes
<1>2. CASE recipients = {}
  <2>1. Turn(c, Onward(handler[c], then))
    BY <1>2 DEF Tell
  <2>. QED BY <1>1, <2>1, OnwardWaits, TurnTurns
<1>3. CASE recipients # {}
  <2> DEFINE g == [handler[c] EXCEPT !.at = "send", !.packet = packet, !.todo = recipients, !.then = then]
  <2>1. Turn(c, g)
    BY <1>3 DEF Tell
  <2>2. g.at = "send" /\ g.packet = packet
    BY <1>1 DEF WideHandler
  <2> HIDE DEF g
  <2>3. handler'[c] = g /\ \A d \in Client : d # c => handler'[d] = handler[d]
    BY <2>1, TurnTurns
  <2>. QED BY <2>2, <2>3 DEF Waiting
<1>. QED BY <1>2, <1>3

LEMMA OrderTold ==
    ASSUME ChatFits, OrderInv, NEW c \in Client, NEW packet, NEW recipients, NEW then \in AfterSending,
           Tell(c, packet, recipients, then), UNCHANGED <<messages, live, down>>,
           packet.type \in Speech => \A u \in Client : packet.ids \subseteq Waiting(handler[c], u)
    PROVE  OrderInv'
<1>1. \A b, u \in Client : \A x \in Waiting(handler'[b], u) : x \in Waiting(handler[b], u)
  BY TellWaits
<1>. QED BY <1>1, NoNewRows, OrderStays

\* Handlers that have nothing to bring after the step.
LEMMA OrderQuiet ==
    ASSUME ChatFits, OrderInv, NEW c \in Client, UNCHANGED <<messages, live, down>>,
           \A d \in Client : d # c => handler'[d] = handler[d],
           \/ handler'[c].at \notin {"message.members", "private.send", "send"}
           \/ handler'[c].at = "send" /\ handler'[c].packet.type \notin Speech
    PROVE  OrderInv'
<1>1. \A u \in Client : Waiting(handler'[c], u) = {}
  BY DEF Waiting
<1>2. \A b, u \in Client : \A x \in Waiting(handler'[b], u) : x \in Waiting(handler[b], u)
  BY <1>1
<1>. QED BY <1>2, NoNewRows, OrderStays

LEMMA OrderDelivered ==
    ASSUME ChatFits, OrderInv, NEW c \in Client, NEW u \in Client, Deliver(c, u)
    PROVE  OrderInv'
<1> DEFINE h == handler[c]
<1>1. /\ HandlerFits(c, h, messages, online) /\ h.at = "send" /\ u \in h.todo
      /\ h.packet \in WidePacket /\ h \in WideHandler /\ h.then \in AfterSending
  BY DEF Deliver, Doing, ChatFits, HandlersFit, HandlerFits, SendingFits, PacketFits, LocalsFitIn
<1>2. handler'[c] = Sent(h, u) /\ \A d \in Client : d # c => handler'[d] = handler[d]
  BY TurnTurns DEF Deliver
<1>3. UNCHANGED live /\ UNCHANGED messages
  BY DEF Deliver, client, server
<1>4. /\ Waiting(Sent(h, u), u) = {}
      /\ \A v \in Client : Waiting(Sent(h, u), v) \subseteq Waiting(h, v)
  <2>1. CASE h.todo = {u}
    BY <1>1, <2>1, OnwardWaits DEF Sent
  <2>2. CASE h.todo # {u}
    <3> DEFINE g == [h EXCEPT !.todo = @ \ {u}]
    <3>1. g.at = "send" /\ g.packet = h.packet /\ g.todo = h.todo \ {u} /\ Sent(h, u) = g
      BY <1>1, <2>2 DEF Sent, WideHandler
    <3> HIDE DEF g
    <3>. QED BY <1>1, <3>1 DEF Waiting
  <2>. QED BY <2>1, <2>2
<1>5. \A d, v \in Client : Waiting(handler'[d], v) \subseteq Waiting(handler[d], v)
  BY <1>2, <1>4
<1>6. h.packet.type \in Speech => h.packet.ids \subseteq Waiting(h, u)
  BY <1>1 DEF Waiting
<1>7. CASE Reached(u)
  <2>1. down' = [down EXCEPT ![u] = Append(@, h.packet)]
    BY <1>7 DEF Deliver
  <2>2. Waiting(handler'[c], u) = {}
    BY <1>2, <1>4
  <2>3. h.packet.type \in Speech => h.packet.ids \subseteq Waiting(handler[c], u)
    BY <1>6
  <2>4. h.packet \in WidePacket
    BY <1>1
  <2> HIDE DEF h
  <2>. QED BY <1>3, <1>5, <2>1, <2>2, <2>3, <2>4, OrderTakes
<1>8. CASE ~Reached(u)
  <2>1. UNCHANGED down
    BY <1>8 DEF Deliver
  <2>. QED BY <1>3, <1>5, <2>1, NoNewRows, OrderStays
<1>. QED BY <1>7, <1>8

LEMMA OrderPrivatelySent ==
    ASSUME ChatFits, OrderInv, NEW c \in Client, PrivateSend(c)
    PROVE  OrderInv'
<1> DEFINE p == Of("PRIVATE_MESSAGE", Nothing, {handler[c].id})
<1>1. /\ UNCHANGED messages /\ UNCHANGED live /\ UNCHANGED online /\ handler[c].at = "private.send"
  BY DEF PrivateSend, Doing, client, server
<1>2. PICK outcome \in Outcome : Tell(c, Of(outcome, Nothing, {handler[c].id}), {c}, "receive")
  BY PrivatelySent DEF Outcome
<1>3. handler[c].target \in Client /\ PacketFits(p, messages)
  BY <1>1, <1>2, AnswerFits
<1>4. Of(outcome, Nothing, {handler[c].id}).type \notin Speech
  BY <1>2 DEF Of, Speech, Outcome
<1>5. /\ \A d \in Client : d # c => handler'[d] = handler[d]
      /\ \A u \in Client : Waiting(handler'[c], u) = {}
  BY <1>2, <1>4, TellWaits DEF AfterSending
<1>6. \A u \in Client : Waiting(handler[c], u) = {handler[c].id}
  BY <1>1 DEF Waiting
<1>7. p.ids = {handler[c].id} /\ p \in WidePacket
  BY <1>3 DEF Of, PacketFits
<1>8. \/ UNCHANGED down
      \/ down' = [down EXCEPT ![handler[c].target] = Append(@, p)]
  BY PrivatelySent
<1>9. \A d, v \in Client : Waiting(handler'[d], v) \subseteq Waiting(handler[d], v)
  BY <1>5
<1> HIDE DEF p
<1>10. CASE UNCHANGED down
  BY <1>1, <1>9, <1>10, NoNewRows, OrderStays
<1>11. CASE down' = [down EXCEPT ![handler[c].target] = Append(@, p)]
  <2>1. Waiting(handler'[c], handler[c].target) = {} /\ p.ids \subseteq Waiting(handler[c], handler[c].target)
    BY <1>3, <1>5, <1>6, <1>7
  <2>. QED BY <1>1, <1>3, <1>7, <1>9, <1>11, <2>1, OrderTakes
<1>. QED BY <1>8, <1>10, <1>11

LEMMA OrderSaved ==
    ASSUME ChatFits, OrderInv, NEW c \in Client, MessageSave(c) \/ PrivateSave(c)
    PROVE  OrderInv'
<1>1. UNCHANGED live /\ UNCHANGED down
  BY DEF MessageSave, PrivateSave, Save, client, sockets
<1>2. /\ MessagesGrow /\ handler'[c].at \in {"message.members", "private.send"}
      /\ handler'[c].id = Len(messages) + 1
      /\ \A d \in Client : d # c => handler'[d] = handler[d]
  BY MessageSaved, PrivateSaved
<1>3. \A u \in Client : Waiting(handler'[c], u) = {Len(messages) + 1}
  BY <1>2 DEF Waiting
<1>. QED BY <1>1, <1>2, <1>3, OrderStays

LEMMA OrderReceived ==
    ASSUME ChatFits, ChatAssumption, OrderInv, NEW c \in Client, Receive(c)
    PROVE  OrderInv'
<1>1. UNCHANGED <<messages, live, down>>
  BY DEF Receive, client, server
<1>2. CASE Tell(c, Notice, {c}, "receive")
  BY <1>1, <1>2, NoticeFits, OrderTold DEF AfterSending, Speech
<1>3. ASSUME NEW stage \in {"message.save", "private.save", "join.enter", "leave.leave"},
             NEW room, NEW target,
             Turn(c, [Rest EXCEPT !.at = stage, !.room = room, !.target = target])
      PROVE  OrderInv'
  <2>1. [Rest EXCEPT !.at = stage, !.room = room, !.target = target].at = stage
    BY DEF Rest
  <2>2. handler'[c].at = stage /\ \A d \in Client : d # c => handler'[d] = handler[d]
    BY <1>3, <2>1, TurnTurns
  <2>. QED BY <1>1, <2>2, OrderQuiet
<1>. QED BY <1>2, <1>3, ReceivedHandler

LEMMA OrderToMembers ==
    ASSUME ChatFits, OrderInv, NEW c \in Client, MessageMembers(c)
    PROVE  OrderInv'
<1>1. \A u \in Client : Waiting(handler[c], u) = {handler[c].id}
  BY DEF MessageMembers, Doing, Waiting
<1>2. Of("MESSAGE", handler[c].room, {handler[c].id}).ids = {handler[c].id}
  BY DEF Of
<1>. QED BY <1>1, <1>2, OrderTold DEF MessageMembers, client, sockets, server, AfterSending

\* What a handler does to the room table, and tells of it.
LEMMA OrderMoved ==
    ASSUME ChatFits, OrderInv, NEW c \in Client,
           \/ JoinEnter(c) \/ JoinLeave(c) \/ JoinMembers(c) \/ JoinFetch(c)
           \/ LeaveLeave(c) \/ LeaveMembers(c) \/ HomeEnter(c)
           \/ HangUp(c) \/ ByeLeave(c) \/ ByeMembers(c) \/ ByeOnline(c) \/ ByeUnlock(c)
    PROVE  OrderInv'
<1>1. UNCHANGED <<messages, live, down>>
  BY DEF JoinEnter, JoinLeave, JoinMembers, JoinFetch, LeaveLeave, LeaveMembers, HomeEnter,
         HangUp, ByeLeave, ByeMembers, ByeOnline, ByeUnlock, client, sockets, server
<1>2. CASE JoinEnter(c)
  <2>1. /\ handler'[c].at = "send" /\ handler'[c].packet = Of("joined", handler[c].room, {})
        /\ \A d \in Client : d # c => handler'[d] = handler[d]
    BY <1>2, EnteredHandler
  <2>2. handler'[c].packet.type \notin Speech
    BY <2>1 DEF Of, Speech
  <2>. QED BY <1>1, <2>1, <2>2, OrderQuiet
<1>3. CASE JoinLeave(c) \/ ByeLeave(c)
  <2>1. Proceed(c, "join.members") \/ Proceed(c, "bye.members")
    BY <1>3 DEF JoinLeave, ByeLeave
  <2>2. /\ handler'[c].at \in {"join.members", "bye.members"}
        /\ \A d \in Client : d # c => handler'[d] = handler[d]
    BY <2>1 DEF Proceed, ChatFits, ChatTypes, WideHandler
  <2>. QED BY <1>1, <2>2, OrderQuiet
<1>4. CASE JoinMembers(c) \/ LeaveMembers(c) \/ ByeMembers(c) \/ ByeOnline(c)
  <2>1. ASSUME NEW recipients, NEW then \in AfterSending, Tell(c, Notice, recipients, then)
        PROVE  OrderInv'
    BY <1>1, <2>1, NoticeFits, OrderTold DEF Speech
  <2>2. /\ "join.fetch" \in AfterSending /\ "home.enter" \in AfterSending
        /\ "bye.online" \in AfterSending /\ "bye.unlock" \in AfterSending
    BY DEF AfterSending
  <2>3. \/ Tell(c, Notice, members[handler[c].room], "join.fetch")
        \/ Tell(c, Notice, members[handler[c].room], "home.enter")
        \/ Tell(c, Notice, members[handler[c].room], "bye.online")
        \/ Tell(c, Notice, connections, "bye.unlock")
    BY <1>4 DEF JoinMembers, LeaveMembers, ByeMembers, ByeOnline
  <2>. QED BY <2>1, <2>2, <2>3
<1>5. CASE JoinFetch(c) \/ LeaveLeave(c)
  <2>1. ASSUME NEW packet, NEW then \in AfterSending, Tell(c, packet, {c}, then), packet.type \notin Speech
        PROVE  OrderInv'
    BY <1>1, <2>1, OrderTold
  <2>2. /\ Of("ROOM_HISTORY", handler[c].room, History(handler[c].room)).type \notin Speech
        /\ Of("left", handler[c].room, {}).type \notin Speech
        /\ "receive" \in AfterSending /\ "leave.members" \in AfterSending
    BY DEF Of, Speech, AfterSending
  <2>3. \/ Tell(c, Of("ROOM_HISTORY", handler[c].room, History(handler[c].room)), {c}, "receive")
        \/ Tell(c, Of("left", handler[c].room, {}), {c}, "leave.members")
    BY <1>5 DEF JoinFetch, LeaveLeave
  <2>. QED BY <2>1, <2>2, <2>3
<1>6. CASE HomeEnter(c)
  <2>1. handler'[c] = Rest /\ \A d \in Client : d # c => handler'[d] = handler[d]
    BY <1>6, TurnTurns DEF HomeEnter
  <2>. QED BY <1>1, <2>1, OrderQuiet DEF Rest
<1>7. CASE HangUp(c)
  <2>1. /\ handler'[c] = [Rest EXCEPT !.at = "bye.leave", !.room = userRooms[c]]
        /\ \A d \in Client : d # c => handler'[d] = handler[d]
    BY <1>7, TurnTurns DEF HangUp
  <2>2. handler'[c].at = "bye.leave"
    BY <2>1 DEF Rest
  <2>. QED BY <1>1, <2>1, <2>2, OrderQuiet
<1>8. CASE ByeUnlock(c)
  <2>1. /\ handler'[c] = [Rest EXCEPT !.at = "gone"]
        /\ \A d \in Client : d # c => handler'[d] = handler[d]
    BY <1>8, TurnTurns DEF ByeUnlock
  <2>2. handler'[c].at = "gone"
    BY <2>1 DEF Rest
  <2>. QED BY <1>1, <2>1, <2>2, OrderQuiet
<1>. QED BY <1>2, <1>3, <1>4, <1>5, <1>6, <1>7, <1>8

LEMMA OrderStep ==
    ASSUME ChatAssumption, ChatFits, OrderInv, [ChatNext]_chatVars
    PROVE  OrderInv'
<1>1. CASE UNCHANGED chatVars
  <2>1. UNCHANGED live /\ UNCHANGED down /\ UNCHANGED messages /\ UNCHANGED handler
    BY <1>1 DEF chatVars, client, sockets, server
  <2>. QED BY <2>1, NoNewRows, OrderStays
<1>2. ASSUME NEW c \in Client, NEW p \in Requests(c), Type(c, p) PROVE OrderInv'
  <2>1. UNCHANGED live /\ UNCHANGED down /\ UNCHANGED messages /\ UNCHANGED handler
    BY <1>2 DEF Type, sockets, server
  <2>. QED BY <2>1, NoNewRows, OrderStays
<1>3. ASSUME NEW c \in Client, SendPacket(c) PROVE OrderInv'
  <2>1. UNCHANGED live /\ UNCHANGED down /\ UNCHANGED messages /\ UNCHANGED handler
    BY <1>3 DEF SendPacket, server
  <2>. QED BY <2>1, NoNewRows, OrderStays
<1>4. ASSUME NEW c \in Client, Serve(c) PROVE OrderInv'
  BY <1>4, OrderDelivered, OrderPrivatelySent, OrderSaved, OrderReceived, OrderToMembers, OrderMoved DEF Serve
<1>. QED BY <1>1, <1>2, <1>3, <1>4, OrderDisplayed, OrderQuit DEF ChatNext, AllServed

------------------------------------------------------------------------------
(* Chat: clients are told where they are. *)

\* The handler after Tell.
LEMMA Told ==
    ASSUME ChatFits, NEW c \in Client, NEW packet, NEW recipients, NEW then \in AfterSending,
           Tell(c, packet, recipients, then)
    PROVE  /\ \A d \in Client : d # c => handler'[d] = handler[d]
           /\ then # "receive" => handler'[c].room = handler[c].room
           /\ recipients = {} => handler'[c].at = then
           /\ recipients # {} => /\ handler'[c].at = "send" /\ handler'[c].packet = packet
                                 /\ handler'[c].todo = recipients /\ handler'[c].then = then
                                 /\ handler'[c].room = handler[c].room
<1>1. handler[c] \in WideHandler /\ handler \in [Client -> WideHandler]
  BY DEF ChatFits, ChatTypes
<1>2. CASE recipients = {}
  <2>1. Turn(c, Onward(handler[c], then))
    BY <1>2 DEF Tell
  <2>2. then # "receive" => Onward(handler[c], then).room = handler[c].room
    BY <1>1 DEF Onward, WideHandler
  <2>. QED BY <1>1, <1>2, <2>1, <2>2, OnwardWaits, TurnTurns
<1>3. CASE recipients # {}
  <2> DEFINE g == [handler[c] EXCEPT !.at = "send", !.packet = packet, !.todo = recipients, !.then = then]
  <2>1. Turn(c, g)
    BY <1>3 DEF Tell
  <2>2. /\ g.at = "send" /\ g.packet = packet /\ g.todo = recipients /\ g.then = then
        /\ g.room = handler[c].room
    BY <1>1 DEF WideHandler
  <2> HIDE DEF g
  <2>3. handler'[c] = g /\ \A d \in Client : d # c => handler'[d] = handler[d]
    BY <2>1, TurnTurns
  <2>. QED BY <1>3, <2>2, <2>3
<1>. QED BY <1>2, <1>3

\* d's socket has what it had, and packets that name no room.
Gained(d) ==
    /\ \A k \in DOMAIN down[d] : k \in DOMAIN down'[d] /\ down'[d][k] = down[d][k]
    /\ \A k \in DOMAIN down'[d] : k \in DOMAIN down[d] \/ ~Names(down'[d][k])

LEMMA RoomStaysTold ==
    ASSUME NEW d \in Client, RoomIsTold(d), userRooms'[d] = userRooms[d], here'[d] = here[d],
           Joining(d) => Joining(d)', Gained(d),
           \/ handler'[d] = handler[d]
           \/ ~Announcing(handler[d]) /\ ~Announcing(handler'[d])
    PROVE  RoomIsTold(d)'
<1>1. Announcing(handler'[d]) <=> Announcing(handler[d])
  OBVIOUS
<1>2. CASE Announcing(handler[d])
  BY <1>1, <1>2 DEF RoomIsTold
<1>3. CASE ~Announcing(handler[d])
  <2>1. ASSUME NEW k \in DOMAIN down[d], Names(down[d][k]), Shows(down[d][k]) = userRooms[d],
               \A j \in DOMAIN down[d] : j > k => ~Names(down[d][j])
        PROVE  RoomIsTold(d)'
    <3>1. k \in DOMAIN down'[d] /\ down'[d][k] = down[d][k]
      BY <2>1 DEF Gained
    <3>2. \A j \in DOMAIN down'[d] : j > k => ~Names(down'[d][j])
      BY <2>1 DEF Gained
    <3>. QED BY <1>1, <1>3, <2>1, <3>1, <3>2 DEF RoomIsTold
  <2>2. ASSUME \A k \in DOMAIN down[d] : ~Names(down[d][k]),
               here[d] \in {userRooms[d], Nowhere} \/ Joining(d)
        PROVE  RoomIsTold(d)'
    <3>1. \A k \in DOMAIN down'[d] : ~Names(down'[d][k])
      BY <2>2 DEF Gained
    <3>. QED BY <1>1, <1>3, <2>2, <3>1 DEF RoomIsTold
  <2>. QED BY <1>3, <2>1, <2>2 DEF RoomIsTold
<1>. QED BY <1>2, <1>3

\* Nothing of d's has changed.
LEMMA RoomUntouched ==
    ASSUME NEW d \in Client, RoomIsTold(d), userRooms'[d] = userRooms[d], here'[d] = here[d],
           typed'[d] = typed[d], up'[d] = up[d], Gained(d), handler'[d] = handler[d]
    PROVE  RoomIsTold(d)'
<1>1. Joining(d) => Joining(d)'
  BY DEF Joining
<1>. QED BY <1>1, RoomStaysTold

\* A step of c's handler, which is neither to be told of a room before nor after.
LEMMA RoomOfOthers ==
    ASSUME ChatFits, RoomInv, NEW c \in Client, UNCHANGED client, UNCHANGED up, UNCHANGED userRooms,
           \A d \in Client : d # c => handler'[d] = handler[d],
           \A d \in Client : Gained(d),
           c \in online => ~Announcing(handler[c]) /\ ~Announcing(handler'[c]) /\ handler[c].at # "join.enter"
    PROVE  RoomInv'
<1>1. \A d \in online : d \in Client /\ RoomIsTold(d)
  BY DEF RoomInv, ChatFits, ChatTypes
<1>2. here' = here /\ typed' = typed /\ online' = online
  BY DEF client
<1>3. ASSUME NEW d \in online, d # c PROVE RoomIsTold(d)'
  BY <1>1, <1>2, <1>3, RoomUntouched
<1>4. ASSUME c \in online PROVE RoomIsTold(c)'
  <2>1. Joining(c) => Joining(c)'
    BY <1>2, <1>4 DEF Joining
  <2>. QED BY <1>1, <1>2, <1>4, <2>1, RoomStaysTold
<1>. QED BY <1>2, <1>3, <1>4 DEF RoomInv

LEMMA SameGained == ASSUME NEW d, down'[d] = down[d] PROVE Gained(d)
  BY DEF Gained

LEMMA TakenGained ==
    ASSUME ChatFits, NEW u \in Client, NEW p \in WidePacket, ~Names(p), down' = [down EXCEPT ![u] = Append(@, p)]
    PROVE  \A d \in Client : Gained(d)
<1>1. \A d \in Client : d # u => Gained(d)
  BY Taken, SameGained
<1>2. Gained(u)
  <2>1. /\ Len(down[u]) \in Nat /\ DOMAIN down[u] = 1 .. Len(down[u])
        /\ DOMAIN down'[u] = 1 .. Len(down[u]) + 1 /\ down'[u][Len(down[u]) + 1] = p
        /\ \A k \in DOMAIN down[u] : k \in DOMAIN down'[u] /\ down'[u][k] = down[u][k]
    BY Taken
  <2>2. ASSUME NEW k \in DOMAIN down'[u], k \notin DOMAIN down[u] PROVE ~Names(down'[u][k])
    <3>1. k = Len(down[u]) + 1
      BY <2>1, <2>2
    <3>. QED BY <2>1, <3>1
  <2>. QED BY <2>1, <2>2 DEF Gained
<1>. QED BY <1>1, <1>2

(* What the client does. *)

LEMMA RoomTyped ==
    ASSUME ChatAssumption, ChatFits, RoomInv, NEW c \in Client, NEW p \in Requests(c), Type(c, p)
    PROVE  RoomInv'
<1>1. /\ UNCHANGED userRooms /\ UNCHANGED up /\ UNCHANGED down /\ UNCHANGED handler /\ online' = online
      /\ c \in online
  BY DEF Type, sockets, server
<1>2. \A d \in online : d \in Client /\ RoomIsTold(d)
  BY DEF RoomInv, ChatFits, ChatTypes
<1>3. /\ typed'[c] = p
      /\ p.type = "JOIN_ROOM" => here'[c] = p.room
      /\ p.type # "JOIN_ROOM" => here'[c] = here[c]
      /\ \A d \in Client : d # c => here'[d] = here[d] /\ typed'[d] = typed[d]
  BY RequestsAreFit DEF Type, ChatFits, ChatTypes
<1>4. ASSUME NEW d \in online, d # c PROVE RoomIsTold(d)'
  BY <1>1, <1>2, <1>3, <1>4, SameGained, RoomUntouched
<1>5. typed[c] = Nothing /\ p # Nothing
  BY RequestsAreFit DEF Type
<1>6. Joining(c) => Joining(c)'
  BY <1>1, <1>5 DEF Joining
<1>7. CASE p.type # "JOIN_ROOM"
  <2>1. RoomIsTold(c)'
    BY <1>1, <1>2, <1>3, <1>6, <1>7, SameGained, RoomStaysTold
  <2>. QED BY <1>1, <1>4, <2>1 DEF RoomInv
<1>8. CASE p.type = "JOIN_ROOM"
  <2>1. here'[c] = Nowhere \/ Joining(c)'
    BY <1>3, <1>5, <1>8 DEF Joining, Joins
  <2>2. RoomIsTold(c)'
    BY <1>1, <1>2, <2>1 DEF RoomIsTold
  <2>. QED BY <1>1, <1>4, <2>2 DEF RoomInv
<1>. QED BY <1>7, <1>8

LEMMA RoomSentPacket ==
    ASSUME ChatFits, RoomInv, NEW c \in Client, SendPacket(c)
    PROVE  RoomInv'
<1>1. /\ UNCHANGED userRooms /\ UNCHANGED here /\ UNCHANGED down /\ UNCHANGED handler /\ online' = online
  BY DEF SendPacket, server
<1>2. \A d \in online : d \in Client /\ RoomIsTold(d)
  BY DEF RoomInv, ChatFits, ChatTypes
<1>3. typed[c] \in Request /\ up[c] \in Seq(Request)
  BY DEF SendPacket, ChatFits, ChatTypes
<1>4. /\ up'[c] = Append(up[c], typed[c])
      /\ \A d \in Client : d # c => up'[d] = up[d] /\ typed'[d] = typed[d]
  BY <1>3 DEF SendPacket, ChatFits, ChatTypes
<1>5. /\ Len(up[c]) + 1 \in DOMAIN up'[c] /\ up'[c][Len(up[c]) + 1] = typed[c]
      /\ \A k \in DOMAIN up[c] : k \in DOMAIN up'[c] /\ up'[c][k] = up[c][k]
  BY <1>3, <1>4
<1>6. Joining(c) => Joining(c)'
  BY <1>1, <1>5 DEF Joining
<1>7. ASSUME NEW d \in online PROVE RoomIsTold(d)'
  <2>1. CASE d = c
    BY <1>1, <1>2, <1>6, <2>1, SameGained, RoomStaysTold
  <2>2. CASE d # c
    BY <1>1, <1>2, <1>4, <2>2, SameGained, RoomUntouched
  <2>. QED BY <2>1, <2>2
<1>. QED BY <1>1, <1>7 DEF RoomInv

LEMMA RoomQuit ==
    ASSUME ChatFits, RoomInv, NEW c \in Client, Quit(c)
    PROVE  RoomInv'
<1>1. /\ UNCHANGED userRooms /\ UNCHANGED here /\ UNCHANGED typed /\ UNCHANGED handler
      /\ online' = online \ {c}
  BY DEF Quit, server
<1>2. \A d \in online : d \in Client /\ RoomIsTold(d)
  BY DEF RoomInv, ChatFits, ChatTypes
<1>3. \A d \in Client : d # c => down'[d] = down[d] /\ up'[d] = up[d]
  <2>1. down' = [down EXCEPT ![c] = <<>>] /\ (up' = up \/ up' = [up EXCEPT ![c] = <<>>])
    BY DEF Quit
  <2>. QED BY <2>1 DEF ChatFits, ChatTypes
<1>4. ASSUME NEW d \in online, d # c PROVE RoomIsTold(d)'
  BY <1>1, <1>2, <1>3, <1>4, SameGained, RoomUntouched
<1>. QED BY <1>1, <1>4 DEF RoomInv

LEMMA RoomDisplayed ==
    ASSUME ChatFits, RoomInv, NEW c \in Client, Display(c)
    PROVE  RoomInv'
<1>1. /\ UNCHANGED userRooms /\ UNCHANGED typed /\ UNCHANGED up /\ UNCHANGED handler /\ online' = online
      /\ c \in online
  BY DEF Display, server
<1>2. \A d \in online : d \in Client /\ RoomIsTold(d)
  BY DEF RoomInv, ChatFits, ChatTypes
<1>3. /\ 1 \in DOMAIN down[c] /\ Head(down[c]) = down[c][1]
      /\ \A d \in Client : d # c => down'[d] = down[d]
      /\ \A k \in DOMAIN down'[c] : k + 1 \in DOMAIN down[c] /\ down'[c][k] = down[c][k + 1]
      /\ \A k \in DOMAIN down[c] : k = 1 \/ (k - 1 \in DOMAIN down'[c] /\ down'[c][k - 1] = down[c][k])
  BY HeadOfSocket
<1>a. DOMAIN down[c] \subseteq Nat \ {0} /\ DOMAIN down'[c] \subseteq Nat \ {0}
  <2>1. down[c] \in Seq(WidePacket) /\ down'[c] \in Seq(WidePacket)
    BY HeadOfSocket
  <2>. QED BY <2>1
<1>4. /\ \A d \in Client : d # c => here'[d] = here[d]
      /\ here'[c] = RoomShown(down[c][1], here[c])
  BY <1>3 DEF Display, ChatFits, ChatTypes
<1>5. here'[c] = IF Names(down[c][1]) THEN Shows(down[c][1]) ELSE here[c]
  BY <1>4 DEF RoomShown, Names, Shows, Naming
<1>6. ASSUME NEW d \in online, d # c PROVE RoomIsTold(d)'
  BY <1>1, <1>2, <1>3, <1>4, <1>6, SameGained, RoomUntouched
<1>7. RoomIsTold(c)'
  <2>1. CASE Announcing(handler[c])
    BY <1>1, <1>2, <2>1 DEF RoomIsTold
  <2>2. ASSUME ~Announcing(handler[c]), NEW k \in DOMAIN down[c],
               Names(down[c][k]), Shows(down[c][k]) = userRooms[c],
               \A j \in DOMAIN down[c] : j > k => ~Names(down[c][j])
        PROVE  RoomIsTold(c)'
    <3>1. CASE k = 1
      <4>1. \A j \in DOMAIN down'[c] : ~Names(down'[c][j])
        <5>1. \A j \in DOMAIN down'[c] : j + 1 > k
          BY <1>a, <3>1
        <5>. QED BY <1>3, <2>2, <5>1
      <4>2. here'[c] = userRooms[c]
        BY <1>5, <2>2, <3>1
      <4>. QED BY <1>1, <2>2, <4>1, <4>2 DEF RoomIsTold
    <3>2. CASE k # 1
      <4>1. k - 1 \in DOMAIN down'[c] /\ down'[c][k - 1] = down[c][k]
        BY <1>3, <3>2
      <4>2. \A j \in DOMAIN down'[c] : j > k - 1 => ~Names(down'[c][j])
        BY <1>3, <1>a, <2>2
      <4>. QED BY <1>1, <2>2, <4>1, <4>2 DEF RoomIsTold
    <3>. QED BY <3>1, <3>2
  <2>3. ASSUME ~Announcing(handler[c]), \A k \in DOMAIN down[c] : ~Names(down[c][k]),
               here[c] \in {userRooms[c], Nowhere} \/ Joining(c)
        PROVE  RoomIsTold(c)'
    <3>1. \A k \in DOMAIN down'[c] : ~Names(down'[c][k])
      BY <1>3, <2>3
    <3>2. here'[c] = here[c]
      BY <1>3, <1>5, <2>3
    <3>3. Joining(c) => Joining(c)'
      BY <1>1 DEF Joining
    <3>. QED BY <1>1, <2>3, <3>1, <3>2, <3>3 DEF RoomIsTold
  <2>. QED BY <1>1, <1>2, <2>1, <2>2, <2>3 DEF RoomIsTold
<1>. QED BY <1>1, <1>6, <1>7 DEF RoomInv

(* What the server does. *)

\* What a handler sends of itself, it sends to its client.
LEMMA Announces ==
    ASSUME ChatFits, NEW c \in Client, Announcing(handler[c])
    PROVE  handler[c].todo = {c} /\ handler[c].packet \in WidePacket
<1>1. HandlerFits(c, handler[c], messages, online)
  BY DEF ChatFits, HandlersFit
<1>. QED BY <1>1 DEF Announcing, Names, HandlerFits, SendingFits, PacketFits

LEMMA RoomDelivered ==
    ASSUME ChatFits, RoomInv, NEW c \in Client, NEW u \in Client, Deliver(c, u)
    PROVE  RoomInv'
<1> DEFINE h == handler[c]
<1>1. /\ HandlerFits(c, h, messages, online) /\ h.at = "send" /\ u \in h.todo
      /\ h.packet \in WidePacket /\ h \in WideHandler /\ h.then \in AfterSending
  BY DEF Deliver, Doing, ChatFits, HandlersFit, HandlerFits, SendingFits, PacketFits, LocalsFitIn
<1>2. handler'[c] = Sent(h, u) /\ \A d \in Client : d # c => handler'[d] = handler[d]
  BY TurnTurns DEF Deliver
<1>3. UNCHANGED client /\ UNCHANGED userRooms /\ UNCHANGED up /\ online' = online /\ UNCHANGED here
      /\ UNCHANGED typed
  BY DEF Deliver, client, server
<1>4. h.todo = {u} => handler'[c].at # "send"
  BY <1>1, <1>2, OnwardWaits DEF Sent, AfterSending
<1>5. ASSUME h.todo # {u} PROVE handler'[c].at = "send" /\ handler'[c].packet = h.packet
  <2> DEFINE g == [h EXCEPT !.todo = @ \ {u}]
  <2>1. g.at = "send" /\ g.packet = h.packet /\ Sent(h, u) = g
    BY <1>1, <1>5 DEF Sent, WideHandler
  <2> HIDE DEF g
  <2>. QED BY <1>2, <2>1
<1>6. CASE ~Announcing(h)
  <2>1. ~Announcing(handler'[c])
    <3>1. CASE h.todo = {u}
      BY <1>4, <3>1 DEF Announcing
    <3>2. CASE h.todo # {u}
      BY <1>1, <1>5, <1>6, <3>2 DEF Announcing
    <3>. QED BY <3>1, <3>2
  <2>2. ~Names(h.packet)
    BY <1>1, <1>6 DEF Announcing
  <2>3. \A d \in Client : Gained(d)
    <3>1. CASE Reached(u)
      <4>1. down' = [down EXCEPT ![u] = Append(@, h.packet)]
        BY <3>1 DEF Deliver
      <4> HIDE DEF h
      <4>. QED BY <1>1, <2>2, <4>1, TakenGained
    <3>2. CASE ~Reached(u)
      BY <3>2, SameGained DEF Deliver
    <3>. QED BY <3>1, <3>2
  <2>. QED BY <1>1, <1>2, <1>3, <1>6, <2>1, <2>3, RoomOfOthers
<1>7. CASE Announcing(h)
  <2>1. h.todo = {c} /\ u = c /\ ~Announcing(handler'[c])
    BY <1>1, <1>4, <1>7, Announces DEF Announcing
  <2>2. \A d \in Client : d # c => down'[d] = down[d]
    <3>1. CASE Reached(u)
      <4>1. down' = [down EXCEPT ![u] = Append(@, h.packet)]
        BY <3>1 DEF Deliver
      <4> HIDE DEF h
      <4>. QED BY <1>1, <2>1, <4>1, Taken
    <3>2. CASE ~Reached(u)
      BY <3>2 DEF Deliver
    <3>. QED BY <3>1, <3>2
  <2>3. \A d \in online : d \in Client /\ RoomIsTold(d)
    BY DEF RoomInv, ChatFits, ChatTypes
  <2>4. ASSUME NEW d \in online, d # c PROVE RoomIsTold(d)'
    BY <1>2, <1>3, <2>2, <2>3, <2>4, SameGained, RoomUntouched
  <2>5. ASSUME c \in online PROVE RoomIsTold(c)'
    <3>1. Shows(h.packet) = userRooms[c] /\ Names(h.packet)
      BY <1>7, <2>3, <2>5 DEF RoomIsTold, Announcing
    <3>2. Reached(u)
      BY <2>1, <2>5 DEF Reached, ChatFits, ChatTypes
    <3>3. down' = [down EXCEPT ![c] = Append(@, h.packet)]
      BY <2>1, <3>2 DEF Deliver
    <3> DEFINE k == Len(down[c]) + 1
    <3>4. /\ Len(down[c]) \in Nat /\ k \in DOMAIN down'[c] /\ down'[c][k] = h.packet
          /\ DOMAIN down'[c] = 1 .. Len(down[c]) + 1
      <4>1. h.packet \in WidePacket
        BY <1>1
      <4> HIDE DEF h
      <4>2. /\ Len(down[c]) \in Nat /\ DOMAIN down'[c] = 1 .. Len(down[c]) + 1
            /\ down'[c][Len(down[c]) + 1] = h.packet
        BY <3>3, <4>1, Taken
      <4>. QED BY <4>2
    <3>5. \A j \in DOMAIN down'[c] : ~(j > k)
      BY <3>4
    <3> HIDE DEF k
    <3>. QED BY <1>3, <2>1, <3>1, <3>4, <3>5 DEF RoomIsTold
  <2>. QED BY <1>3, <2>4, <2>5 DEF RoomInv
<1>. QED BY <1>6, <1>7

LEMMA ToldOfNoRoom ==
    ASSUME ChatFits, NEW c \in Client, NEW packet, ~Names(packet), NEW recipients, NEW then \in AfterSending,
           Tell(c, packet, recipients, then)
    PROVE  ~Announcing(handler'[c]) /\ \A d \in Client : d # c => handler'[d] = handler[d]
<1>1. then # "send"
  BY DEF AfterSending
<1>2. CASE recipients = {}
  BY <1>1, <1>2, Told DEF Announcing
<1>3. CASE recipients # {}
  BY <1>3, Told DEF Announcing
<1>. QED BY <1>2, <1>3

LEMMA RoomReceived ==
    ASSUME ChatAssumption, ChatFits, RoomInv, NEW c \in Client, Receive(c)
    PROVE  RoomInv'
<1>1. /\ UNCHANGED userRooms /\ UNCHANGED here /\ UNCHANGED typed /\ UNCHANGED down /\ online' = online
      /\ handler[c].at = "receive"
  BY DEF Receive, Doing, client, server
<1>2. \A d \in online : d \in Client /\ RoomIsTold(d)
  BY DEF RoomInv, ChatFits, ChatTypes
<1>3. /\ \A d \in Client : d # c => handler'[d] = handler[d]
      /\ ~Announcing(handler'[c])
      /\ Joins(Head(up[c])) => handler'[c].at = "join.enter"
  <2>1. CASE Tell(c, Notice, {c}, "receive") /\ ~Joins(Head(up[c]))
    BY <2>1, NoticeFits, ToldOfNoRoom DEF Names, Naming, AfterSending
  <2>2. ASSUME NEW stage \in {"message.save", "private.save", "join.enter", "leave.leave"},
               NEW room, NEW target,
               Turn(c, [Rest EXCEPT !.at = stage, !.room = room, !.target = target]),
               Joins(Head(up[c])) => stage = "join.enter"
        PROVE  /\ \A d \in Client : d # c => handler'[d] = handler[d]
               /\ ~Announcing(handler'[c])
               /\ Joins(Head(up[c])) => handler'[c].at = "join.enter"
    <3>1. [Rest EXCEPT !.at = stage, !.room = room, !.target = target].at = stage
      BY DEF Rest
    <3>2. handler'[c].at = stage /\ \A d \in Client : d # c => handler'[d] = handler[d]
      BY <2>2, <3>1, TurnTurns
    <3>. QED BY <2>2, <3>2 DEF Announcing
  <2>. QED BY <2>1, <2>2, ReceivedHandler
<1>4. Joining(c) => Joining(c)'
  <2>1. ASSUME NEW k \in DOMAIN up[c], Joins(up[c][k]) PROVE Joining(c)'
    <3>1. CASE k = 1
      BY <1>3, <2>1, <3>1, HeadOfRequests DEF Joining
    <3>2. CASE k # 1
      <4>1. k - 1 \in DOMAIN up'[c] /\ up'[c][k - 1] = up[c][k]
        BY <3>2, HeadOfRequests
      <4>. QED BY <2>1, <4>1 DEF Joining
    <3>. QED BY <3>1, <3>2
  <2>. QED BY <1>1, <2>1 DEF Joining
<1>5. ASSUME NEW d \in online PROVE RoomIsTold(d)'
  <2>1. CASE d = c
    <3>1. ~Announcing(handler[c])
      BY <1>1 DEF Announcing
    <3>. QED BY <1>1, <1>2, <1>3, <1>4, <2>1, <3>1, SameGained, RoomStaysTold
  <2>2. CASE d # c
    BY <1>1, <1>2, <1>3, <2>2, HeadOfRequests, SameGained, RoomUntouched
  <2>. QED BY <2>1, <2>2
<1>. QED BY <1>1, <1>5 DEF RoomInv

\* c is put in another room, and is to be told.
LEMMA RoomMoved ==
    ASSUME ChatFits, RoomInv, NEW c \in Client, JoinEnter(c) \/ LeaveLeave(c)
    PROVE  RoomInv'
<1>1. /\ UNCHANGED here /\ UNCHANGED typed /\ UNCHANGED up /\ UNCHANGED down /\ online' = online
      /\ \A d \in Client : d # c => userRooms'[d] = userRooms[d]
  BY DEF JoinEnter, LeaveLeave, client, sockets, ChatFits, ChatTypes
<1>2. \A d \in online : d \in Client /\ RoomIsTold(d)
  BY DEF RoomInv, ChatFits, ChatTypes
<1>3. /\ \A d \in Client : d # c => handler'[d] = handler[d]
      /\ Announcing(handler'[c]) /\ Shows(handler'[c].packet) = userRooms'[c]
  <2>1. CASE JoinEnter(c)
    <3>1. /\ handler'[c].at = "send" /\ handler'[c].packet = Of("joined", handler[c].room, {})
          /\ \A d \in Client : d # c => handler'[d] = handler[d]
      BY <2>1, EnteredHandler
    <3>2. userRooms'[c] = handler[c].room
      BY <2>1 DEF JoinEnter, ChatFits, ChatTypes
    <3>. QED BY <3>1, <3>2 DEF Announcing, Names, Naming, Shows, Of
  <2>2. CASE LeaveLeave(c)
    <3>1. Tell(c, Of("left", handler[c].room, {}), {c}, "leave.members")
      BY <2>2 DEF LeaveLeave
    <3>2. /\ handler'[c].at = "send" /\ handler'[c].packet = Of("left", handler[c].room, {})
          /\ \A d \in Client : d # c => handler'[d] = handler[d]
      BY <3>1, Told DEF AfterSending
    <3>3. userRooms'[c] = Global
      BY <2>2 DEF LeaveLeave, ChatFits, ChatTypes
    <3>. QED BY <3>2, <3>3 DEF Announcing, Names, Naming, Shows, Of
  <2>. QED BY <2>1, <2>2
<1>4. ASSUME NEW d \in online, d # c PROVE RoomIsTold(d)'
  BY <1>1, <1>2, <1>3, <1>4, SameGained, RoomUntouched
<1>5. RoomIsTold(c)'
  BY <1>3 DEF RoomIsTold
<1>. QED BY <1>1, <1>4, <1>5 DEF RoomInv

LEMMA RoomPrivatelySent ==
    ASSUME ChatFits, RoomInv, NEW c \in Client, PrivateSend(c)
    PROVE  RoomInv'
<1> DEFINE p == Of("PRIVATE_MESSAGE", Nothing, {handler[c].id})
<1>1. /\ UNCHANGED <<messages, online>> /\ handler[c].at = "private.send"
      /\ UNCHANGED client /\ UNCHANGED up /\ UNCHANGED userRooms
  BY DEF PrivateSend, Doing, client, server
<1>2. PICK outcome \in Outcome : Tell(c, Of(outcome, Nothing, {handler[c].id}), {c}, "receive")
  BY PrivatelySent DEF Outcome
<1>3. handler[c].target \in Client /\ p \in WidePacket
  BY <1>1, <1>2, AnswerFits DEF PacketFits
<1>4. ~Names(Of(outcome, Nothing, {handler[c].id})) /\ ~Names(p)
  BY <1>2 DEF Of, Names, Naming, Outcome
<1>5. ~Announcing(handler'[c]) /\ \A d \in Client : d # c => handler'[d] = handler[d]
  BY <1>2, <1>4, ToldOfNoRoom DEF AfterSending
<1>6. \/ UNCHANGED down
      \/ down' = [down EXCEPT ![handler[c].target] = Append(@, p)]
  BY PrivatelySent
<1> HIDE DEF p
<1>7. \A d \in Client : Gained(d)
  BY <1>3, <1>4, <1>6, SameGained, TakenGained
<1>8. ~Announcing(handler[c]) /\ handler[c].at # "join.enter"
  BY <1>1 DEF Announcing
<1>. QED BY <1>1, <1>5, <1>7, <1>8, RoomOfOthers

\* Steps that send nothing to c about rooms, and to others nothing at all.
LEMMA RoomQuiet ==
    ASSUME ChatFits, RoomInv, NEW c \in Client,
           \/ MessageSave(c) \/ PrivateSave(c) \/ MessageMembers(c)
           \/ JoinLeave(c) \/ JoinMembers(c) \/ JoinFetch(c) \/ LeaveMembers(c) \/ HomeEnter(c)
           \/ HangUp(c) \/ ByeLeave(c) \/ ByeMembers(c) \/ ByeOnline(c) \/ ByeUnlock(c)
    PROVE  RoomInv'
<1>1. /\ UNCHANGED client /\ UNCHANGED up /\ UNCHANGED userRooms /\ UNCHANGED down
      /\ handler[c].at \notin {"send", "join.enter"}
  BY DEF MessageSave, PrivateSave, Save, MessageMembers, JoinLeave, JoinMembers, JoinFetch, LeaveMembers,
         HomeEnter, HangUp, ByeLeave, ByeMembers, ByeOnline, ByeUnlock, sockets, server, Doing
<1>2. \A d \in Client : Gained(d)
  BY <1>1, SameGained
<1>3. ~Announcing(handler[c])
  BY <1>1 DEF Announcing
<1>4. ~Announcing(handler'[c]) /\ \A d \in Client : d # c => handler'[d] = handler[d]
  <2>1. CASE MessageSave(c) \/ PrivateSave(c)
    BY <2>1, MessageSaved, PrivateSaved DEF Announcing
  <2>2. ASSUME NEW packet, ~Names(packet), NEW recipients, NEW then \in AfterSending,
               Tell(c, packet, recipients, then)
        PROVE  ~Announcing(handler'[c]) /\ \A d \in Client : d # c => handler'[d] = handler[d]
    BY <2>2, ToldOfNoRoom
  <2>3. CASE MessageMembers(c)
    <3>1. ~Names(Of("MESSAGE", handler[c].room, {handler[c].id})) /\ "receive" \in AfterSending
      BY DEF Names, Naming, Of, AfterSending
    <3>. QED BY <2>2, <2>3, <3>1 DEF MessageMembers
  <2>4. CASE JoinFetch(c)
    <3>1. /\ ~Names(Of("ROOM_HISTORY", handler[c].room, History(handler[c].room)))
          /\ "receive" \in AfterSending
      BY DEF Names, Naming, Of, AfterSending
    <3>. QED BY <2>2, <2>4, <3>1 DEF JoinFetch
  <2>5. CASE JoinMembers(c) \/ LeaveMembers(c) \/ ByeMembers(c) \/ ByeOnline(c)
    <3>1. /\ "join.fetch" \in AfterSending /\ "home.enter" \in AfterSending
          /\ "bye.online" \in AfterSending /\ "bye.unlock" \in AfterSending /\ ~Names(Notice)
      BY DEF AfterSending, Names, Naming, Notice, Of
    <3>2. \/ Tell(c, Notice, members[handler[c].room], "join.fetch")
          \/ Tell(c, Notice, members[handler[c].room], "home.enter")
          \/ Tell(c, Notice, members[handler[c].room], "bye.online")
          \/ Tell(c, Notice, connections, "bye.unlock")
      BY <2>5 DEF JoinMembers, LeaveMembers, ByeMembers, ByeOnline
    <3>. QED BY <2>2, <3>1, <3>2
  <2>6. CASE JoinLeave(c) \/ ByeLeave(c)
    <3>1. Proceed(c, "join.members") \/ Proceed(c, "bye.members")
      BY <2>6 DEF JoinLeave, ByeLeave
    <3>2. /\ handler'[c].at \in {"join.members", "bye.members"}
          /\ \A d \in Client : d # c => handler'[d] = handler[d]
      BY <3>1 DEF Proceed, ChatFits, ChatTypes, WideHandler
    <3>. QED BY <3>2 DEF Announcing
  <2>7. ASSUME NEW h, h.at # "send", Turn(c, h)
        PROVE  ~Announcing(handler'[c]) /\ \A d \in Client : d # c => handler'[d] = handler[d]
    BY <2>7, TurnTurns DEF Announcing
  <2>8. /\ Rest.at # "send" /\ [Rest EXCEPT !.at = "bye.leave", !.room = userRooms[c]].at # "send"
        /\ [Rest EXCEPT !.at = "gone"].at # "send"
    BY DEF Rest
  <2>9. CASE HomeEnter(c) \/ HangUp(c) \/ ByeUnlock(c)
    BY <2>7, <2>8, <2>9 DEF HomeEnter, HangUp, ByeUnlock
  <2>. QED BY <2>1, <2>3, <2>4, <2>5, <2>6, <2>9
<1>. QED BY <1>1, <1>2, <1>3, <1>4, RoomOfOthers

LEMMA RoomStep ==
    ASSUME ChatAssumption, ChatFits, RoomInv, [ChatNext]_chatVars
    PROVE  RoomInv'
<1>1. CASE UNCHANGED chatVars
  BY <1>1 DEF chatVars, client, sockets, server, RoomInv, RoomIsTold, Joining
<1>2. ASSUME NEW c \in Client, Serve(c) PROVE RoomInv'
  BY <1>2, RoomDelivered, RoomReceived, RoomMoved, RoomPrivatelySent, RoomQuiet DEF Serve
<1>. QED BY <1>1, <1>2, RoomTyped, RoomSentPacket, RoomQuit, RoomDisplayed DEF ChatNext, AllServed

------------------------------------------------------------------------------

(* Chat: what has been sent, or seen, stays. *)

\* What u has seen it has seen, and what is in its socket stays there or is seen.
Kept(u) ==
    /\ Seen(u) \subseteq Seen(u)'
    /\ \A k \in DOMAIN down[u] :
          \/ \E j \in DOMAIN down'[u] : down'[u][j] = down[u][k]
          \/ down[u][k].type \in Speech \cup {"ROOM_HISTORY"} => down[u][k].ids \subseteq Seen(u)'

LEMMA KeptAlone ==
    ASSUME NEW u, live'[u] = live[u], past'[u] = past[u],
           \A k \in DOMAIN down[u] : k \in DOMAIN down'[u] /\ down'[u][k] = down[u][k]
    PROVE  Kept(u)
  BY DEF Kept, Seen

LEMMA KeptTaken ==
    ASSUME ChatFits, NEW u \in Client, NEW p \in WidePacket, down' = [down EXCEPT ![u] = Append(@, p)],
           UNCHANGED <<live, past>>
    PROVE  \A d \in Client : Kept(d)
<1>1. \A d \in Client : \A k \in DOMAIN down[d] : k \in DOMAIN down'[d] /\ down'[d][k] = down[d][k]
  BY Taken
<1>. QED BY <1>1, KeptAlone

LEMMA KeptDisplayed ==
    ASSUME ChatFits, NEW c \in Client, Display(c)
    PROVE  \A d \in Client : Kept(d)
<1> DEFINE p == Head(down[c])
<1>1. /\ 1 \in DOMAIN down[c] /\ p = down[c][1]
      /\ \A d \in Client : d # c => down'[d] = down[d] /\ live'[d] = live[d]
      /\ \A k \in DOMAIN down[c] : k = 1 \/ (k - 1 \in DOMAIN down'[c] /\ down'[c][k - 1] = down[c][k])
  BY HeadOfSocket, DisplayedSpeech
<1>2. /\ \A d \in Client : d # c => past'[d] = past[d]
      /\ past[c] \subseteq past'[c]
      /\ p.type = "ROOM_HISTORY" => p.ids \subseteq past'[c]
      /\ live[c] \in Seq(Nat)
  BY DEF Display, ChatFits, ChatTypes
<1>3. \A d \in Client : d # c => Kept(d)
  BY <1>1, <1>2, KeptAlone
<1>4. /\ \A k \in DOMAIN live[c] : k \in DOMAIN live'[c] /\ live'[c][k] = live[c][k]
      /\ p.type \in Speech => \A i \in p.ids : \E k \in DOMAIN live'[c] : live'[c][k] = i
  <2>1. CASE p.type \notin Speech
    BY <2>1, DisplayedSpeech
  <2>2. CASE p.type \in Speech
    <3>1. PICK i \in DOMAIN messages : i \in Nat /\ p.ids = {i} /\ live'[c] = Append(live[c], i)
      BY <2>2, DisplayedSpeech
    <3>2. /\ \A k \in DOMAIN live[c] : k \in DOMAIN live'[c] /\ live'[c][k] = live[c][k]
          /\ Len(live[c]) + 1 \in DOMAIN live'[c] /\ live'[c][Len(live[c]) + 1] = i
      BY <1>2, <3>1
    <3>. QED BY <3>1, <3>2
  <2>. QED BY <2>1, <2>2
<1>5. Seen(c) \subseteq Seen(c)'
  BY <1>2, <1>4 DEF Seen
<1>6. p.type \in Speech \cup {"ROOM_HISTORY"} => p.ids \subseteq Seen(c)'
  <2>1. CASE p.type \in Speech
    BY <1>4, <2>1 DEF Seen
  <2>2. CASE p.type = "ROOM_HISTORY"
    BY <1>2, <2>2 DEF Seen
  <2>. QED BY <2>1, <2>2
<1> HIDE DEF p
<1>7. Kept(c)
  BY <1>1, <1>5, <1>6 DEF Kept
<1>. QED BY <1>3, <1>7

LEMMA KeptPrivatelySent ==
    ASSUME ChatFits, NEW c \in Client, PrivateSend(c)
    PROVE  \A d \in Client : Kept(d)
<1> DEFINE p == Of("PRIVATE_MESSAGE", Nothing, {handler[c].id})
<1>1. UNCHANGED <<messages, online, live, past>> /\ handler[c].at = "private.send"
  BY DEF PrivateSend, Doing, client, server
<1>2. PICK outcome \in Outcome : Tell(c, Of(outcome, Nothing, {handler[c].id}), {c}, "receive")
  BY PrivatelySent DEF Outcome
<1>3. handler[c].target \in Client /\ p \in WidePacket
  BY <1>1, <1>2, AnswerFits DEF PacketFits
<1>4. UNCHANGED down \/ down' = [down EXCEPT ![handler[c].target] = Append(@, p)]
  BY PrivatelySent
<1> HIDE DEF p
<1>. QED BY <1>1, <1>3, <1>4, KeptAlone, KeptTaken

LEMMA KeptDelivered ==
    ASSUME ChatFits, NEW c \in Client, NEW u \in Client, Deliver(c, u)
    PROVE  \A d \in Client : Kept(d)
<1>1. UNCHANGED <<live, past>>
  BY DEF Deliver, client
<1>2. handler[c].packet \in WidePacket
  BY DEF Deliver, Doing, ChatFits, HandlersFit, HandlerFits, SendingFits, PacketFits
<1>3. UNCHANGED down \/ down' = [down EXCEPT ![u] = Append(@, handler[c].packet)]
  BY DEF Deliver
<1>. QED BY <1>1, <1>2, <1>3, KeptAlone, KeptTaken

LEMMA KeptStep ==
    ASSUME ChatFits, [ChatNext]_chatVars
    PROVE  MessagesGrow /\ online' \subseteq online /\ \A u \in online' : u \in Client /\ Kept(u)
<1>0. online \subseteq Client
  BY DEF ChatFits, ChatTypes
<1>1. ASSUME UNCHANGED messages, UNCHANGED online, \A d \in Client : Kept(d)
      PROVE  MessagesGrow /\ online' \subseteq online /\ \A u \in online' : u \in Client /\ Kept(u)
  BY <1>0, <1>1, NoNewRows
<1>2. ASSUME UNCHANGED <<live, past, down>> PROVE \A d \in Client : Kept(d)
  BY <1>2, KeptAlone
<1>3. CASE UNCHANGED chatVars
  BY <1>1, <1>2, <1>3 DEF chatVars, client, sockets, server
<1>4. ASSUME NEW c \in Client, NEW p \in Requests(c), Type(c, p) \/ SendPacket(c)
      PROVE  UNCHANGED <<messages, online, live, past, down>>
  BY <1>4 DEF Type, SendPacket, sockets, server
<1>5. ASSUME NEW c \in Client, Quit(c)
      PROVE  MessagesGrow /\ online' \subseteq online /\ \A u \in online' : u \in Client /\ Kept(u)
  <2>1. /\ UNCHANGED <<messages, live, past>> /\ online' = online \ {c}
        /\ \A d \in Client : d # c => down'[d] = down[d]
    BY <1>5 DEF Quit, server, ChatFits, ChatTypes
  <2>2. \A d \in Client : d # c => Kept(d)
    BY <2>1, KeptAlone
  <2>. QED BY <1>0, <2>1, <2>2, NoNewRows
<1>6. ASSUME NEW c \in Client, Display(c) PROVE UNCHANGED <<messages, online>>
  BY <1>6 DEF Display, server
<1>7. ASSUME NEW c \in Client, NEW u \in Client, Deliver(c, u) PROVE UNCHANGED <<messages, online>>
  BY <1>7 DEF Deliver, client, server
<1>8. ASSUME NEW c \in Client, PrivateSend(c) PROVE UNCHANGED <<messages, online>>
  BY <1>8 DEF PrivateSend, client, server
<1>9. ASSUME NEW c \in Client, MessageSave(c) \/ PrivateSave(c)
      PROVE  MessagesGrow /\ UNCHANGED <<online, live, past, down>>
  BY <1>9, MessageSaved, PrivateSaved DEF MessageSave, PrivateSave, Save, client, sockets
<1>10. ASSUME NEW c \in Client,
             \/ Receive(c) \/ MessageMembers(c)
             \/ JoinEnter(c) \/ JoinLeave(c) \/ JoinMembers(c) \/ JoinFetch(c)
             \/ LeaveLeave(c) \/ LeaveMembers(c) \/ HomeEnter(c)
             \/ HangUp(c) \/ ByeLeave(c) \/ ByeMembers(c) \/ ByeOnline(c) \/ ByeUnlock(c)
       PROVE  UNCHANGED <<messages, online, live, past, down>>
  BY <1>10 DEF Receive, MessageMembers, JoinEnter, JoinLeave, JoinMembers, JoinFetch, LeaveLeave,
               LeaveMembers, HomeEnter, HangUp, ByeLeave, ByeMembers, ByeOnline, ByeUnlock,
               client, sockets, server
<1>11. ASSUME NEW c \in Client, Serve(c)
       PROVE  MessagesGrow /\ online' \subseteq online /\ \A u \in online' : u \in Client /\ Kept(u)
  <2>1. CASE \E u \in Client : Deliver(c, u)
    BY <1>1, <1>7, <2>1, KeptDelivered
  <2>2. CASE PrivateSend(c)
    BY <1>1, <1>8, <2>2, KeptPrivatelySent
  <2>3. CASE MessageSave(c) \/ PrivateSave(c)
    BY <1>0, <1>2, <1>9, <2>3
  <2>4. CASE UNCHANGED <<messages, online, live, past, down>>
    BY <1>1, <1>2, <2>4
  <2>. QED BY <1>10, <1>11, <2>1, <2>2, <2>3, <2>4 DEF Serve
<1>12. ASSUME NEW c \in Client, NEW p \in Requests(c), Type(c, p) \/ SendPacket(c)
       PROVE  MessagesGrow /\ online' \subseteq online /\ \A u \in online' : u \in Client /\ Kept(u)
  BY <1>1, <1>2, <1>4, <1>12
<1>13. \A c \in Client : SendPacket(c) => UNCHANGED <<messages, online, live, past, down>>
  BY DEF SendPacket, server
<1>. QED BY <1>1, <1>2, <1>3, <1>5, <1>6, <1>11, <1>12, <1>13, KeptDisplayed DEF ChatNext, AllServed

LEMMA MayTellStays ==
    ASSUME ChatFits, [ChatNext]_chatVars, NEW i, NEW outcome, MayTell(i, outcome)
    PROVE  MayTell(i, outcome)'
<1>0. PICK u \in Client : u = messages[i].to
  BY DEF MayTell
<1>1. /\ i \in DOMAIN messages' /\ messages'[i] = messages[i] /\ messages'[i].to = u
      /\ online' \subseteq online
      /\ u \in online' => Kept(u)
  BY <1>0, KeptStep DEF MayTell, MessagesGrow
<1>2. ASSUME u \in online', outcome = "delivered", i \in Seen(u) PROVE i \in Seen(u)'
  BY <1>1, <1>2 DEF Kept
<1>3. ASSUME u \in online', NEW k \in DOMAIN down[u], down[u][k].type = "PRIVATE_MESSAGE", down[u][k].ids = {i}
      PROVE  \/ i \in Seen(u)'
             \/ \E j \in DOMAIN down'[u] : down'[u][j].type = "PRIVATE_MESSAGE" /\ down'[u][j].ids = {i}
  BY <1>1, <1>3 DEF Kept, Speech
<1>4. \/ u \notin online
      \/ /\ outcome = "delivered"
         /\ \/ i \in Seen(u)
            \/ \E k \in DOMAIN down[u] : down[u][k].type = "PRIVATE_MESSAGE" /\ down[u][k].ids = {i}
  BY <1>0 DEF MayTell
<1>5. \/ u \notin online'
      \/ /\ outcome = "delivered"
         /\ \/ i \in Seen(u)'
            \/ \E k \in DOMAIN down'[u] : down'[u][k].type = "PRIVATE_MESSAGE" /\ down'[u][k].ids = {i}
  BY <1>1, <1>2, <1>3, <1>4
<1>. QED BY <1>1, <1>5 DEF MayTell, Seen

------------------------------------------------------------------------------
(* Chat: senders are told the truth. *)

\* Nobody is told, or is to be told, what may not be told.
LEMMA AnswersStay ==
    ASSUME ChatFits, AnswersInv, [ChatNext]_chatVars,
           \A d \in Client : \A t \in told'[d] : MayTell(t[1], t[2]),
           \A d \in Client : \A k \in DOMAIN down'[d] : TellsTruth(down'[d][k]),
           \A d \in Client : \/ handler'[d].at = "send" => TellsTruth(handler'[d].packet)
                             \/ TellsTruth(handler[d].packet)'
    PROVE  AnswersInv'
<1>1. ASSUME NEW p, TellsTruth(p) PROVE TellsTruth(p)'
  BY <1>1, MayTellStays DEF TellsTruth
<1>2. \A d \in Client : \A t \in told'[d] : MayTell(t[1], t[2])'
  BY MayTellStays
<1>3. \A d \in Client : \A k \in DOMAIN down'[d] : TellsTruth(down[d][k])'
  BY <1>1
<1>4. \A d \in Client : handler'[d].at = "send" => TellsTruth(handler[d].packet)'
  BY <1>1
<1>. QED BY <1>2, <1>3, <1>4 DEF AnswersInv

\* A step of c's handler that sends nothing.
LEMMA AnswersQuiet ==
    ASSUME ChatFits, AnswersInv, [ChatNext]_chatVars, UNCHANGED <<told, down>>, NEW c \in Client,
           \A d \in Client : d # c => handler'[d] = handler[d],
           handler'[c].at = "send" => handler'[c].packet.type \notin Outcome
    PROVE  AnswersInv'
  BY AnswersStay DEF AnswersInv, TellsTruth

LEMMA AnswersDisplayed ==
    ASSUME ChatFits, AnswersInv, [ChatNext]_chatVars, NEW c \in Client, Display(c)
    PROVE  AnswersInv'
<1> DEFINE p == Head(down[c])
<1>1. /\ 1 \in DOMAIN down[c] /\ p = down[c][1]
      /\ \A d \in Client : d # c => down'[d] = down[d]
      /\ \A k \in DOMAIN down'[c] : k + 1 \in DOMAIN down[c] /\ down'[c][k] = down[c][k + 1]
      /\ UNCHANGED handler
  BY HeadOfSocket DEF Display
<1>2. TellsTruth(p)
  BY <1>1 DEF AnswersInv
<1>3. /\ \A d \in Client : d # c => told'[d] = told[d]
      /\ \A t \in told'[c] : t \in told[c] \/ (p.type \in Outcome /\ t \in p.ids \X {p.type})
  BY DEF Display, ChatFits, ChatTypes, Outcome
<1> HIDE DEF p
<1>4. \A t \in p.ids \X {p.type} : t[1] \in p.ids /\ t[2] = p.type
  OBVIOUS
<1>5. \A d \in Client : \A t \in told'[d] : MayTell(t[1], t[2])
  BY <1>2, <1>3, <1>4 DEF AnswersInv, TellsTruth
<1>6. \A d \in Client : \A k \in DOMAIN down'[d] : TellsTruth(down'[d][k])
  BY <1>1 DEF AnswersInv
<1>. QED BY <1>1, <1>5, <1>6, AnswersStay DEF AnswersInv

LEMMA AnswersQuit ==
    ASSUME ChatFits, AnswersInv, [ChatNext]_chatVars, NEW c \in Client, Quit(c)
    PROVE  AnswersInv'
<1>1. UNCHANGED told /\ UNCHANGED handler /\ down' = [down EXCEPT ![c] = <<>>]
  BY DEF Quit
<1>2. \A d \in Client : \A k \in DOMAIN down'[d] : k \in DOMAIN down[d] /\ down'[d][k] = down[d][k]
  BY <1>1 DEF ChatFits, ChatTypes
<1>. QED BY <1>1, <1>2, AnswersStay DEF AnswersInv

\* The socket of u takes p.
LEMMA TruthTaken ==
    ASSUME ChatFits, AnswersInv, NEW u \in Client, NEW p \in WidePacket, TellsTruth(p),
           UNCHANGED down \/ down' = [down EXCEPT ![u] = Append(@, p)]
    PROVE  \A d \in Client : \A k \in DOMAIN down'[d] : TellsTruth(down'[d][k])
<1>1. CASE UNCHANGED down
  BY <1>1 DEF AnswersInv
<1>2. CASE down' = [down EXCEPT ![u] = Append(@, p)]
  <2>1. /\ \A d \in Client : d # u => down'[d] = down[d]
        /\ \A k \in DOMAIN down'[u] : down'[u][k] = p \/ (k \in DOMAIN down[u] /\ down'[u][k] = down[u][k])
    <3>1. /\ \A d \in Client : d # u => down'[d] = down[d]
          /\ Len(down[u]) \in Nat /\ DOMAIN down[u] = 1 .. Len(down[u])
          /\ DOMAIN down'[u] = 1 .. Len(down[u]) + 1 /\ down'[u][Len(down[u]) + 1] = p
          /\ \A k \in DOMAIN down[u] : k \in DOMAIN down'[u] /\ down'[u][k] = down[u][k]
      BY <1>2, Taken
    <3>. QED BY <3>1
  <2>. QED BY <2>1 DEF AnswersInv
<1>. QED BY <1>1, <1>2

\* A handler that has told u sends on what it was sending, or nothing.
LEMMA SentHandler ==
    ASSUME NEW h \in WideHandler, h.at = "send", h.then \in AfterSending, NEW u \in h.todo
    PROVE  /\ h.todo = {u} => Sent(h, u).at = h.then
           /\ h.todo # {u} => /\ Sent(h, u).at = "send" /\ Sent(h, u).packet = h.packet
                              /\ Sent(h, u).todo = h.todo \ {u} /\ Sent(h, u).then = h.then
           /\ Coming(Sent(h, u)) = h.then
           /\ h.then # "receive" => Sent(h, u).room = h.room
<1>0. h.then # "send"
  BY DEF AfterSending
<1>1. CASE h.todo = {u}
  <2>1. Sent(h, u) = Onward(h, h.then) /\ Onward(h, h.then).at = h.then
    BY <1>1, OnwardWaits DEF Sent
  <2>2. h.then # "receive" => Onward(h, h.then).room = h.room
    BY DEF Onward, WideHandler
  <2>. QED BY <1>0, <1>1, <2>1, <2>2 DEF Coming
<1>2. CASE h.todo # {u}
  <2> DEFINE g == [h EXCEPT !.todo = @ \ {u}]
  <2>1. /\ g.at = h.at /\ g.packet = h.packet /\ g.todo = h.todo \ {u} /\ g.then = h.then
        /\ g.room = h.room
    BY DEF WideHandler
  <2>2. Sent(h, u) = g
    BY <1>2 DEF Sent
  <2> HIDE DEF g
  <2>. QED BY <1>2, <2>1, <2>2 DEF Coming
<1>. QED BY <1>1, <1>2

LEMMA AnswersDelivered ==
    ASSUME ChatFits, AnswersInv, [ChatNext]_chatVars, NEW c \in Client, NEW u \in Client, Deliver(c, u)
    PROVE  AnswersInv'
<1> DEFINE h == handler[c]
<1>1. /\ HandlerFits(c, h, messages, online) /\ h.at = "send" /\ u \in h.todo
      /\ h.packet \in WidePacket /\ h \in WideHandler /\ h.then \in AfterSending /\ h.then # "send"
  BY DEF Deliver, Doing, ChatFits, HandlersFit, HandlerFits, SendingFits, PacketFits, LocalsFitIn, AfterSending
<1>2. handler'[c] = Sent(h, u) /\ \A d \in Client : d # c => handler'[d] = handler[d]
  BY TurnTurns DEF Deliver
<1>3. UNCHANGED told
  BY DEF Deliver, client
<1>4. UNCHANGED down \/ down' = [down EXCEPT ![u] = Append(@, h.packet)]
  BY DEF Deliver
<1>5. TellsTruth(h.packet)
  BY <1>1 DEF AnswersInv
<1>6. handler'[c].at = "send" => handler'[c].packet = h.packet
  BY <1>1, <1>2, SentHandler
<1>7. \A d \in Client : handler'[d].at = "send" => TellsTruth(handler'[d].packet)
  BY <1>2, <1>5, <1>6 DEF AnswersInv
<1> HIDE DEF h
<1>8. \A d \in Client : \A k \in DOMAIN down'[d] : TellsTruth(down'[d][k])
  BY <1>1, <1>4, <1>5, TruthTaken
<1>. QED BY <1>3, <1>7, <1>8, AnswersStay DEF AnswersInv

LEMMA AnswersPrivatelySent ==
    ASSUME ChatFits, AnswersInv, [ChatNext]_chatVars, NEW c \in Client, PrivateSend(c)
    PROVE  AnswersInv'
<1> DEFINE p == Of("PRIVATE_MESSAGE", Nothing, {handler[c].id})
           u == handler[c].target
           i == handler[c].id
<1>1. /\ UNCHANGED <<messages, online, told>> /\ handler[c].at = "private.send" /\ online \subseteq connections
  BY DEF PrivateSend, Doing, client, server, ChatFits, ChatTypes
<1>2. PICK outcome \in Outcome :
           /\ Tell(c, Of(outcome, Nothing, {i}), {c}, "receive")
           /\ \/ /\ outcome = "delivered" /\ down' = [down EXCEPT ![u] = Append(@, p)]
              \/ u \notin online /\ UNCHANGED down
  BY <1>1, PrivatelySent DEF Outcome, Reached
<1>3. /\ u \in Client /\ p \in WidePacket /\ i \in DOMAIN messages /\ messages[i].to = u
  BY <1>1, <1>2, AnswerFits DEF PacketFits
<1>4. p.type = "PRIVATE_MESSAGE" /\ p.ids = {i} /\ TellsTruth(p)
  BY DEF Of, TellsTruth, Outcome
<1> DEFINE a == Of(outcome, Nothing, {i})
<1>5. a.type = outcome /\ a.ids = {i}
  BY DEF Of
<1>6. handler'[c].packet = a /\ \A d \in Client : d # c => handler'[d] = handler[d]
  <2> HIDE DEF a
  <2>1. Tell(c, a, {c}, "receive") /\ "receive" \in AfterSending
    BY <1>2 DEF a, AfterSending
  <2>. QED BY <2>1, Told
<1> HIDE DEF p, a
<1>7. \A d \in Client : \A k \in DOMAIN down'[d] : TellsTruth(down'[d][k])
  BY <1>2, <1>3, <1>4, TruthTaken
<1>8. \/ u \notin online'
      \/ outcome = "delivered" /\ \E k \in DOMAIN down'[u] : down'[u][k] = p
  <2>1. CASE down' = [down EXCEPT ![u] = Append(@, p)]
    <3> HIDE DEF u, i
    <3>0. u \in Client /\ p \in WidePacket
      BY <1>3
    <3>1. Len(down[u]) \in Nat /\ DOMAIN down'[u] = 1 .. Len(down[u]) + 1 /\ down'[u][Len(down[u]) + 1] = p
      BY <2>1, <3>0, Taken
    <3>2. Len(down[u]) + 1 \in DOMAIN down'[u]
      BY <3>1
    <3>. QED BY <1>1, <1>2, <3>1, <3>2
  <2>. QED BY <1>1, <1>2, <2>1
<1>9. TellsTruth(handler[c].packet)'
  <2>1. i \in DOMAIN messages' /\ messages'[i].to = u
    BY <1>1, <1>3
  <2> HIDE DEF u, i
  <2>2. ASSUME NEW j, j = i PROVE MayTell(j, outcome)'
    BY <1>3, <1>4, <1>8, <2>1, <2>2 DEF MayTell
  <2>. QED BY <1>5, <1>6, <2>2 DEF TellsTruth
<1>. QED BY <1>1, <1>6, <1>7, <1>9, AnswersStay DEF AnswersInv

\* Only c's handler moves, and it is not to tell anybody what has become of a message.
NoAnswer(c) ==
    /\ \A d \in Client : d # c => handler'[d] = handler[d]
    /\ handler'[c].at = "send" => handler'[c].packet.type \notin Outcome

LEMMA ToldOther ==
    ASSUME ChatFits, NEW c \in Client, NEW packet, packet.type \notin Outcome, NEW recipients,
           NEW then \in AfterSending, Tell(c, packet, recipients, then)
    PROVE  NoAnswer(c)
<1>1. then # "send"
  BY DEF AfterSending
<1>2. CASE recipients = {}
  BY <1>1, <1>2, Told DEF NoAnswer
<1>3. CASE recipients # {}
  BY <1>3, Told DEF NoAnswer
<1>. QED BY <1>2, <1>3

LEMMA TellsOfNoMessage ==
    ASSUME ChatAssumption, ChatFits, NEW c \in Client,
           \/ Receive(c) \/ MessageSave(c) \/ PrivateSave(c) \/ MessageMembers(c)
           \/ JoinEnter(c) \/ JoinLeave(c) \/ JoinMembers(c) \/ JoinFetch(c)
           \/ LeaveLeave(c) \/ LeaveMembers(c) \/ HomeEnter(c)
           \/ HangUp(c) \/ ByeLeave(c) \/ ByeMembers(c) \/ ByeOnline(c) \/ ByeUnlock(c)
    PROVE  NoAnswer(c)
<1>1. ASSUME NEW packet, packet.type \notin Outcome, NEW recipients, NEW then \in AfterSending,
             Tell(c, packet, recipients, then)
      PROVE  NoAnswer(c)
  BY <1>1, ToldOther
<1>2. ASSUME NEW h, h.at # "send", Turn(c, h) PROVE NoAnswer(c)
  BY <1>2, TurnTurns DEF NoAnswer
<1>3. /\ "receive" \in AfterSending /\ "join.fetch" \in AfterSending /\ "home.enter" \in AfterSending
      /\ "bye.online" \in AfterSending /\ "bye.unlock" \in AfterSending /\ "leave.members" \in AfterSending
      /\ Notice.type \notin Outcome
  BY DEF AfterSending, Notice, Of, Outcome
<1>4. CASE MessageSave(c) \/ PrivateSave(c)
  BY <1>4, MessageSaved, PrivateSaved DEF NoAnswer
<1>5. CASE Receive(c)
  <2>1. ASSUME NEW stage \in {"message.save", "private.save", "join.enter", "leave.leave"},
               NEW room, NEW target,
               Turn(c, [Rest EXCEPT !.at = stage, !.room = room, !.target = target])
        PROVE  NoAnswer(c)
    <3>1. [Rest EXCEPT !.at = stage, !.room = room, !.target = target].at # "send"
      BY DEF Rest
    <3>. QED BY <1>2, <2>1, <3>1
  <2>. QED BY <1>1, <1>3, <1>5, <2>1, ReceivedHandler
<1>6. CASE JoinEnter(c)
  <2>1. Of("joined", handler[c].room, {}).type \notin Outcome
    BY DEF Of, Outcome
  <2>. QED BY <1>6, <2>1, EnteredHandler DEF NoAnswer
<1>7. CASE JoinLeave(c) \/ ByeLeave(c)
  <2>1. Proceed(c, "join.members") \/ Proceed(c, "bye.members")
    BY <1>7 DEF JoinLeave, ByeLeave
  <2>. QED BY <2>1 DEF NoAnswer, Proceed, ChatFits, ChatTypes, WideHandler
<1>8. CASE MessageMembers(c) \/ JoinFetch(c) \/ LeaveLeave(c)
  <2>1. \/ Tell(c, Of("MESSAGE", handler[c].room, {handler[c].id}), members[handler[c].room], "receive")
        \/ Tell(c, Of("ROOM_HISTORY", handler[c].room, History(handler[c].room)), {c}, "receive")
        \/ Tell(c, Of("left", handler[c].room, {}), {c}, "leave.members")
    BY <1>8 DEF MessageMembers, JoinFetch, LeaveLeave
  <2>2. /\ Of("MESSAGE", handler[c].room, {handler[c].id}).type \notin Outcome
        /\ Of("ROOM_HISTORY", handler[c].room, History(handler[c].room)).type \notin Outcome
        /\ Of("left", handler[c].room, {}).type \notin Outcome
    BY DEF Of, Outcome
  <2>. QED BY <1>1, <1>3, <2>1, <2>2
<1>9. CASE JoinMembers(c) \/ LeaveMembers(c) \/ ByeMembers(c) \/ ByeOnline(c)
  <2>1. \/ Tell(c, Notice, members[handler[c].room], "join.fetch")
        \/ Tell(c, Notice, members[handler[c].room], "home.enter")
        \/ Tell(c, Notice, members[handler[c].room], "bye.online")
        \/ Tell(c, Notice, connections, "bye.unlock")
    BY <1>9 DEF JoinMembers, LeaveMembers, ByeMembers, ByeOnline
  <2>. QED BY <1>1, <1>3, <2>1
<1>10. CASE HomeEnter(c) \/ HangUp(c) \/ ByeUnlock(c)
  <2>1. /\ Rest.at # "send" /\ [Rest EXCEPT !.at = "bye.leave", !.room = userRooms[c]].at # "send"
        /\ [Rest EXCEPT !.at = "gone"].at # "send"
    BY DEF Rest
  <2>. QED BY <1>2, <1>10, <2>1 DEF HomeEnter, HangUp, ByeUnlock
<1>. QED BY <1>4, <1>5, <1>6, <1>7, <1>8, <1>9, <1>10

LEMMA AnswersStep ==
    ASSUME ChatAssumption, ChatFits, AnswersInv, [ChatNext]_chatVars
    PROVE  AnswersInv'
<1>1. ASSUME UNCHANGED <<told, down, handler>> PROVE AnswersInv'
  BY <1>1, AnswersStay DEF AnswersInv
<1>2. CASE UNCHANGED chatVars
  BY <1>1, <1>2 DEF chatVars, client, sockets
<1>3. ASSUME NEW c \in Client, NEW p \in Requests(c), Type(c, p) PROVE AnswersInv'
  BY <1>1, <1>3 DEF Type, sockets
<1>4. ASSUME NEW c \in Client, SendPacket(c) PROVE AnswersInv'
  BY <1>1, <1>4 DEF SendPacket
<1>5. ASSUME NEW c \in Client, Serve(c) PROVE AnswersInv'
  <2>1. CASE (\E u \in Client : Deliver(c, u)) \/ PrivateSend(c)
    BY <2>1, AnswersDelivered, AnswersPrivatelySent
  <2>2. CASE \/ Receive(c) \/ MessageSave(c) \/ PrivateSave(c) \/ MessageMembers(c)
             \/ JoinEnter(c) \/ JoinLeave(c) \/ JoinMembers(c) \/ JoinFetch(c)
             \/ LeaveLeave(c) \/ LeaveMembers(c) \/ HomeEnter(c)
             \/ HangUp(c) \/ ByeLeave(c) \/ ByeMembers(c) \/ ByeOnline(c) \/ ByeUnlock(c)
    <3>1. UNCHANGED <<told, down>>
      BY <2>2 DEF Receive, MessageSave, PrivateSave, Save, MessageMembers, JoinEnter, JoinLeave,
                  JoinMembers, JoinFetch, LeaveLeave, LeaveMembers, HomeEnter, HangUp, ByeLeave,
                  ByeMembers, ByeOnline, ByeUnlock, client, sockets
    <3>. QED BY <2>2, <3>1, TellsOfNoMessage, AnswersQuiet DEF NoAnswer
  <2>. QED BY <1>5, <2>1, <2>2 DEF Serve
<1>. QED BY <1>2, <1>3, <1>4, <1>5, AnswersDisplayed, AnswersQuit DEF ChatNext, AllServed

------------------------------------------------------------------------------
(* Chat: what is owed is seen or on its way. *)

\* A message that was owed to d still is, if d stays in its room, and c's handler, which
\* alone moves, brings what it was to bring.
LEMMA OwedStays ==
    ASSUME ChatFits, [ChatNext]_chatVars, NEW c \in Client,
           \A b \in Client : b # c => handler'[b] = handler[b],
           NEW d \in online', NEW i, IsOwed(d, i),
           d \in members'[messages[i].room],
           Brings(c, handler[c], d, i, messages[i].room)
               => InSocket(d, i)' \/ Brings(c, handler'[c], d, i, messages[i].room)
    PROVE  IsOwed(d, i)'
<1>1. i \in DOMAIN messages' /\ messages'[i] = messages[i] /\ Kept(d)
  BY KeptStep DEF IsOwed, MessagesGrow
<1>2. i \in Seen(d) => i \in Seen(d)'
  BY <1>1 DEF Kept
<1>3. InSocket(d, i) => i \in Seen(d)' \/ InSocket(d, i)'
  BY <1>1 DEF Kept, InSocket, Bringing, Speech
<1>4. ASSUME NEW b \in Client, Brings(b, handler[b], d, i, messages[i].room)
      PROVE  InSocket(d, i)' \/ \E e \in Client : Brings(e, handler'[e], d, i, messages[i].room)
  BY <1>4
<1>5. \/ i \in Seen(d)' \/ InSocket(d, i)'
      \/ \E b \in Client : Brings(b, handler'[b], d, i, messages'[i].room)
  BY <1>1, <1>2, <1>3, <1>4 DEF IsOwed
<1>6. messages'[i].room \in Room /\ d \in members'[messages'[i].room]
  BY <1>1 DEF IsOwed
<1>. QED BY <1>1, <1>5, <1>6 DEF IsOwed

BringsSomething == {"send", "message.members", "join.leave", "join.members", "join.fetch"}

LEMMA BringsNothing ==
    ASSUME NEW b, NEW h, h.at \notin BringsSomething, NEW d, NEW i, NEW room
    PROVE  ~Brings(b, h, d, i, room)
  BY DEF Brings, BringsSomething, HistoryComing, Coming

\* A step that adds no claim.
LEMMA OwedKept ==
    ASSUME ChatFits, OwedInv, [ChatNext]_chatVars, NEW c \in Client, UNCHANGED owed,
           \A b \in Client : b # c => handler'[b] = handler[b],
           \A room \in Room : \A d \in online' : d \in members[room] => d \in members'[room],
           \A d \in online' : \A i \in owed[d] :
               Brings(c, handler[c], d, i, messages[i].room)
                   => InSocket(d, i)' \/ Brings(c, handler'[c], d, i, messages[i].room)
    PROVE  OwedInv'
<1>1. ASSUME NEW d \in online', NEW i \in owed'[d] PROVE IsOwed(d, i)'
  <2>1. d \in online /\ i \in owed[d] /\ IsOwed(d, i)
    BY KeptStep DEF OwedInv
  <2>2. d \in members'[messages[i].room]
    BY <2>1 DEF IsOwed
  <2>. QED BY <2>1, <2>2, OwedStays
<1>. QED BY <1>1 DEF OwedInv

LEMMA OwedSame ==
    ASSUME ChatFits, OwedInv, [ChatNext]_chatVars, NEW c \in Client, UNCHANGED <<owed, members, handler>>
    PROVE  OwedInv'
<1>1. \A room \in Room : \A d \in online' : d \in members[room] => d \in members'[room]
  OBVIOUS
<1>2. \A b \in Client : handler'[b] = handler[b]
  OBVIOUS
<1>. QED BY <1>1, <1>2, OwedKept

LEMMA OwedDelivered ==
    ASSUME ChatFits, OwedInv, [ChatNext]_chatVars, NEW c \in Client, NEW u \in Client, Deliver(c, u)
    PROVE  OwedInv'
<1> DEFINE h == handler[c]
<1>1. /\ HandlerFits(c, h, messages, online) /\ h.at = "send" /\ u \in h.todo
      /\ h.packet \in WidePacket /\ h \in WideHandler /\ h.then \in AfterSending
  BY DEF Deliver, Doing, ChatFits, HandlersFit, HandlerFits, SendingFits, PacketFits, LocalsFitIn
<1>2. handler'[c] = Sent(h, u) /\ \A d \in Client : d # c => handler'[d] = handler[d]
  BY TurnTurns DEF Deliver
<1>3. UNCHANGED owed /\ UNCHANGED members /\ UNCHANGED online /\ online \subseteq connections
  BY DEF Deliver, client, server, ChatFits, ChatTypes
<1>4. ASSUME NEW d \in online', NEW i, NEW room, Brings(c, h, d, i, room)
      PROVE  InSocket(d, i)' \/ Brings(c, handler'[c], d, i, room)
  <2>1. CASE Bringing(h.packet, i) /\ d = u
    <3>1. down' = [down EXCEPT ![u] = Append(@, h.packet)]
      BY <1>3, <2>1 DEF Deliver, Reached
    <3> HIDE DEF h
    <3>2. Len(down[u]) \in Nat /\ DOMAIN down'[u] = 1 .. Len(down[u]) + 1 /\ down'[u][Len(down[u]) + 1] = h.packet
      BY <1>1, <3>1, Taken
    <3>3. Len(down[u]) + 1 \in DOMAIN down'[u]
      BY <3>2
    <3>. QED BY <2>1, <3>2, <3>3 DEF InSocket
  <2>2. CASE Bringing(h.packet, i) /\ d \in h.todo /\ d # u
    <3>1. h.todo # {u}
      BY <2>2
    <3>2. /\ handler'[c].at = "send" /\ handler'[c].packet = h.packet /\ handler'[c].todo = h.todo \ {u}
      BY <1>1, <1>2, <3>1, SentHandler
    <3>. QED BY <2>2, <3>2 DEF Brings
  <2>3. CASE d = c /\ HistoryComing(h, room)
    <3>1. h.then \in {"join.leave", "join.members", "join.fetch"} /\ h.room = room
      BY <1>1, <2>3 DEF HistoryComing, Coming
    <3>2. Coming(handler'[c]) = h.then /\ handler'[c].room = h.room
      BY <1>1, <1>2, <3>1, SentHandler
    <3>. QED BY <2>3, <3>1, <3>2 DEF Brings, HistoryComing
  <2>. QED BY <1>1, <1>4, <2>1, <2>2, <2>3 DEF Brings
<1>. QED BY <1>2, <1>3, <1>4, OwedKept

LEMMA OwedSaved ==
    ASSUME ChatFits, OwedInv, [ChatNext]_chatVars, NEW c \in Client, MessageSave(c)
    PROVE  OwedInv'
<1>0. PICK n \in Nat : n = Len(messages) + 1
  BY MessageSaved
<1>1. /\ n \in DOMAIN messages' /\ messages'[n].room = handler[c].room
      /\ handler[c].at = "message.save" /\ handler[c].room \in Room
      /\ handler'[c].at = "message.members" /\ handler'[c].id = n
      /\ \A d \in Client : d # c => handler'[d] = handler[d]
  <2>1. /\ DOMAIN messages' = 1 .. n /\ messages'[n] = [by |-> c, room |-> handler[c].room, to |-> Nothing]
        /\ handler[c].at = "message.save" /\ handler[c].room \in Room
        /\ handler'[c].at = "message.members" /\ handler'[c].id = n
        /\ \A d \in Client : d # c => handler'[d] = handler[d]
    BY <1>0, MessageSaved
  <2>2. n \in 1 .. n
    BY <1>0, MessageSaved
  <2>. QED BY <2>1, <2>2
<1>2. UNCHANGED members /\ online' \subseteq Client
  <2>1. UNCHANGED members
    BY DEF MessageSave, Save
  <2>2. online' \subseteq Client
    BY KeptStep
  <2>. QED BY <2>1, <2>2
<1>3. ASSUME NEW d \in online', NEW i \in owed'[d]
      PROVE  i \in owed[d] \/ (i = n /\ d \in members[handler[c].room])
  BY <1>0, <1>2, <1>3 DEF MessageSave
<1>4. ASSUME NEW d \in online', NEW i \in owed[d] PROVE IsOwed(d, i)'
  <2>1. IsOwed(d, i)
    BY KeptStep DEF OwedInv
  <2>2. d \in members'[messages[i].room]
    BY <1>2, <2>1 DEF IsOwed
  <2>3. ~Brings(c, handler[c], d, i, messages[i].room)
    BY <1>1, BringsNothing DEF BringsSomething
  <2>. QED BY <1>1, <2>1, <2>2, <2>3, OwedStays
<1>5. ASSUME NEW d \in online', d \in members[handler[c].room] PROVE IsOwed(d, n)'
  <2>1. Brings(c, handler'[c], d, n, messages'[n].room)
    BY <1>1 DEF Brings
  <2>. QED BY <1>1, <1>2, <1>5, <2>1 DEF IsOwed
<1>. QED BY <1>3, <1>4, <1>5 DEF OwedInv

LEMMA OwedToMembers ==
    ASSUME ChatFits, OwedInv, [ChatNext]_chatVars, NEW c \in Client, MessageMembers(c)
    PROVE  OwedInv'
<1> DEFINE p == Of("MESSAGE", handler[c].room, {handler[c].id})
<1>1. /\ handler[c].at = "message.members" /\ UNCHANGED <<owed, members>>
      /\ Tell(c, p, members[handler[c].room], "receive")
  BY DEF MessageMembers, Doing, server
<1>2. /\ messages[handler[c].id].room = handler[c].room
      /\ p.type = "MESSAGE" /\ p.ids = {handler[c].id}
  BY <1>1 DEF ChatFits, HandlersFit, HandlerFits, SavedFits, Of
<1> HIDE DEF p
<1>3. /\ \A b \in Client : b # c => handler'[b] = handler[b]
      /\ members[handler[c].room] # {} =>
            /\ handler'[c].at = "send" /\ handler'[c].packet = p
            /\ handler'[c].todo = members[handler[c].room]
  BY <1>1, Told DEF AfterSending
<1>4. ASSUME NEW d \in online', NEW i \in owed[d], Brings(c, handler[c], d, i, messages[i].room)
      PROVE  Brings(c, handler'[c], d, i, messages[i].room)
  <2>1. i = handler[c].id
    BY <1>1, <1>4 DEF Brings, HistoryComing, Coming
  <2>2. IsOwed(d, i)
    BY KeptStep DEF OwedInv
  <2>3. d \in members[handler[c].room]
    BY <1>2, <2>1, <2>2 DEF IsOwed
  <2>. QED BY <1>2, <1>3, <2>1, <2>3 DEF Brings, Bringing
<1>5. \A room \in Room : \A d \in online' : d \in members[room] => d \in members'[room]
  BY <1>1
<1>. QED BY <1>1, <1>3, <1>4, <1>5, OwedKept

LEMMA OwedHistory ==
    ASSUME ChatFits, OwedInv, [ChatNext]_chatVars, NEW c \in Client, JoinMembers(c) \/ JoinFetch(c)
    PROVE  OwedInv'
<1>1. UNCHANGED <<owed, members>>
  BY DEF JoinMembers, JoinFetch, server
<1>2. \A room \in Room : \A d \in online' : d \in members[room] => d \in members'[room]
  BY <1>1
<1>3. ASSUME NEW d \in online', NEW i \in owed[d], Brings(c, handler[c], d, i, messages[i].room)
      PROVE  i \in DOMAIN messages /\ d = c /\ handler[c].room = messages[i].room
  <2>1. handler[c].at \in {"join.members", "join.fetch"}
    BY DEF JoinMembers, JoinFetch, Doing
  <2>2. IsOwed(d, i)
    BY KeptStep DEF OwedInv
  <2>. QED BY <1>3, <2>1, <2>2 DEF Brings, HistoryComing, IsOwed
<1>4. CASE JoinMembers(c)
  <2>1. Tell(c, Notice, members[handler[c].room], "join.fetch")
    BY <1>4 DEF JoinMembers
  <2>2. /\ \A b \in Client : b # c => handler'[b] = handler[b]
        /\ handler'[c].room = handler[c].room
        /\ \/ handler'[c].at = "join.fetch"
           \/ handler'[c].at = "send" /\ handler'[c].then = "join.fetch"
    BY <2>1, Told DEF AfterSending
  <2>3. ASSUME NEW d \in online', NEW i \in owed[d], Brings(c, handler[c], d, i, messages[i].room)
        PROVE  Brings(c, handler'[c], d, i, messages[i].room)
    BY <1>3, <2>2, <2>3 DEF Brings, HistoryComing, Coming
  <2>. QED BY <1>1, <1>2, <2>2, <2>3, OwedKept
<1>5. CASE JoinFetch(c)
  <2> DEFINE p == Of("ROOM_HISTORY", handler[c].room, History(handler[c].room))
  <2>1. Tell(c, p, {c}, "receive")
    BY <1>5 DEF JoinFetch
  <2>2. p.type = "ROOM_HISTORY" /\ p.ids = Said(handler[c].room)
    BY DEF Of, History
  <2> HIDE DEF p
  <2>3. /\ \A b \in Client : b # c => handler'[b] = handler[b]
        /\ handler'[c].at = "send" /\ handler'[c].packet = p /\ handler'[c].todo = {c}
    BY <2>1, Told DEF AfterSending
  <2>4. ASSUME NEW d \in online', NEW i \in owed[d], Brings(c, handler[c], d, i, messages[i].room)
        PROVE  Brings(c, handler'[c], d, i, messages[i].room)
    BY <1>3, <2>2, <2>3, <2>4 DEF Brings, Bringing, Said
  <2>. QED BY <1>1, <1>2, <2>3, <2>4, OwedKept
<1>. QED BY <1>4, <1>5

\* Nothing is brought by the handlers that do these steps.
LEMMA OwedQuiet ==
    ASSUME ChatFits, OwedInv, [ChatNext]_chatVars, NEW c \in Client, UNCHANGED owed,
           handler[c].at \notin BringsSomething,
           \A b \in Client : b # c => handler'[b] = handler[b],
           \A room \in Room : \A d \in online' : d \in members[room] => d \in members'[room]
    PROVE  OwedInv'
  BY BringsNothing, OwedKept

LEMMA OwedEntered ==
    ASSUME ChatFits, OwedInv, [ChatNext]_chatVars, NEW c \in Client, JoinEnter(c)
    PROVE  OwedInv'
<1>1. /\ handler[c].at = "join.enter" /\ handler[c].room \in Room
      /\ handler'[c].at = "send" /\ handler'[c].then = "join.leave" /\ handler'[c].room = handler[c].room
      /\ \A d \in Client : d # c => handler'[d] = handler[d]
  BY EnteredHandler
<1>2. /\ \A room \in Room : members[room] \subseteq members'[room]
      /\ c \in members'[handler[c].room] /\ UNCHANGED messages
      /\ \A d \in Client : d # c => owed'[d] = owed[d]
      /\ owed'[c] = owed[c] \cup Said(handler[c].room)
  BY <1>1 DEF JoinEnter, ChatFits, ChatTypes
<1>3. ASSUME NEW d \in online', NEW i \in owed[d] PROVE IsOwed(d, i)'
  <2>1. IsOwed(d, i)
    BY KeptStep DEF OwedInv
  <2>2. d \in members'[messages[i].room]
    BY <1>2, <2>1 DEF IsOwed
  <2>3. ~Brings(c, handler[c], d, i, messages[i].room)
    BY <1>1, BringsNothing DEF BringsSomething
  <2>. QED BY <1>1, <2>1, <2>2, <2>3, OwedStays
<1>4. ASSUME NEW i \in Said(handler[c].room) PROVE IsOwed(c, i)'
  <2>1. i \in DOMAIN messages' /\ messages'[i].room = handler[c].room
    BY <1>2, <1>4 DEF Said
  <2>2. Brings(c, handler'[c], c, i, messages'[i].room)
    BY <1>1, <2>1 DEF Brings, HistoryComing, Coming
  <2>. QED BY <1>1, <1>2, <2>1, <2>2 DEF IsOwed
<1>5. online' \subseteq Client
  BY KeptStep
<1>. QED BY <1>2, <1>3, <1>4, <1>5 DEF OwedInv

\* c is taken out of a room, and its claims to what was said there with it.
LEMMA OwedAway ==
    ASSUME ChatFits, OwedInv, [ChatNext]_chatVars, NEW c \in Client, NEW room \in Room,
           members' = [members EXCEPT ![room] = @ \ {c}], Away(c, room),
           \A b \in Client : b # c => handler'[b] = handler[b],
           \A d \in online' : \A i \in owed[d] :
               Brings(c, handler[c], d, i, messages[i].room) => Brings(c, handler'[c], d, i, messages[i].room)
    PROVE  OwedInv'
<1>1. /\ \A r \in Room : r # room => members'[r] = members[r]
      /\ members'[room] = members[room] \ {c}
      /\ \A d \in Client : d # c => owed'[d] = owed[d]
      /\ owed'[c] = owed[c] \ Said(room)
  BY DEF Away, ChatFits, ChatTypes
<1>2. ASSUME NEW d \in online', NEW i \in owed'[d] PROVE IsOwed(d, i)'
  <2>1. d \in Client /\ i \in owed[d] /\ IsOwed(d, i)
    BY <1>1, KeptStep DEF OwedInv
  <2>2. d \in members'[messages[i].room]
    BY <1>1, <2>1 DEF IsOwed, Said
  <2>. QED BY <2>1, <2>2, OwedStays
<1>. QED BY <1>2 DEF OwedInv

\* Steps that take c out of a room, or put it in one.
LEMMA OwedMoved ==
    ASSUME ChatFits, OwedInv, [ChatNext]_chatVars, NEW c \in Client,
           JoinLeave(c) \/ LeaveLeave(c) \/ HomeEnter(c) \/ ByeLeave(c)
    PROVE  OwedInv'
<1>1. CASE JoinLeave(c)
  <2>1. /\ handler[c].at = "join.leave" /\ handler[c].old \in Room /\ handler[c] \in WideHandler
        /\ handler \in [Client -> WideHandler]
    BY <1>1 DEF JoinLeave, Doing, ChatFits, ChatTypes, HandlersFit, HandlerFits, LocalsFitIn, Coming
  <2>2. /\ \A b \in Client : b # c => handler'[b] = handler[b]
        /\ handler'[c].at = "join.members" /\ handler'[c].room = handler[c].room
    BY <1>1, <2>1 DEF JoinLeave, Proceed, WideHandler
  <2>3. ASSUME NEW d, NEW i, NEW room, Brings(c, handler[c], d, i, room)
        PROVE  Brings(c, handler'[c], d, i, room)
    BY <2>1, <2>2, <2>3 DEF Brings, HistoryComing, Coming
  <2>4. CASE handler[c].old # handler[c].room
    <3>1. members' = [members EXCEPT ![handler[c].old] = @ \ {c}] /\ Away(c, handler[c].old)
      BY <1>1, <2>4 DEF JoinLeave
    <3>. QED BY <2>1, <2>2, <2>3, <3>1, OwedAway
  <2>5. CASE handler[c].old = handler[c].room
    <3>1. UNCHANGED members /\ UNCHANGED owed
      BY <1>1, <2>5 DEF JoinLeave
    <3>2. \A room \in Room : \A d \in online' : d \in members[room] => d \in members'[room]
      BY <3>1
    <3>. QED BY <2>2, <2>3, <3>1, <3>2, OwedKept
  <2>. QED BY <2>4, <2>5
<1>2. CASE LeaveLeave(c)
  <2>1. /\ handler[c].at = "leave.leave" /\ handler[c].room \in Room
        /\ members' = [members EXCEPT ![handler[c].room] = @ \ {c}] /\ Away(c, handler[c].room)
        /\ Tell(c, Of("left", handler[c].room, {}), {c}, "leave.members")
    BY <1>2, RoomOfHandler DEF LeaveLeave, Doing, Coming, WithRoom
  <2>2. \A b \in Client : b # c => handler'[b] = handler[b]
    BY <2>1, Told DEF AfterSending
  <2>3. \A d, i, room : ~Brings(c, handler[c], d, i, room)
    BY <2>1, BringsNothing DEF BringsSomething
  <2>. QED BY <2>1, <2>2, <2>3, OwedAway
<1>3. CASE HomeEnter(c)
  <2>1. /\ handler[c].at \notin BringsSomething /\ UNCHANGED owed
        /\ members' = [members EXCEPT ![Global] = @ \cup {c}]
        /\ \A b \in Client : b # c => handler'[b] = handler[b]
    BY <1>3, TurnTurns DEF HomeEnter, Doing, BringsSomething
  <2>2. \A room \in Room : members[room] \subseteq members'[room]
    BY <2>1 DEF ChatFits, ChatTypes
  <2>. QED BY <2>1, <2>2, OwedQuiet
<1>4. CASE ByeLeave(c)
  <2>1. /\ handler[c].at = "bye.leave" /\ UNCHANGED owed
        /\ members' = [members EXCEPT ![handler[c].room] = @ \ {c}]
        /\ Proceed(c, "bye.members")
    BY <1>4 DEF ByeLeave, Doing
  <2>2. handler[c].at \notin BringsSomething /\ \A b \in Client : b # c => handler'[b] = handler[b]
    BY <2>1 DEF Proceed, ChatFits, ChatTypes, BringsSomething
  <2>3. c \notin online'
    BY <2>1, KeptStep DEF ChatFits, HandlersFit, HandlerFits, LocalsFitIn, Coming, Bye
  <2>4. \A room \in Room : \A d \in online' : d \in members[room] => d \in members'[room]
    BY <2>1, <2>3 DEF ChatFits, ChatTypes
  <2>. QED BY <2>1, <2>2, <2>4, OwedQuiet
<1>. QED BY <1>1, <1>2, <1>3, <1>4

\* Steps of handlers that bring nothing, and leave rooms and claims alone.
LEMMA OwedUntouched ==
    ASSUME ChatAssumption, ChatFits, OwedInv, [ChatNext]_chatVars, NEW c \in Client,
           \/ Receive(c) \/ PrivateSave(c) \/ LeaveMembers(c)
           \/ HangUp(c) \/ ByeMembers(c) \/ ByeOnline(c) \/ ByeUnlock(c)
    PROVE  OwedInv'
<1>1. UNCHANGED owed /\ UNCHANGED members
  BY DEF Receive, PrivateSave, Save, LeaveMembers, HangUp, ByeMembers, ByeOnline, ByeUnlock, server
<1>2. handler[c].at \notin BringsSomething
  BY DEF Receive, PrivateSave, LeaveMembers, HangUp, ByeMembers, ByeOnline, ByeUnlock, Doing, BringsSomething
<1>3. \A b \in Client : b # c => handler'[b] = handler[b]
  BY TellsOfNoMessage DEF NoAnswer
<1>4. \A room \in Room : \A d \in online' : d \in members[room] => d \in members'[room]
  BY <1>1
<1>. QED BY <1>1, <1>2, <1>3, <1>4, OwedQuiet

LEMMA OwedPrivatelySent ==
    ASSUME ChatFits, OwedInv, [ChatNext]_chatVars, NEW c \in Client, PrivateSend(c)
    PROVE  OwedInv'
<1>1. UNCHANGED owed /\ UNCHANGED members /\ handler[c].at \notin BringsSomething
  BY DEF PrivateSend, Doing, server, BringsSomething
<1>2. PICK outcome \in Outcome : Tell(c, Of(outcome, Nothing, {handler[c].id}), {c}, "receive")
  BY PrivatelySent DEF Outcome
<1>3. \A b \in Client : b # c => handler'[b] = handler[b]
  BY <1>2, Told DEF AfterSending
<1>4. \A room \in Room : \A d \in online' : d \in members[room] => d \in members'[room]
  BY <1>1
<1>. QED BY <1>1, <1>3, <1>4, OwedQuiet

LEMMA OwedStep ==
    ASSUME ChatAssumption, ChatFits, OwedInv, [ChatNext]_chatVars
    PROVE  OwedInv'
<1>1. CASE UNCHANGED chatVars
  BY <1>1 DEF chatVars, client, sockets, server, OwedInv, IsOwed, InSocket, Seen
<1>2. ASSUME NEW c \in Client, NEW p \in Requests(c), Type(c, p) PROVE OwedInv'
  BY <1>2, OwedSame DEF Type, server
<1>3. ASSUME NEW c \in Client, SendPacket(c) \/ Quit(c) \/ Display(c) PROVE OwedInv'
  BY <1>3, OwedSame DEF SendPacket, Quit, Display, server
<1>4. ASSUME NEW c \in Client, Serve(c) PROVE OwedInv'
  BY <1>4, OwedDelivered, OwedSaved, OwedToMembers, OwedHistory, OwedEntered, OwedMoved, OwedUntouched,
     OwedPrivatelySent DEF Serve
<1>. QED BY <1>1, <1>2, <1>3, <1>4 DEF ChatNext, AllServed

------------------------------------------------------------------------------
(* Chat: the theorems. *)

LEMMA ChatInitInv == ChatAssumption /\ ChatInit => ChatInv
<1> SUFFICES ASSUME ChatAssumption, ChatInit PROVE ChatInv
  OBVIOUS
<1>1. /\ userRooms \in [Client -> Room] /\ here = userRooms /\ online = Client
      /\ \A c \in Client : /\ down[c] = <<>> /\ live[c] = <<>> /\ told[c] = {} /\ owed[c] = {}
                           /\ handler[c] = Rest
  BY DEF ChatInit
<1>2. \A c \in Client : handler[c].at = "receive"
  BY <1>1 DEF Rest
<1>3. InOrderSaid /\ LiveIsOlder /\ DownIsInOrder
  BY <1>1 DEF InOrderSaid, LiveIsOlder, DownIsInOrder
<1>4. WaitingIsNewer
  BY <1>2 DEF WaitingIsNewer, Waiting
<1>5. RoomInv
  BY <1>1, <1>2 DEF RoomInv, RoomIsTold, Announcing
<1>6. AnswersInv
  BY <1>1, <1>2 DEF AnswersInv
<1>7. OwedInv
  BY <1>1 DEF OwedInv
<1>. QED BY <1>3, <1>4, <1>5, <1>6, <1>7, ChatInitFits DEF ChatInv, OrderInv

\* What service.py's handlers, the table of messages and the terminal client keep between
\* them: locals that fit, messages in the order of their rows, a last word on the room that
\* is right, answers that are true, and something under way for everything owed.
THEOREM ChatInvariant == ChatSpec => []ChatInv
<1>1. ChatInit => ChatInv
  BY ChatAssumption, ChatInitInv
<1>2. ChatInv /\ [ChatNext]_chatVars => ChatInv'
  <2> SUFFICES ASSUME ChatInv, [ChatNext]_chatVars PROVE ChatInv'
    OBVIOUS
  <2>1. ChatFits'
    BY ChatAssumption, ChatFitsStep DEF ChatInv
  <2>2. OrderInv' /\ RoomInv' /\ AnswersInv' /\ OwedInv'
    BY ChatAssumption, OrderStep, RoomStep, AnswersStep, OwedStep DEF ChatInv
  <2>. QED BY <2>1, <2>2 DEF ChatInv
<1>. QED BY <1>1, <1>2, PTL DEF ChatSpec

\* client_app.py shows the messages of one speaker in the order in which service.py saved
\* them, and none of them twice, whatever the threads that bring them wait for.
THEOREM OneSpeakerInOrder == ChatSpec => []InOrderSaid
<1>1. ChatInv => InOrderSaid
  BY DEF ChatInv, OrderInv
<1>. QED BY <1>1, ChatInvariant, PTL

\* When a client has had every answer, current_room of client_app.py is the room in which
\* service.py's user_rooms has it, or one that it asked for and that does not exist.
THEOREM ClientAndServerAgree == ChatSpec => []RoomAgrees
<1>1. ChatInv => RoomAgrees
  <2> SUFFICES ASSUME ChatInv, NEW c \in online, Unoccupied(c), down[c] = <<>>
               PROVE  here[c] \in {userRooms[c], Nowhere}
    BY DEF RoomAgrees
  <2>1. RoomIsTold(c)
    BY DEF ChatInv, RoomInv
  <2>2. ~Announcing(handler[c])
    BY DEF Unoccupied, Announcing
  <2>3. ~Joining(c)
    BY DEF Unoccupied, Joining
  <2>. QED BY <2>1, <2>2, <2>3 DEF RoomIsTold
<1>. QED BY <1>1, ChatInvariant, PTL

\* What handle_private_message tells a sender is true: "delivered" only of what has been
\* shown, is in the addressee's socket, or was sent to one who has quit; "stored" only of
\* what was sent to one who has quit.
THEOREM AnswersAreTrue == ChatSpec => []DeliveredIsSeen
<1>1. ChatInv => DeliveredIsSeen
  <2> SUFFICES ASSUME ChatInv, NEW c \in Client, NEW i \in Id, NEW outcome \in {"delivered", "stored"},
                      <<i, outcome>> \in told[c]
               PROVE  \/ messages[i].to \notin online
                      \/ /\ outcome = "delivered"
                         /\ \/ i \in Seen(messages[i].to)
                            \/ \E k \in DOMAIN down[messages[i].to] : down[messages[i].to][k].ids = {i}
    BY DEF DeliveredIsSeen
  <2>1. MayTell(i, outcome)
    BY DEF ChatInv, AnswersInv
  <2>. QED BY <2>1 DEF MayTell
<1>. QED BY <1>1, ChatInvariant, PTL

\* When service.py's threads have nothing left to send and a client has read its socket, it
\* has seen every message of its room since it came, and those of before: a message saved
\* while handle_join_room is under way falls neither between the history and the members,
\* nor between two lists of members.
THEOREM NothingIsMissed == ChatSpec => []NothingMissed
<1>1. ChatInv => NothingMissed
  <2> SUFFICES ASSUME ChatInv, \A c \in Client : handler[c].at \in {"receive", "gone"},
                      NEW c \in online, down[c] = <<>>, NEW i \in owed[c]
               PROVE  i \in Seen(c)
    BY DEF NothingMissed
  <2>1. IsOwed(c, i)
    BY DEF ChatInv, OwedInv
  <2>2. ~InSocket(c, i)
    BY DEF InSocket
  <2>3. \A b \in Client : ~Brings(b, handler[b], c, i, messages[i].room)
    BY BringsNothing DEF BringsSomething
  <2>. QED BY <2>1, <2>2, <2>3 DEF IsOwed
<1>. QED BY <1>1, ChatInvariant, PTL
------------------------------------------------------------------------------
(* Chat: ChatTypeOK.  Messages are numbered up to what has been asked for, and are in the   *)
(* table before anybody is told of them; sockets hold what they can.                       *)

\* What a packet, a handler or a client knows of are rows of the table.
HandlerKnows(h, ms) ==
    /\ h.id \in DOMAIN ms \cup {Nothing}
    /\ IF h.at = "send" THEN h.packet.ids \subseteq DOMAIN ms ELSE h.packet = Nothing

HandlersKnow == \A c \in Client : HandlerKnows(handler[c], messages)
PacketsKnown == \A c \in Client : \A k \in DOMAIN down[c] : down[c][k].ids \subseteq DOMAIN messages
ClientsKnow == \A c \in Client : past[c] \subseteq DOMAIN messages /\ owed[c] \subseteq DOMAIN messages

OnlyKnown == HandlersKnow /\ PacketsKnown /\ ClientsKnow

SocketsHold == \A c \in Client : Len(up[c]) <= Buffer /\ Len(down[c]) <= Buffer

\* Everything somebody has asked for that is, or may become, a row: it is being typed, in a
\* socket, with a handler that is to save it, or saved; and in one of these places only.
Saving(h) == h.at \in {"message.save", "private.save"}

Rows == {<<"row", i, 0>> : i \in DOMAIN messages}
Typing == {<<"typed", c, 0>> : c \in {d \in Client : typed[d] # Nothing}}
Underway == UNION {{<<"up", c, k>> : k \in DOMAIN up[c]} : c \in Client}
Handled == {<<"handler", c, 0>> : c \in {d \in Client : Saving(handler[d])}}
Ledger == Rows \cup Typing \cup Underway \cup Handled

SavedOnce ==
    /\ IsFiniteSet(Ledger) /\ Cardinality(Ledger) <= asked
    /\ asked \in Nat /\ asked <= MaxAsked

CountInv == OnlyKnown /\ SocketsHold /\ SavedOnce

LEMMA NoNewEntry ==
    ASSUME SavedOnce, Ledger' \subseteq Ledger, asked' = asked
    PROVE  SavedOnce'
<1>1. IsFiniteSet(Ledger') /\ Cardinality(Ledger') <= Cardinality(Ledger)
  BY FS_Subset DEF SavedOnce
<1>2. Cardinality(Ledger) \in Nat /\ Cardinality(Ledger') \in Nat
  BY <1>1, FS_CardinalityType DEF SavedOnce
<1>. QED BY <1>1, <1>2 DEF SavedOnce

\* A set with one element more, or with one in another's place.
LEMMA OneMore ==
    ASSUME NEW S, IsFiniteSet(S), NEW y, NEW T \in SUBSET (S \cup {y})
    PROVE  IsFiniteSet(T) /\ Cardinality(T) <= Cardinality(S) + 1
<1>1. /\ IsFiniteSet(S \cup {y}) /\ Cardinality(S) \in Nat
      /\ Cardinality(S \cup {y}) = Cardinality(S) \/ Cardinality(S \cup {y}) = Cardinality(S) + 1
  BY FS_AddElement, FS_CardinalityType
<1>2. IsFiniteSet(T) /\ Cardinality(T) <= Cardinality(S \cup {y})
  BY <1>1, FS_Subset
<1>3. Cardinality(T) \in Nat
  BY <1>2, FS_CardinalityType
<1>. QED BY <1>1, <1>2, <1>3

LEMMA OneForAnother ==
    ASSUME NEW S, IsFiniteSet(S), NEW x \in S, NEW y, NEW T \in SUBSET ((S \ {x}) \cup {y})
    PROVE  IsFiniteSet(T) /\ Cardinality(T) <= Cardinality(S)
<1>1. IsFiniteSet(S \ {x}) /\ Cardinality(S \ {x}) = Cardinality(S) - 1 /\ Cardinality(S) \in Nat
  BY FS_RemoveElement, FS_CardinalityType
<1>2. IsFiniteSet(T) /\ Cardinality(T) <= Cardinality(S \ {x}) + 1
  BY <1>1, OneMore
<1>3. Cardinality(T) \in Nat
  BY <1>2, FS_CardinalityType
<1>. QED BY <1>1, <1>2, <1>3

LEMMA EntryMade ==
    ASSUME SavedOnce, ChatAssumption, NEW y, Ledger' \subseteq Ledger \cup {y},
           asked < MaxAsked, asked' = asked + 1
    PROVE  SavedOnce'
<1>1. IsFiniteSet(Ledger') /\ Cardinality(Ledger') <= Cardinality(Ledger) + 1
  BY OneMore DEF SavedOnce
<1>2. Cardinality(Ledger) \in Nat /\ Cardinality(Ledger') \in Nat
  BY <1>1, FS_CardinalityType DEF SavedOnce
<1>. QED BY <1>1, <1>2, ChatAssumption DEF SavedOnce, ChatAssumption

LEMMA EntryMoves ==
    ASSUME SavedOnce, NEW x \in Ledger, NEW y, Ledger' \subseteq (Ledger \ {x}) \cup {y}, asked' = asked
    PROVE  SavedOnce'
<1>1. IsFiniteSet(Ledger') /\ Cardinality(Ledger') <= Cardinality(Ledger)
  BY OneForAnother DEF SavedOnce
<1>2. Cardinality(Ledger) \in Nat /\ Cardinality(Ledger') \in Nat
  BY <1>1, FS_CardinalityType DEF SavedOnce
<1>. QED BY <1>1, <1>2 DEF SavedOnce

\* There are no more rows than entries.
LEMMA RowsAreAsked ==
    ASSUME SavedOnce, messages \in Seq(Message), ChatAssumption
    PROVE  DOMAIN messages \subseteq Id
<1> DEFINE n == Len(messages)
           f == [i \in 1 .. n |-> <<"row", i, 0>>]
<1>1. n \in Nat /\ DOMAIN messages = 1 .. n
  OBVIOUS
<1>2. \A i \in 1 .. n : <<"row", i, 0>> \in Ledger
  BY <1>1 DEF Ledger, Rows
<1>3. f \in Injection(1 .. n, Ledger)
  BY <1>2 DEF Injection, IsInjective
<1>4. Cardinality(1 .. n) <= Cardinality(Ledger)
  BY <1>3, FS_Injection DEF SavedOnce
<1>5. Cardinality(1 .. n) = n
  BY <1>1, FS_Interval
<1>6. Cardinality(Ledger) \in Nat
  BY FS_CardinalityType DEF SavedOnce
<1>7. n <= MaxAsked
  BY <1>1, <1>4, <1>5, <1>6, ChatAssumption DEF SavedOnce, ChatAssumption
<1>. QED BY <1>1, <1>7, ChatAssumption DEF Id, ChatAssumption

(* The threads that serve: what handlers come to know. *)

\* A step of a handler that saves nothing, and is not about to.
Steady(c) == \E h : Turn(c, h) /\ HandlerKnows(h, messages) /\ ~Saving(h)

LEMMA OnwardKnows ==
    ASSUME NEW h \in WideHandler, NEW then, HandlerKnows(h, messages),
           then \notin {"message.save", "private.save", "send"}
    PROVE  HandlerKnows(Onward(h, then), messages) /\ ~Saving(Onward(h, then))
<1>1. CASE then = "receive"
  BY <1>1 DEF Onward, Rest, HandlerKnows, Saving
<1>2. CASE then # "receive"
  <2> DEFINE g == [h EXCEPT !.at = then, !.packet = Nothing, !.todo = {}]
  <2>1. g.at = then /\ g.packet = Nothing /\ g.id = h.id
    BY DEF WideHandler
  <2>2. HandlerKnows(g, messages) /\ ~Saving(g)
    BY <2>1 DEF HandlerKnows, Saving
  <2>. QED BY <1>2, <2>2 DEF Onward
<1>. QED BY <1>1, <1>2

LEMMA TellKnows ==
    ASSUME ChatFits, HandlersKnow, NEW c \in Client, NEW packet, packet.ids \subseteq DOMAIN messages,
           NEW recipients, NEW then, then \notin {"message.save", "private.save", "send"},
           Tell(c, packet, recipients, then)
    PROVE  Steady(c)
<1> DEFINE g == [handler[c] EXCEPT !.at = "send", !.packet = packet, !.todo = recipients, !.then = then]
<1>1. handler[c] \in WideHandler /\ HandlerKnows(handler[c], messages)
  BY DEF ChatFits, ChatTypes, HandlersKnow
<1>2. g.at = "send" /\ g.packet = packet /\ g.id = handler[c].id
  BY <1>1 DEF WideHandler
<1>3. HandlerKnows(g, messages) /\ ~Saving(g)
  BY <1>1, <1>2 DEF HandlerKnows, Saving
<1>4. HandlerKnows(Onward(handler[c], then), messages) /\ ~Saving(Onward(handler[c], then))
  BY <1>1, OnwardKnows
<1>5. Turn(c, Onward(handler[c], then)) \/ Turn(c, g)
  BY DEF Tell
<1>. QED BY <1>3, <1>4, <1>5 DEF Steady

LEMMA ProceedKnows ==
    ASSUME ChatFits, HandlersKnow, NEW c \in Client, NEW stage, Proceed(c, stage),
           handler[c].at # "send", stage \notin {"message.save", "private.save", "send"}
    PROVE  Steady(c)
<1> DEFINE g == [handler[c] EXCEPT !.at = stage]
<1>1. handler[c] \in WideHandler /\ HandlerKnows(handler[c], messages)
  BY DEF ChatFits, ChatTypes, HandlersKnow
<1>2. g.at = stage /\ g.packet = handler[c].packet /\ g.id = handler[c].id
  BY <1>1 DEF WideHandler
<1>3. HandlerKnows(g, messages) /\ ~Saving(g)
  BY <1>1, <1>2 DEF HandlerKnows, Saving
<1>4. Turn(c, g)
  BY DEF Proceed, Turn
<1>. QED BY <1>3, <1>4 DEF Steady

LEMMA TurnKnows ==
    ASSUME NEW c \in Client, NEW h, Turn(c, h), HandlerKnows(h, messages), ~Saving(h)
    PROVE  Steady(c)
  BY Zenon DEF Steady

LEMMA RestKnows ==
    ASSUME NEW ms, NEW stage, stage # "send", NEW room, NEW target
    PROVE  /\ HandlerKnows(Rest, ms) /\ ~Saving(Rest)
           /\ HandlerKnows([Rest EXCEPT !.at = stage, !.room = room], ms)
           /\ HandlerKnows([Rest EXCEPT !.at = stage], ms)
           /\ HandlerKnows([Rest EXCEPT !.at = stage, !.room = room, !.target = target], ms)
           /\ stage \notin {"message.save", "private.save"}
              => ~Saving([Rest EXCEPT !.at = stage, !.room = room]) /\ ~Saving([Rest EXCEPT !.at = stage])
                 /\ ~Saving([Rest EXCEPT !.at = stage, !.room = room, !.target = target])
  BY DEF Rest, HandlerKnows, Saving

LEMMA SentKnows ==
    ASSUME ChatFits, HandlersKnow, NEW c \in Client, Doing(c, "send"), NEW u \in handler[c].todo
    PROVE  HandlerKnows(Sent(handler[c], u), messages) /\ ~Saving(Sent(handler[c], u))
<1> DEFINE h == handler[c]
           g == [h EXCEPT !.todo = @ \ {u}]
<1>1. h \in WideHandler /\ HandlerKnows(h, messages) /\ h.at = "send"
  BY DEF ChatFits, ChatTypes, HandlersKnow, Doing
<1>2. h.then \notin {"message.save", "private.save", "send"}
  BY <1>1 DEF ChatFits, HandlersFit, HandlerFits, SendingFits, AfterSending
<1>3. HandlerKnows(Onward(h, h.then), messages) /\ ~Saving(Onward(h, h.then))
  BY <1>1, <1>2, OnwardKnows
<1>4. g.at = "send" /\ g.packet = h.packet /\ g.id = h.id
  BY <1>1 DEF WideHandler
<1>5. HandlerKnows(g, messages) /\ ~Saving(g)
  BY <1>1, <1>4 DEF HandlerKnows, Saving
<1>. QED BY <1>3, <1>5 DEF Sent

LEMMA SaidIsKnown ==
    ASSUME NEW room
    PROVE  Said(room) \subseteq DOMAIN messages
  BY DEF Said

\* What is told and is about no message.
LEMMA NothingIsKnown ==
    ASSUME NEW type, NEW room, NEW ids
    PROVE  /\ Notice.ids = {} /\ Of(type, room, ids).ids = ids /\ Of(type, room, ids).type = type
  BY DEF Notice, Of

Moves(c) == \/ JoinEnter(c) \/ JoinLeave(c) \/ JoinMembers(c) \/ JoinFetch(c)
            \/ LeaveLeave(c) \/ LeaveMembers(c) \/ HomeEnter(c)
Byes(c) == HangUp(c) \/ ByeLeave(c) \/ ByeMembers(c) \/ ByeOnline(c) \/ ByeUnlock(c)

LEMMA JoinEnterKnows ==
    ASSUME ChatFits, HandlersKnow, NEW c \in Client, JoinEnter(c)
    PROVE  Steady(c)
<1>1. handler[c] \in WideHandler /\ HandlerKnows(handler[c], messages)
  BY DEF ChatFits, ChatTypes, HandlersKnow
<1> DEFINE g == [handler[c] EXCEPT !.at = "send", !.old = userRooms[c], !.then = "join.leave",
                                   !.packet = Of("joined", handler[c].room, {}), !.todo = {c}]
<1>2. g.at = "send" /\ g.packet = Of("joined", handler[c].room, {}) /\ g.id = handler[c].id
  BY <1>1 DEF WideHandler
<1>3. HandlerKnows(g, messages) /\ ~Saving(g)
  BY <1>1, <1>2, NothingIsKnown DEF HandlerKnows, Saving
<1>4. Turn(c, g)
  BY DEF JoinEnter
<1>. QED BY <1>3, <1>4 DEF Steady

LEMMA MovesKnow ==
    ASSUME ChatFits, HandlersKnow, NEW c \in Client, Moves(c)
    PROVE  Steady(c)
<1>1. CASE JoinEnter(c)
  BY <1>1, JoinEnterKnows
<1>2. CASE JoinLeave(c)
  BY <1>2, ProceedKnows DEF JoinLeave, Doing
<1>3. CASE JoinMembers(c) \/ LeaveMembers(c)
  BY <1>3, TellKnows, NothingIsKnown DEF JoinMembers, LeaveMembers
<1>4. CASE JoinFetch(c)
  <2>1. Of("ROOM_HISTORY", handler[c].room, History(handler[c].room)).ids \subseteq DOMAIN messages
    BY NothingIsKnown, SaidIsKnown DEF History
  <2>. QED BY <1>4, <2>1, TellKnows DEF JoinFetch
<1>5. CASE LeaveLeave(c)
  BY <1>5, TellKnows, NothingIsKnown DEF LeaveLeave
<1>6. CASE HomeEnter(c)
  <2>1. HandlerKnows(Rest, messages) /\ ~Saving(Rest)
    BY DEF Rest, HandlerKnows, Saving
  <2>. QED BY <1>6, <2>1, TurnKnows, Zenon DEF HomeEnter
<1>. QED BY <1>1, <1>2, <1>3, <1>4, <1>5, <1>6 DEF Moves

LEMMA ByesKnow ==
    ASSUME ChatFits, HandlersKnow, NEW c \in Client, Byes(c)
    PROVE  Steady(c)
<1>1. CASE HangUp(c)
  <2>1. Turn(c, [Rest EXCEPT !.at = "bye.leave", !.room = userRooms[c]])
    BY <1>1 DEF HangUp
  <2>. QED BY <2>1, RestKnows, TurnKnows, Zenon
<1>2. CASE ByeLeave(c)
  BY <1>2, ProceedKnows DEF ByeLeave, Doing
<1>3. CASE ByeMembers(c) \/ ByeOnline(c)
  BY <1>3, TellKnows, NothingIsKnown DEF ByeMembers, ByeOnline
<1>4. CASE ByeUnlock(c)
  <2>1. Turn(c, [Rest EXCEPT !.at = "gone"])
    BY <1>4 DEF ByeUnlock
  <2>. QED BY <2>1, RestKnows, TurnKnows, Zenon
<1>. QED BY <1>1, <1>2, <1>3, <1>4 DEF Byes

\* A handler that has saved a message knows its row.
LEMMA SavedKnows ==
    ASSUME ChatFits, HandlersKnow, NEW c \in Client,
           handler[c].at \in {"message.members", "private.send"}
    PROVE  {handler[c].id} \subseteq DOMAIN messages
  BY DEF ChatFits, HandlersFit, HandlerFits, SavedFits

LEMMA MessageMembersKnows ==
    ASSUME ChatFits, HandlersKnow, NEW c \in Client, MessageMembers(c)
    PROVE  Steady(c)
<1>1. Of("MESSAGE", handler[c].room, {handler[c].id}).ids \subseteq DOMAIN messages
  BY SavedKnows, NothingIsKnown DEF MessageMembers, Doing
<1>2. Tell(c, Of("MESSAGE", handler[c].room, {handler[c].id}), members[handler[c].room], "receive")
  BY DEF MessageMembers
<1>3. \E packet, recipients :
         packet.ids \subseteq DOMAIN messages /\ Tell(c, packet, recipients, "receive")
  BY <1>1, <1>2
<1>. QED BY <1>3, TellKnows

LEMMA PrivateSendKnows ==
    ASSUME ChatFits, HandlersKnow, NEW c \in Client, PrivateSend(c)
    PROVE  Steady(c)
<1>1. \A outcome : Of(outcome, Nothing, {handler[c].id}).ids \subseteq DOMAIN messages
  BY SavedKnows, NothingIsKnown DEF PrivateSend, Doing
<1>2. \E outcome \in Outcome : Tell(c, Of(outcome, Nothing, {handler[c].id}), {c}, "receive")
  BY DEF PrivateSend, Outcome
<1>. QED BY <1>1, <1>2, TellKnows

LEMMA DeliverKnows ==
    ASSUME ChatFits, HandlersKnow, NEW c \in Client, NEW u \in Client, Deliver(c, u)
    PROVE  Steady(c)
  BY SentKnows DEF Deliver, Steady

(* The ledger. *)

LEMMA LedgerOfHandlers ==
    ASSUME ChatFits, NEW c \in Client, \A d \in Client : d # c => handler'[d] = handler[d]
    PROVE  /\ ~Saving(handler'[c]) => Handled' \subseteq Handled
           /\ Handled' \subseteq Handled \cup {<<"handler", c, 0>>}
  BY DEF Handled

LEMMA TurnOthers ==
    ASSUME ChatFits, NEW c \in Client, NEW h, Turn(c, h)
    PROVE  handler'[c] = h /\ \A d \in Client : d # c => handler'[d] = handler[d]
  BY DEF Turn, ChatFits, ChatTypes

LEMMA SteadyLedger ==
    ASSUME ChatFits, NEW c \in Client, Steady(c), UNCHANGED <<messages, typed, up>>
    PROVE  Ledger' \subseteq Ledger
<1>1. PICK h : Turn(c, h) /\ ~Saving(h)
  BY Zenon DEF Steady
<1>2. Handled' \subseteq Handled
  BY <1>1, TurnOthers, LedgerOfHandlers
<1>3. Rows' = Rows /\ Typing' = Typing /\ Underway' = Underway
  BY DEF Rows, Typing, Underway
<1>. QED BY <1>2, <1>3 DEF Ledger

LEMMA SameLedger ==
    ASSUME UNCHANGED <<messages, typed, up, handler>>
    PROVE  Ledger' = Ledger
  BY DEF Ledger, Rows, Typing, Underway, Handled

LEMMA TypeLedger ==
    ASSUME ChatFits, NEW c \in Client, NEW p \in Requests(c), Type(c, p)
    PROVE  Ledger' \subseteq Ledger \cup {<<"typed", c, 0>>}
<1>1. Rows' = Rows /\ Underway' = Underway /\ Handled' = Handled
  BY DEF Type, server, sockets, Rows, Underway, Handled
<1>2. \A d \in Client : d # c => typed'[d] = typed[d]
  BY DEF Type, ChatFits, ChatTypes
<1>3. Typing' \subseteq Typing \cup {<<"typed", c, 0>>}
  BY <1>2 DEF Typing
<1>. QED BY <1>1, <1>3 DEF Ledger

LEMMA SendPacketLedger ==
    ASSUME ChatFits, NEW c \in Client, SendPacket(c)
    PROVE  /\ <<"typed", c, 0>> \in Ledger
           /\ Ledger' \subseteq (Ledger \ {<<"typed", c, 0>>}) \cup {<<"up", c, Len(up[c]) + 1>>}
<1>1. Rows' = Rows /\ Handled' = Handled
  BY DEF SendPacket, server, Rows, Handled
<1>2. /\ \A d \in Client : d # c => typed'[d] = typed[d] /\ up'[d] = up[d]
      /\ typed'[c] = Nothing /\ typed[c] \in Request /\ up[c] \in Seq(Request)
      /\ up'[c] = Append(up[c], typed[c])
  BY DEF SendPacket, ChatFits, ChatTypes
<1>3. Typing' \subseteq Typing \ {<<"typed", c, 0>>} /\ <<"typed", c, 0>> \in Typing
  BY <1>2 DEF Typing, SendPacket
<1>4. DOMAIN up'[c] \subseteq DOMAIN up[c] \cup {Len(up[c]) + 1}
  BY <1>2
<1>5. Underway' \subseteq Underway \cup {<<"up", c, Len(up[c]) + 1>>}
  BY <1>2, <1>4 DEF Underway
<1>6. \A x \in Rows \cup Underway \cup Handled : x # <<"typed", c, 0>>
  BY DEF Rows, Underway, Handled
<1>. QED BY <1>1, <1>3, <1>5, <1>6 DEF Ledger

LEMMA QuitLedger ==
    ASSUME ChatFits, NEW c \in Client, Quit(c)
    PROVE  Ledger' \subseteq Ledger
<1>1. Rows' = Rows /\ Handled' = Handled /\ Typing' = Typing
  BY DEF Quit, server, Rows, Handled, Typing
<1>2. \A d \in Client : up'[d] = up[d] \/ up'[d] = <<>>
  <2>1. up' = up \/ up' = [up EXCEPT ![c] = <<>>]
    BY DEF Quit
  <2>2. up \in [Client -> Seq(Request)]
    BY DEF ChatFits, ChatTypes
  <2>. QED BY <2>1, <2>2
<1>3. Underway' \subseteq Underway
  BY <1>2 DEF Underway
<1>. QED BY <1>1, <1>3 DEF Ledger

LEMMA ReceiveTurns ==
    ASSUME ChatFits, HandlersKnow, NEW c \in Client, Receive(c)
    PROVE  \E h : Turn(c, h) /\ HandlerKnows(h, messages)
<1> DEFINE p == Head(up[c])
           Beginning(stage, room) == [Rest EXCEPT !.at = stage, !.room = room, !.target = p.target]
<1>1. \A stage, room : stage # "send" => HandlerKnows(Beginning(stage, room), messages)
  BY RestKnows
<1>2. \/ \E stage, room : stage # "send" /\ Turn(c, Beginning(stage, room))
      \/ Tell(c, Notice, {c}, "receive")
  <2>1. up[c] # <<>> /\ up[c] \in Seq(Request)
    BY DEF Receive, ChatFits, ChatTypes
  <2>2. p.type \in {"MESSAGE", "LEAVE_ROOM", "JOIN_ROOM", "PRIVATE_MESSAGE"}
    <3>1. p \in Request
      BY <2>1
    <3>. QED BY <3>1 DEF Request
  <2>. HIDE DEF Beginning
  <2>3. Receive(c) =>
          CASE p.type = "MESSAGE" -> Turn(c, Beginning("message.save", userRooms[c]))
            [] p.type = "PRIVATE_MESSAGE" -> Turn(c, Beginning("private.save", Nothing))
            [] p.type = "JOIN_ROOM" ->
                 IF p.room = Nowhere THEN Tell(c, Notice, {c}, "receive")
                 ELSE Turn(c, Beginning("join.enter", p.room))
            [] p.type = "LEAVE_ROOM" ->
                 IF userRooms[c] = Global THEN Tell(c, Notice, {c}, "receive")
                 ELSE Turn(c, Beginning("leave.leave", userRooms[c]))
    BY DEF Receive, Beginning
  <2>. QED BY <2>2, <2>3
<1>3. CASE \E stage, room : stage # "send" /\ Turn(c, Beginning(stage, room))
  <2>. HIDE DEF Beginning
  <2>. QED BY <1>1, <1>3, Zenon
<1>4. CASE Tell(c, Notice, {c}, "receive")
  <2>1. Steady(c)
    BY <1>4, TellKnows, NothingIsKnown
  <2>. QED BY <2>1, Zenon DEF Steady
<1>. QED BY <1>2, <1>3, <1>4

LEMMA ReceiveLedger ==
    ASSUME ChatFits, HandlersKnow, NEW c \in Client, Receive(c)
    PROVE  /\ <<"up", c, Len(up[c])>> \in Ledger
           /\ Ledger' \subseteq (Ledger \ {<<"up", c, Len(up[c])>>}) \cup {<<"handler", c, 0>>}
<1>1. Rows' = Rows /\ Typing' = Typing
  BY DEF Receive, client, server, Rows, Typing
<1>2. /\ up[c] \in Seq(Request) /\ up[c] # <<>> /\ up'[c] = Tail(up[c])
      /\ \A d \in Client : d # c => up'[d] = up[d]
  BY DEF Receive, ChatFits, ChatTypes
<1>3. Len(up[c]) \in DOMAIN up[c] /\ DOMAIN up'[c] \subseteq DOMAIN up[c] \ {Len(up[c])}
  BY <1>2
<1>4. <<"up", c, Len(up[c])>> \in Underway /\ Underway' \subseteq Underway \ {<<"up", c, Len(up[c])>>}
  <2>1. <<"up", c, Len(up[c])>> \in Underway
    BY <1>3 DEF Underway
  <2>2. ASSUME NEW d \in Client, NEW k \in DOMAIN up'[d]
        PROVE  <<"up", d, k>> \in Underway \ {<<"up", c, Len(up[c])>>}
    <3>1. k \in DOMAIN up[d] /\ (d = c => k # Len(up[c]))
      BY <1>2, <1>3, <2>2
    <3>. QED BY <3>1 DEF Underway
  <2>. QED BY <2>1, <2>2 DEF Underway
<1>5. Handled' \subseteq Handled \cup {<<"handler", c, 0>>}
  BY ReceiveTurns, TurnOthers, LedgerOfHandlers
<1>6. \A x \in Rows \cup Typing \cup Handled : x # <<"up", c, Len(up[c])>>
  BY DEF Rows, Typing, Handled
<1>. QED BY <1>1, <1>4, <1>5, <1>6 DEF Ledger

Saves(c) == MessageSave(c) \/ PrivateSave(c)

\* A message gets the next row, and its handler knows it.
LEMMA SaveTurns ==
    ASSUME ChatFits, HandlersKnow, NEW c \in Client, Saves(c)
    PROVE  /\ UNCHANGED <<client, sockets>> /\ Saving(handler[c])
           /\ Len(messages') = Len(messages) + 1 /\ DOMAIN messages' = DOMAIN messages \cup {Len(messages) + 1}
           /\ \A d \in Client : d # c => handler'[d] = handler[d]
           /\ ~Saving(handler'[c]) /\ HandlerKnows(handler'[c], messages')
<1>1. /\ Saving(handler[c])
      /\ \E message : \E stage \in {"message.members", "private.send"} : Save(c, message, stage)
  <2>1. CASE MessageSave(c)
    <3>1. Doing(c, "message.save")
          /\ Save(c, [by |-> c, room |-> handler[c].room, to |-> Nothing], "message.members")
      BY <2>1 DEF MessageSave
    <3>. QED BY <3>1, Zenon DEF Doing, Saving
  <2>2. CASE PrivateSave(c)
    <3>1. Doing(c, "private.save")
          /\ Save(c, [by |-> c, room |-> Nothing, to |-> handler[c].target], "private.send")
      BY <2>2 DEF PrivateSave
    <3>. QED BY <3>1, Zenon DEF Doing, Saving
  <2>. QED BY <2>1, <2>2 DEF Saves
<1>2. PICK message : \E stage \in {"message.members", "private.send"} : Save(c, message, stage)
  BY <1>1, Zenon
<1>a. PICK stage \in {"message.members", "private.send"} : Save(c, message, stage)
  BY <1>2
<1>3. messages' = Append(messages, message) /\ messages \in Seq(Message) /\ UNCHANGED <<client, sockets>>
  BY <1>a DEF Save, ChatFits, ChatTypes
<1>4. /\ Len(messages') = Len(messages) + 1
      /\ DOMAIN messages' = DOMAIN messages \cup {Len(messages) + 1}
  BY <1>3
<1> DEFINE g == [handler[c] EXCEPT !.at = stage, !.id = Len(messages) + 1]
<1>5. handler[c] \in WideHandler /\ HandlerKnows(handler[c], messages)
  BY DEF ChatFits, ChatTypes, HandlersKnow
<1>6. g.at = stage /\ g.packet = handler[c].packet /\ g.id = Len(messages) + 1
  BY <1>5 DEF WideHandler
<1>7. HandlerKnows(g, messages') /\ ~Saving(g)
  BY <1>1, <1>a, <1>4, <1>5, <1>6 DEF HandlerKnows, Saving
<1>8. Turn(c, g)
  BY <1>a DEF Save
<1>9. handler'[c] = g /\ \A d \in Client : d # c => handler'[d] = handler[d]
  <2>. HIDE DEF g
  <2>. QED BY <1>8, TurnOthers
<1>. QED BY <1>1, <1>3, <1>4, <1>7, <1>9

LEMMA SaveLedger ==
    ASSUME ChatFits, HandlersKnow, NEW c \in Client, Saves(c)
    PROVE  /\ <<"handler", c, 0>> \in Ledger
           /\ Ledger' \subseteq (Ledger \ {<<"handler", c, 0>>}) \cup {<<"row", Len(messages) + 1, 0>>}
<1>1. Typing' = Typing /\ Underway' = Underway
  BY SaveTurns DEF client, sockets, Typing, Underway
<1>2. Rows' \subseteq Rows \cup {<<"row", Len(messages) + 1, 0>>}
  BY SaveTurns DEF Rows
<1>3. <<"handler", c, 0>> \in Handled /\ Handled' \subseteq Handled \ {<<"handler", c, 0>>}
  BY SaveTurns DEF Handled
<1>4. \A x \in Rows \cup Typing \cup Underway : x # <<"handler", c, 0>>
  BY DEF Rows, Typing, Underway
<1>. QED BY <1>1, <1>2, <1>3, <1>4 DEF Ledger

(* Every step keeps CountInv. *)

\* The threads that serve, but for what receives and saves.
Others(c) == MessageMembers(c) \/ PrivateSend(c) \/ Moves(c) \/ Byes(c) \/ \E u \in Client : Deliver(c, u)

LEMMA ServeIs ==
    ASSUME NEW c \in Client, Serve(c)
    PROVE  Receive(c) \/ Saves(c) \/ Others(c)
  BY DEF Serve, Saves, Others, Moves, Byes

LEMMA OthersAreSteady ==
    ASSUME ChatFits, HandlersKnow, NEW c \in Client, Others(c)
    PROVE  Steady(c) /\ UNCHANGED <<client, up, messages>>
<1>1. Steady(c)
  BY MessageMembersKnows, PrivateSendKnows, MovesKnow, ByesKnow, DeliverKnows DEF Others
<1> DEFINE Same == UNCHANGED <<client, up, messages>>
<1>2. (MessageMembers(c) => Same) /\ (PrivateSend(c) => Same) /\ (\A u \in Client : Deliver(c, u) => Same)
  BY Zenon DEF MessageMembers, PrivateSend, Deliver, sockets, server
<1>3. (JoinEnter(c) => Same) /\ (JoinLeave(c) => Same) /\ (JoinMembers(c) => Same) /\ (JoinFetch(c) => Same)
  BY Zenon DEF JoinEnter, JoinLeave, JoinMembers, JoinFetch, sockets, server
<1>4. (LeaveLeave(c) => Same) /\ (LeaveMembers(c) => Same) /\ (HomeEnter(c) => Same)
  BY Zenon DEF LeaveLeave, LeaveMembers, HomeEnter, sockets, server
<1>5. /\ HangUp(c) => Same
      /\ (ByeLeave(c) => Same) /\ (ByeMembers(c) => Same) /\ (ByeOnline(c) => Same) /\ (ByeUnlock(c) => Same)
  BY Zenon DEF HangUp, ByeLeave, ByeMembers, ByeOnline, ByeUnlock, sockets, server
<1>. QED BY <1>1, <1>2, <1>3, <1>4, <1>5 DEF Others, Moves, Byes

LEMMA SavedOnceStep ==
    ASSUME ChatAssumption, ChatFits, HandlersKnow, SavedOnce, [ChatNext]_chatVars
    PROVE  SavedOnce'
<1>1. CASE UNCHANGED chatVars
  BY <1>1, SameLedger, NoNewEntry DEF chatVars, client, sockets, server
<1>2. ASSUME NEW c \in Client, NEW p \in Requests(c), Type(c, p) PROVE SavedOnce'
  <2>1. asked < MaxAsked /\ asked' = asked + 1
    BY <1>2 DEF Type
  <2>. QED BY <1>2, <2>1, TypeLedger, EntryMade
<1>3. ASSUME NEW c \in Client, SendPacket(c) PROVE SavedOnce'
  <2>1. asked' = asked
    BY <1>3 DEF SendPacket
  <2>. QED BY <1>3, <2>1, SendPacketLedger, EntryMoves
<1>4. ASSUME NEW c \in Client, Quit(c) PROVE SavedOnce'
  BY <1>4, QuitLedger, NoNewEntry DEF Quit
<1>5. ASSUME NEW c \in Client, Display(c) PROVE SavedOnce'
  BY <1>5, SameLedger, NoNewEntry DEF Display, server
<1>6. ASSUME NEW c \in Client, Serve(c) PROVE SavedOnce'
  <2>1. CASE Receive(c)
    <3>1. asked' = asked
      BY <2>1 DEF Receive, client
    <3>. QED BY <2>1, <3>1, ReceiveLedger, EntryMoves
  <2>2. CASE Saves(c)
    <3>1. asked' = asked
      BY <2>2, SaveTurns DEF client
    <3>. QED BY <2>2, <3>1, SaveLedger, EntryMoves
  <2>3. CASE Others(c)
    BY <2>3, OthersAreSteady, SteadyLedger, NoNewEntry DEF client
  <2>. QED BY <1>6, <2>1, <2>2, <2>3, ServeIs
<1>. QED BY <1>1, <1>2, <1>3, <1>4, <1>5, <1>6 DEF ChatNext, AllServed

LEMMA HandlersKnowTurned ==
    ASSUME ChatFits, HandlersKnow, DOMAIN messages \subseteq DOMAIN messages', NEW c \in Client,
           \A d \in Client : d # c => handler'[d] = handler[d], HandlerKnows(handler'[c], messages')
    PROVE  HandlersKnow'
  BY DEF HandlersKnow, HandlerKnows

LEMMA HandlersKnowStep ==
    ASSUME ChatFits, HandlersKnow, [ChatNext]_chatVars
    PROVE  HandlersKnow' /\ DOMAIN messages \subseteq DOMAIN messages'
<1>1. CASE UNCHANGED <<handler, messages>>
  BY <1>1 DEF HandlersKnow
<1>2. ASSUME NEW c \in Client, SendPacket(c) \/ Quit(c) \/ Display(c) \/ \E p \in Requests(c) : Type(c, p)
      PROVE  UNCHANGED <<handler, messages>>
  BY <1>2 DEF Type, SendPacket, Quit, Display, server
<1>3. ASSUME NEW c \in Client, Serve(c) PROVE HandlersKnow' /\ DOMAIN messages \subseteq DOMAIN messages'
  <2>1. CASE Receive(c)
    <3>1. messages' = messages
      BY <2>1 DEF Receive, server
    <3>2. PICK h : Turn(c, h) /\ HandlerKnows(h, messages)
      BY <2>1, ReceiveTurns
    <3>. QED BY <3>1, <3>2, TurnOthers, HandlersKnowTurned
  <2>2. CASE Saves(c)
    BY <2>2, SaveTurns, HandlersKnowTurned
  <2>3. CASE Others(c)
    <3>1. messages' = messages
      BY <2>3, OthersAreSteady
    <3>2. PICK h : Turn(c, h) /\ HandlerKnows(h, messages)
      BY <2>3, OthersAreSteady, Zenon DEF Steady
    <3>. QED BY <3>1, <3>2, TurnOthers, HandlersKnowTurned
  <2>. QED BY <1>3, <2>1, <2>2, <2>3, ServeIs
<1>4. UNCHANGED chatVars => UNCHANGED <<handler, messages>>
  BY DEF chatVars, server
<1>. QED BY <1>1, <1>2, <1>3, <1>4 DEF ChatNext, AllServed

LEMMA PacketsKnownSame ==
    ASSUME PacketsKnown, DOMAIN messages \subseteq DOMAIN messages', UNCHANGED down
    PROVE  PacketsKnown'
  BY DEF PacketsKnown

\* A socket takes one packet more, if it has space.
LEMMA SocketTakes ==
    ASSUME ChatFits, ChatAssumption, PacketsKnown, SocketsHold, UNCHANGED messages, UNCHANGED up,
           NEW u \in Client, NEW p \in WidePacket,
           p.ids \subseteq DOMAIN messages, Len(down[u]) < Buffer, down' = [down EXCEPT ![u] = Append(@, p)]
    PROVE  PacketsKnown' /\ SocketsHold'
<1>1. /\ down[u] \in Seq(WidePacket) /\ down'[u] = Append(down[u], p)
      /\ \A d \in Client : d # u => down'[d] = down[d]
  BY DEF ChatFits, ChatTypes
<1>2. /\ Len(down'[u]) = Len(down[u]) + 1
      /\ \A k \in DOMAIN down'[u] : down'[u][k] = p \/ (k \in DOMAIN down[u] /\ down'[u][k] = down[u][k])
  BY <1>1
<1>3. PacketsKnown'
  BY <1>1, <1>2 DEF PacketsKnown
<1>4. Len(down'[u]) <= Buffer
  BY <1>1, <1>2, ChatAssumption DEF ChatAssumption
<1>5. SocketsHold'
  BY <1>1, <1>4 DEF SocketsHold
<1>. QED BY <1>3, <1>5

LEMMA DeliverSockets ==
    ASSUME ChatFits, ChatAssumption, HandlersKnow, PacketsKnown, SocketsHold,
           NEW c \in Client, NEW u \in Client, Deliver(c, u)
    PROVE  PacketsKnown' /\ SocketsHold'
<1>1. UNCHANGED messages /\ UNCHANGED up
  BY DEF Deliver, server
<1>2. CASE ~Reached(u)
  <2>1. UNCHANGED down
    BY <1>2 DEF Deliver
  <2>. QED BY <1>1, <2>1 DEF PacketsKnown, SocketsHold
<1>3. CASE Reached(u)
  <2>1. Len(down[u]) < Buffer /\ down' = [down EXCEPT ![u] = Append(@, handler[c].packet)]
    BY <1>3 DEF Deliver
  <2>2. handler[c].packet \in WidePacket /\ handler[c].packet.ids \subseteq DOMAIN messages
    BY DEF Deliver, Doing, HandlersKnow, HandlerKnows, ChatFits, HandlersFit, HandlerFits, SendingFits, PacketFits
  <2>. QED BY <1>1, <2>1, <2>2, SocketTakes
<1>. QED BY <1>2, <1>3

LEMMA SaveDomain ==
    ASSUME ChatFits, NEW c \in Client, MessageSave(c)
    PROVE  Len(messages) + 1 \in DOMAIN messages'
<1>1. PICK m : messages' = Append(messages, m)
  BY DEF MessageSave, Save
<1>2. messages \in Seq(Message)
  BY DEF ChatFits, ChatTypes
<1>. QED BY <1>1, <1>2

LEMMA SeqIsPointwise ==
    ASSUME NEW S, NEW T, NEW s \in Seq(S), \A k \in DOMAIN s : s[k] \in T
    PROVE  s \in Seq(T)
  OBVIOUS

LEMMA PrivateSendSockets ==
    ASSUME ChatFits, ChatAssumption, HandlersKnow, PacketsKnown, SocketsHold,
           NEW c \in Client, PrivateSend(c)
    PROVE  PacketsKnown' /\ SocketsHold'
<1> DEFINE p == Of("PRIVATE_MESSAGE", Nothing, {handler[c].id})
<1>1. UNCHANGED messages /\ UNCHANGED up
  BY DEF PrivateSend, server
<1>2. \/ UNCHANGED down
      \/ /\ Reached(handler[c].target) /\ Len(down[handler[c].target]) < Buffer
         /\ down' = [down EXCEPT ![handler[c].target] = Append(@, p)]
  BY DEF PrivateSend
<1>3. CASE UNCHANGED down
  BY <1>1, <1>3 DEF PacketsKnown, SocketsHold
<1>4. CASE /\ Reached(handler[c].target) /\ Len(down[handler[c].target]) < Buffer
           /\ down' = [down EXCEPT ![handler[c].target] = Append(@, p)]
  <2>1. handler[c].target \in Client
    BY <1>4 DEF Reached, ChatFits, ChatTypes
  <2>2. {handler[c].id} \subseteq DOMAIN messages /\ messages \in Seq(Message)
    BY SavedKnows DEF PrivateSend, Doing, ChatFits, ChatTypes
  <2>3. handler[c].id \in Nat
    BY <2>2
  <2>4. p \in WidePacket /\ p.ids \subseteq DOMAIN messages
    BY <2>2, <2>3 DEF Of, WidePacket
  <2>. QED BY <1>1, <1>4, <2>1, <2>4, SocketTakes
<1>. QED BY <1>2, <1>3, <1>4

LEMMA DisplaySockets ==
    ASSUME ChatFits, ChatAssumption, PacketsKnown, SocketsHold, NEW c \in Client, Display(c)
    PROVE  PacketsKnown' /\ SocketsHold'
<1>1. UNCHANGED messages /\ UNCHANGED up
  BY DEF Display, server
<1>2. Len(down'[c]) <= Buffer
  <2>1. down[c] \in Seq(WidePacket) /\ 1 \in DOMAIN down[c] /\ down'[c] = Tail(down[c])
    BY HeadOfSocket
  <2>2. Len(Tail(down[c])) <= Len(down[c]) /\ Len(Tail(down[c])) \in Nat /\ Len(down[c]) \in Nat
    BY <2>1
  <2>. QED BY <2>1, <2>2, ChatAssumption DEF SocketsHold, ChatAssumption
<1>3. /\ \A d \in Client : d # c => down'[d] = down[d]
      /\ \A k \in DOMAIN down'[c] : k + 1 \in DOMAIN down[c] /\ down'[c][k] = down[c][k + 1]
  BY HeadOfSocket
<1>4. SocketsHold'
  BY <1>1, <1>2, <1>3 DEF SocketsHold
<1>5. ASSUME NEW d \in Client, NEW k \in DOMAIN down'[d] PROVE down'[d][k].ids \subseteq DOMAIN messages'
  BY <1>1, <1>3, <1>5, Zenon DEF PacketsKnown
<1>. QED BY <1>4, <1>5 DEF PacketsKnown

LEMMA SocketsStep ==
    ASSUME ChatAssumption, ChatFits, HandlersKnow, PacketsKnown, SocketsHold, [ChatNext]_chatVars
    PROVE  PacketsKnown' /\ SocketsHold'
<1>0. DOMAIN messages \subseteq DOMAIN messages'
  BY HandlersKnowStep
<1>1. ASSUME UNCHANGED down, UNCHANGED up PROVE PacketsKnown' /\ SocketsHold'
  BY <1>0, <1>1 DEF PacketsKnown, SocketsHold
<1>2. ASSUME NEW c \in Client, NEW p \in Requests(c), Type(c, p) PROVE UNCHANGED down /\ UNCHANGED up
  BY <1>2 DEF Type, sockets
<1>3. ASSUME NEW c \in Client, SendPacket(c) PROVE PacketsKnown' /\ SocketsHold'
  <2>1. UNCHANGED down /\ Len(up[c]) < Buffer
    BY <1>3 DEF SendPacket
  <2>2. /\ up[c] \in Seq(Request) /\ typed[c] \in Request /\ up'[c] = Append(up[c], typed[c])
        /\ \A d \in Client : d # c => up'[d] = up[d]
    BY <1>3 DEF SendPacket, ChatFits, ChatTypes
  <2>3. Len(up'[c]) = Len(up[c]) + 1 /\ Len(up[c]) \in Nat
    BY <2>2
  <2>4. Len(up'[c]) <= Buffer
    BY <2>1, <2>3, ChatAssumption DEF ChatAssumption
  <2>. QED BY <1>0, <2>1, <2>2, <2>4 DEF PacketsKnown, SocketsHold
<1>4. ASSUME NEW c \in Client, Quit(c) PROVE PacketsKnown' /\ SocketsHold'
  <2>1. \A d \in Client : (down'[d] = down[d] \/ down'[d] = <<>>) /\ (up'[d] = up[d] \/ up'[d] = <<>>)
    BY <1>4 DEF Quit, ChatFits, ChatTypes
  <2>2. PacketsKnown'
    BY <1>0, <2>1 DEF PacketsKnown
  <2>3. SocketsHold'
    BY <2>1, ChatAssumption DEF SocketsHold, ChatAssumption
  <2>. QED BY <2>2, <2>3
<1>5. ASSUME NEW c \in Client, Display(c) PROVE PacketsKnown' /\ SocketsHold'
  BY <1>5, DisplaySockets
<1>6. ASSUME NEW c \in Client, Receive(c) PROVE PacketsKnown' /\ SocketsHold'
  <2>1. UNCHANGED down
    BY <1>6 DEF Receive
  <2>2. /\ up[c] \in Seq(Request) /\ up[c] # <<>> /\ up'[c] = Tail(up[c])
        /\ \A d \in Client : d # c => up'[d] = up[d]
    BY <1>6 DEF Receive, ChatFits, ChatTypes
  <2>3. Len(up'[c]) <= Buffer
    <3>1. Len(Tail(up[c])) <= Len(up[c]) /\ Len(Tail(up[c])) \in Nat /\ Len(up[c]) \in Nat
      BY <2>2
    <3>. QED BY <2>2, <3>1, ChatAssumption DEF SocketsHold, ChatAssumption
  <2>. QED BY <1>0, <2>1, <2>2, <2>3 DEF PacketsKnown, SocketsHold
<1>7. ASSUME NEW c \in Client, Others(c) PROVE PacketsKnown' /\ SocketsHold'
  <2>1. CASE PrivateSend(c) \/ \E u \in Client : Deliver(c, u)
    BY <2>1, PrivateSendSockets, DeliverSockets
  <2>2. CASE MessageMembers(c) \/ Moves(c) \/ Byes(c)
    <3> DEFINE Same == UNCHANGED <<up, down>>
    <3>1. MessageMembers(c) => Same
      BY Zenon DEF MessageMembers, sockets
    <3>2. (JoinEnter(c) => Same) /\ (JoinLeave(c) => Same) /\ (JoinMembers(c) => Same) /\ (JoinFetch(c) => Same)
      BY Zenon DEF JoinEnter, JoinLeave, JoinMembers, JoinFetch, sockets
    <3>3. (LeaveLeave(c) => Same) /\ (LeaveMembers(c) => Same) /\ (HomeEnter(c) => Same)
      BY Zenon DEF LeaveLeave, LeaveMembers, HomeEnter, sockets
    <3>4. /\ HangUp(c) => Same
          /\ (ByeLeave(c) => Same) /\ (ByeMembers(c) => Same) /\ (ByeOnline(c) => Same) /\ (ByeUnlock(c) => Same)
      BY Zenon DEF HangUp, ByeLeave, ByeMembers, ByeOnline, ByeUnlock, sockets
    <3>5. Same
      BY <2>2, <3>1, <3>2, <3>3, <3>4 DEF Moves, Byes
    <3>. QED BY <1>1, <3>5
  <2>. QED BY <1>7, <2>1, <2>2 DEF Others
<1>8. ASSUME NEW c \in Client, Saves(c) PROVE UNCHANGED down /\ UNCHANGED up
  BY <1>8, SaveTurns DEF sockets
<1>9. ASSUME NEW c \in Client, Serve(c) PROVE PacketsKnown' /\ SocketsHold'
  BY <1>1, <1>6, <1>7, <1>8, <1>9, ServeIs
<1>10. UNCHANGED chatVars => UNCHANGED down /\ UNCHANGED up
  BY DEF chatVars, sockets
<1>. QED BY <1>1, <1>2, <1>3, <1>4, <1>5, <1>9, <1>10 DEF ChatNext, AllServed

LEMMA PastIsKnown ==
    ASSUME ChatFits, PacketsKnown, ClientsKnow, NEW c \in Client, Display(c)
    PROVE  \A d \in Client : past'[d] \subseteq DOMAIN messages
<1>1. Head(down[c]).ids \subseteq DOMAIN messages
  BY HeadOfSocket DEF PacketsKnown
<1>2. past' = past \/ past' = [past EXCEPT ![c] = @ \cup Head(down[c]).ids]
  BY DEF Display
<1>3. past \in [Client -> SUBSET Nat]
  BY DEF ChatFits, ChatTypes
<1>. QED BY <1>1, <1>2, <1>3 DEF ClientsKnow

LEMMA OwedIsKnown ==
    ASSUME ChatFits, ClientsKnow, NEW c \in Client, Serve(c), DOMAIN messages \subseteq DOMAIN messages'
    PROVE  \A d \in Client : owed'[d] \subseteq DOMAIN messages'
<1>1. owed \in [Client -> SUBSET Nat] /\ \A d \in Client : owed[d] \subseteq DOMAIN messages
  BY DEF ChatFits, ChatTypes, ClientsKnow
<1>2. ASSUME UNCHANGED owed PROVE \A d \in Client : owed'[d] \subseteq DOMAIN messages'
  BY <1>1, <1>2
<1>3. CASE MessageSave(c)
  <2>1. Len(messages) + 1 \in DOMAIN messages'
    BY <1>3, SaveDomain
  <2>2. owed' = [d \in Client |-> IF d \in members[handler[c].room]
                                  THEN owed[d] \cup {Len(messages) + 1} ELSE owed[d]]
    BY <1>3 DEF MessageSave
  <2>. QED BY <1>1, <2>1, <2>2
<1>4. ASSUME NEW room, Away(c, room) PROVE \A d \in Client : owed'[d] \subseteq DOMAIN messages'
  BY <1>1, <1>4 DEF Away
<1>5. CASE JoinEnter(c)
  <2>1. owed' = [owed EXCEPT ![c] = @ \cup Said(handler[c].room)]
    BY <1>5 DEF JoinEnter
  <2>. QED BY <1>1, <2>1, SaidIsKnown
<1>6. CASE JoinLeave(c)
  BY <1>2, <1>4, <1>6 DEF JoinLeave
<1>7. CASE LeaveLeave(c)
  BY <1>4, <1>7 DEF LeaveLeave
<1> DEFINE Same == UNCHANGED owed
<1>8. /\ (Receive(c) => Same) /\ (\A u \in Client : Deliver(c, u) => Same) /\ (MessageMembers(c) => Same)
      /\ (PrivateSave(c) => Same) /\ (PrivateSend(c) => Same)
  BY Zenon DEF Receive, Deliver, MessageMembers, PrivateSave, PrivateSend, server
<1>9. (JoinMembers(c) => Same) /\ (JoinFetch(c) => Same) /\ (LeaveMembers(c) => Same) /\ (HomeEnter(c) => Same)
  BY Zenon DEF JoinMembers, JoinFetch, LeaveMembers, HomeEnter, server
<1>10. /\ HangUp(c) => Same
       /\ (ByeLeave(c) => Same) /\ (ByeMembers(c) => Same) /\ (ByeOnline(c) => Same) /\ (ByeUnlock(c) => Same)
  BY Zenon DEF HangUp, ByeLeave, ByeMembers, ByeOnline, ByeUnlock, server
<1>. QED BY <1>2, <1>3, <1>5, <1>6, <1>7, <1>8, <1>9, <1>10 DEF Serve

LEMMA ClientsKnowStep ==
    ASSUME ChatFits, HandlersKnow, PacketsKnown, ClientsKnow, [ChatNext]_chatVars
    PROVE  ClientsKnow'
<1>0. DOMAIN messages \subseteq DOMAIN messages'
  BY HandlersKnowStep
<1>1. ASSUME UNCHANGED past, UNCHANGED owed PROVE ClientsKnow'
  BY <1>0, <1>1 DEF ClientsKnow
<1>2. ASSUME NEW c \in Client, SendPacket(c) \/ Quit(c) \/ \E p \in Requests(c) : Type(c, p)
      PROVE  UNCHANGED past /\ UNCHANGED owed
  BY <1>2 DEF SendPacket, Quit, Type, server
<1>3. ASSUME NEW c \in Client, Display(c) PROVE ClientsKnow'
  <2>1. owed' = owed /\ messages' = messages
    BY <1>3 DEF Display, server
  <2>. QED BY <1>3, <2>1, PastIsKnown DEF ClientsKnow
<1>4. ASSUME NEW c \in Client, Serve(c) PROVE ClientsKnow'
  <2>1. past' = past
    <3>1. UNCHANGED client
      BY <1>4, ServeIs, SaveTurns, OthersAreSteady DEF Receive
    <3>. QED BY <3>1 DEF client
  <2>. QED BY <1>0, <1>4, <2>1, OwedIsKnown DEF ClientsKnow
<1>5. UNCHANGED chatVars => UNCHANGED past /\ UNCHANGED owed
  BY DEF chatVars, client, server
<1>. QED BY <1>1, <1>2, <1>3, <1>4, <1>5 DEF ChatNext, AllServed

LEMMA ChatInitCounts == ChatAssumption /\ ChatInit => CountInv
<1> SUFFICES ASSUME ChatAssumption, ChatInit PROVE CountInv
  OBVIOUS
<1>1. /\ \A c \in Client : /\ handler[c] = Rest /\ down[c] = <<>> /\ up[c] = <<>> /\ typed[c] = Nothing
                           /\ past[c] = {} /\ owed[c] = {}
      /\ messages = <<>> /\ asked = 0
  BY DEF ChatInit
<1>2. OnlyKnown
  <2>1. HandlerKnows(Rest, messages)
    BY DEF Rest, HandlerKnows
  <2>. QED BY <1>1, <2>1 DEF OnlyKnown, HandlersKnow, PacketsKnown, ClientsKnow
<1>3. SocketsHold
  BY <1>1, ChatAssumption DEF SocketsHold, ChatAssumption
<1>4. Ledger = {}
  <2>1. ~Saving(Rest)
    BY DEF Rest, Saving
  <2>. QED BY <1>1, <2>1 DEF Ledger, Rows, Typing, Underway, Handled
<1>5. SavedOnce
  BY <1>1, <1>4, FS_EmptySet, ChatAssumption DEF SavedOnce, ChatAssumption
<1>. QED BY <1>2, <1>3, <1>5 DEF CountInv

\* Of what is asked in client_app.py, each makes one row at most, by save_message, and is in
\* one place until then; nobody is told of a row that is not there; a socket holds what it can.
THEOREM EachSavedOnce == ChatSpec => []CountInv
<1>1. ChatInit => CountInv
  BY ChatAssumption, ChatInitCounts
<1>2. ChatInv /\ CountInv /\ [ChatNext]_chatVars => CountInv'
  BY ChatAssumption, HandlersKnowStep, SocketsStep, ClientsKnowStep, SavedOnceStep
     DEF ChatInv, CountInv, OnlyKnown
<1>. QED BY <1>1, <1>2, ChatInvariant, PTL DEF ChatSpec

\* All of Chat's state is of its kind, and messages are numbered by what has been asked.
THEOREM ChatTypesHold == ChatSpec => []ChatTypeOK
<1>1. ChatInv /\ CountInv => ChatTypeOK
  <2> SUFFICES ASSUME ChatInv, CountInv PROVE ChatTypeOK
    OBVIOUS
  <2>1. ChatTypes /\ messages \in Seq(Message)
    BY DEF ChatInv, ChatFits, ChatTypes
  <2>2. DOMAIN messages \subseteq Id
    BY <2>1, RowsAreAsked, ChatAssumption DEF CountInv
  <2>3. ASSUME NEW p \in WidePacket, p.ids \subseteq DOMAIN messages PROVE p \in Packet
    BY <2>2, <2>3 DEF WidePacket, Packet
  <2>4. ASSUME NEW c \in Client PROVE handler[c] \in Handler
    <3> DEFINE h == handler[c]
    <3>1. h \in WideHandler /\ HandlerKnows(h, messages)
      BY <2>1 DEF ChatTypes, CountInv, OnlyKnown, HandlersKnow
    <3>2. h.id \in Id \cup {Nothing}
      BY <2>2, <3>1 DEF HandlerKnows
    <3>3. h.packet \in Packet \cup {Nothing}
      BY <2>3, <3>1 DEF HandlerKnows, ChatInv, ChatFits, HandlersFit, HandlerFits, SendingFits, PacketFits
    <3>. QED BY <3>1, <3>2, <3>3 DEF WideHandler, Handler
  <2>5. ASSUME NEW c \in Client PROVE down[c] \in Seq(Packet) /\ live[c] \in Seq(Id)
    <3>1. down[c] \in Seq(WidePacket) /\ live[c] \in Seq(Nat)
      BY <2>1 DEF ChatTypes
    <3>2. \A k \in DOMAIN down[c] : down[c][k] \in Packet
      BY <2>3, <3>1 DEF CountInv, OnlyKnown, PacketsKnown
    <3>3. \A k \in DOMAIN live[c] : live[c][k] \in Id
      BY <2>2 DEF ChatInv, ChatFits, LiveFits
    <3>4. down[c] \in Seq(Packet)
      BY <3>1, <3>2, SeqIsPointwise
    <3>5. live[c] \in Seq(Id)
      BY <3>1, <3>3, SeqIsPointwise
    <3>. QED BY <3>4, <3>5
  <2>6. past \in [Client -> SUBSET Id] /\ owed \in [Client -> SUBSET Id]
    BY <2>1, <2>2 DEF ChatTypes, CountInv, OnlyKnown, ClientsKnow
  <2>7. told \in [Client -> SUBSET (Id \X {"delivered", "stored"})]
    <3>1. ASSUME NEW c \in Client, NEW t \in told[c] PROVE t \in Id \X {"delivered", "stored"}
      <4>1. t \in Nat \X Outcome
        BY <2>1 DEF ChatTypes
      <4>2. t[1] \in DOMAIN messages
        BY DEF ChatInv, AnswersInv, MayTell
      <4>. QED BY <2>2, <4>1, <4>2 DEF Outcome
    <3>. QED BY <2>1, <3>1 DEF ChatTypes
  <2>8. handler \in [Client -> Handler]
    BY <2>1, <2>4 DEF ChatTypes
  <2>9. \A c \in Client : up[c] \in Seq(Request) /\ Len(up[c]) <= Buffer /\ Len(down[c]) <= Buffer
    BY <2>1 DEF ChatTypes, CountInv, SocketsHold
  <2>10. online \subseteq Client
    BY <2>1 DEF ChatTypes
  <2>. QED BY <2>1, <2>5, <2>6, <2>7, <2>8, <2>9, <2>10 DEF ChatTypes, ChatTypeOK
<1>. QED BY <1>1, ChatInvariant, EachSavedOnce, PTL
==============================================================================
