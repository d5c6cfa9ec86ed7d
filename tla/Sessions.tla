------------------------------- MODULE Sessions -------------------------------
(***************************************************************************)
(* Who is connected: the handshake of server/server.py (REGISTER, LOGIN,   *)
(* RECONNECT), the session tokens of server/session_manager.py and their   *)
(* table, the map of connections, and unregister_client.                   *)
(*                                                                         *)
(* Every accepted connection has a thread of its own and an account may    *)
(* have several of them at once: one that is being unregistered and one    *)
(* that logs in again, or two that passed the test for a duplicate login   *)
(* together.  Rooms are abstracted to "global", the only room a session is *)
(* ever stored with.                                                       *)
(***************************************************************************)
EXTENDS Integers, FiniteSets

CONSTANTS
    Account, Password,
    Conn,        \* connections, each reused when it has been closed
    Token,       \* session tokens, uuid4
    MaxPackets,  \* 5 in the code: packets of one handshake
    None,
    Ops          \* requests and events of this instance

ASSUME SessionAssumption ==
    /\ MaxPackets \in Nat \ {0}
    /\ None \notin Account \cup Password \cup Conn \cup Token
    /\ Ops \subseteq {"register", "reconnect", "age", "crash"}

VARIABLES
    hash,       \* users.password_hash, None for no row
    clients,    \* ConnectionManager.clients
    current,    \* SessionManager.sessions: the token end_session will end
    session,    \* table sessions
    hasRoom,    \* keys of user_rooms
    member,     \* members of the global room
    online,     \* keys of StatusManager.status_map
    conn,       \* the threads
    serviceLock \* holder of service.lock

vars == <<hash, clients, current, session, hasRoom, member, online, conn, serviceLock>>

------------------------------------------------------------------------------
Label == {"closed", "auth", "signup.select", "signup.insert", "signup.update",
          "login.add", "login.room", "login.session",
          "restore.get", "restore.refresh", "re.check", "re.room", "re.add",
          "register.status", "register.room", "register.join", "register.welcome",
          "serving", "leaked",
          "bye.lock", "bye.leave", "bye.status", "bye.session", "bye.forget"}

\* stale: last_seen is more than 15 minutes ago.
Session == [user : Account, active : BOOLEAN, stale : BOOLEAN]

ASSUME NoneAssumption == None \notin Session

\* token: the token of a RECONNECT; inside: sent after the handshake.
Thread == [at : Label, user : Account \cup {None}, password : Password \cup {None},
           token : Token \cup {None}, inside : BOOLEAN, packets : 0 .. MaxPackets - 1]

Closed == [at |-> "closed", user |-> None, password |-> None, token |-> None,
           inside |-> FALSE, packets |-> 0]

At(c, label) == conn[c].at = label
Goto(c, label) == conn' = [conn EXCEPT ![c].at = label]
Become(c, local) == conn' = [conn EXCEPT ![c] = local]
Wait(n) == [Closed EXCEPT !.at = "auth", !.packets = n]
Serving(u) == [Closed EXCEPT !.at = "serving", !.user = u]

\* The loop of _authenticate goes on, or gives up.
NextPacket(c) ==
    Become(c, IF conn[c].packets + 1 = MaxPackets THEN Closed
              ELSE Wait(conn[c].packets + 1))

\* A RECONNECT that fails.
Refuse(c) ==
    IF conn[c].inside THEN Become(c, Serving(conn[c].user)) ELSE NextPacket(c)

Accept(c) ==
    /\ At(c, "closed")
    /\ Become(c, Wait(0))
    /\ UNCHANGED <<hash, clients, current, session, hasRoom, member, online, serviceLock>>

\* The client goes away, or its packet is no handshake packet.
GiveUp(c) ==
    /\ At(c, "auth")
    /\ Become(c, Closed)
    /\ UNCHANGED <<hash, clients, current, session, hasRoom, member, online, serviceLock>>

------------------------------------------------------------------------------
(* REGISTER: AuthService.register and Database.set_user_password. *)

SignUp(c, u, p) ==
    /\ "register" \in Ops
    /\ At(c, "auth")
    /\ IF hash[u] # None THEN NextPacket(c)
       ELSE Become(c, [conn[c] EXCEPT !.at = "signup.select", !.user = u, !.password = p])
    /\ UNCHANGED <<hash, clients, current, session, hasRoom, member, online, serviceLock>>

SignUpSelect(c) ==
    /\ At(c, "signup.select")
    /\ Goto(c, IF hash[conn[c].user] = None THEN "signup.insert" ELSE "signup.update")
    /\ UNCHANGED <<hash, clients, current, session, hasRoom, member, online, serviceLock>>

\* A second INSERT of the name breaks the UNIQUE constraint: the exception ends
\* the connection.
SignUpInsert(c) ==
    /\ At(c, "signup.insert")
    /\ LET u == conn[c].user IN
       IF hash[u] # None THEN Become(c, Closed) /\ UNCHANGED hash
       ELSE hash' = [hash EXCEPT ![u] = conn[c].password] /\ NextPacket(c)
    /\ UNCHANGED <<clients, current, session, hasRoom, member, online, serviceLock>>

SignUpUpdate(c) ==
    /\ At(c, "signup.update")
    /\ hash' = [hash EXCEPT ![conn[c].user] = conn[c].password]
    /\ NextPacket(c)
    /\ UNCHANGED <<clients, current, session, hasRoom, member, online, serviceLock>>

------------------------------------------------------------------------------
(* LOGIN. *)

\* A bound of the model, not of the code: a login is only begun when there is a
\* token left for it to issue.
TokenLeft ==
    Cardinality({t \in Token : session[t] = None}) >
        Cardinality({c \in Conn : conn[c].at \in {"login.add", "login.room", "login.session"}})

\* authenticate, then the test for a duplicate login.
LogIn(c, u, p) ==
    /\ At(c, "auth")
    /\ TokenLeft
    /\ IF hash[u] = p /\ clients[u] = None
       THEN Become(c, [Closed EXCEPT !.at = "login.add", !.user = u])
       ELSE NextPacket(c)
    /\ UNCHANGED <<hash, clients, current, session, hasRoom, member, online, serviceLock>>

LoginAdd(c) ==
    /\ At(c, "login.add")
    /\ clients' = [clients EXCEPT ![conn[c].user] = c]
    /\ Goto(c, "login.room")
    /\ UNCHANGED <<hash, current, session, hasRoom, member, online, serviceLock>>

LoginRoom(c) ==
    /\ At(c, "login.room")
    /\ hasRoom' = hasRoom \cup {conn[c].user}
    /\ Goto(c, "login.session")
    /\ UNCHANGED <<hash, clients, current, session, member, online, serviceLock>>

\* create_session.
LoginSession(c) ==
    /\ At(c, "login.session")
    /\ LET u == conn[c].user IN
       \E t \in Token :
          /\ session[t] = None
          /\ session' = [session EXCEPT ![t] = [user |-> u, active |-> TRUE, stale |-> FALSE]]
          /\ current' = [current EXCEPT ![u] = t]
    /\ Goto(c, "register.status")
    /\ UNCHANGED <<hash, clients, hasRoom, member, online, serviceLock>>

------------------------------------------------------------------------------
(* RECONNECT, in the handshake or from a client that is served: the client   *)
(* sends a token it was given.                                               *)

\* restore_session starts by expiring sessions.
Restore(c, t) ==
    /\ "reconnect" \in Ops
    /\ session[t] # None
    /\ \/ At(c, "auth")
       \/ At(c, "serving") /\ session[t].user = conn[c].user
    /\ session' = [s \in Token |->
                     IF session[s] # None /\ session[s].stale
                     THEN [session[s] EXCEPT !.active = FALSE] ELSE session[s]]
    /\ Become(c, [conn[c] EXCEPT !.at = "restore.get", !.token = t,
                                 !.inside = At(c, "serving")])
    /\ UNCHANGED <<hash, clients, current, hasRoom, member, online, serviceLock>>

RestoreGet(c) ==
    /\ At(c, "restore.get")
    /\ LET t == conn[c].token IN
       IF session[t].active
       THEN Become(c, [conn[c] EXCEPT !.at = "restore.refresh", !.user = session[t].user])
       ELSE Refuse(c)
    /\ UNCHANGED <<hash, clients, current, session, hasRoom, member, online, serviceLock>>

\* refresh_session makes the session active, whatever has happened to it.
RestoreRefresh(c) ==
    /\ At(c, "restore.refresh")
    /\ session' = [session EXCEPT ![conn[c].token].active = TRUE,
                                  ![conn[c].token].stale = FALSE]
    /\ Goto(c, IF conn[c].inside THEN "re.room" ELSE "re.check")
    /\ UNCHANGED <<hash, clients, current, hasRoom, member, online, serviceLock>>

ReCheck(c) ==
    /\ At(c, "re.check")
    /\ IF clients[conn[c].user] = None THEN Goto(c, "re.room") ELSE Refuse(c)
    /\ UNCHANGED <<hash, clients, current, session, hasRoom, member, online, serviceLock>>

ReRoom(c) ==
    /\ At(c, "re.room")
    /\ hasRoom' = hasRoom \cup {conn[c].user}
    /\ Goto(c, IF conn[c].inside THEN "register.status" ELSE "re.add")
    /\ UNCHANGED <<hash, clients, current, session, member, online, serviceLock>>

ReAdd(c) ==
    /\ At(c, "re.add")
    /\ clients' = [clients EXCEPT ![conn[c].user] = c]
    /\ Goto(c, "register.status")
    /\ UNCHANGED <<hash, current, session, hasRoom, member, online, serviceLock>>

------------------------------------------------------------------------------
(* register_client. *)

RegisterStatus(c) ==
    /\ At(c, "register.status")
    /\ online' = online \cup {conn[c].user}
    /\ Goto(c, "register.room")
    /\ UNCHANGED <<hash, clients, current, session, hasRoom, member, serviceLock>>

RegisterRoom(c) ==
    /\ At(c, "register.room")
    /\ hasRoom' = hasRoom \cup {conn[c].user}
    /\ Goto(c, "register.join")
    /\ UNCHANGED <<hash, clients, current, session, member, online, serviceLock>>

\* user_rooms[username] raises KeyError when another thread has popped the key:
\* in the handshake handle_client then has no user name to unregister.
KeyError(c) ==
    Become(c, IF conn[c].inside THEN Serving(conn[c].user)
              ELSE [Closed EXCEPT !.at = "leaked", !.user = conn[c].user])

RegisterJoin(c) ==
    /\ At(c, "register.join")
    /\ LET u == conn[c].user IN
       IF u \notin hasRoom THEN KeyError(c) /\ UNCHANGED member
       ELSE /\ member' = member \cup {u}
            /\ IF conn[c].token = None THEN Goto(c, "register.welcome")
               ELSE Become(c, Serving(u))
    /\ UNCHANGED <<hash, clients, current, session, hasRoom, online, serviceLock>>

\* The welcome, which names the room.
RegisterWelcome(c) ==
    /\ At(c, "register.welcome")
    /\ IF conn[c].user \notin hasRoom THEN KeyError(c)
       ELSE Become(c, Serving(conn[c].user))
    /\ UNCHANGED <<hash, clients, current, session, hasRoom, member, online, serviceLock>>

------------------------------------------------------------------------------
(* unregister_client, by user name, under service.lock. *)

Disconnect(c) ==
    /\ At(c, "serving")
    /\ Goto(c, "bye.lock")
    /\ UNCHANGED <<hash, clients, current, session, hasRoom, member, online, serviceLock>>

\* Mutant of ByeRemove: the entry is taken out only when it is another's.
ByeRemoveOthers(c) ==
    /\ At(c, "bye.lock")
    /\ serviceLock = None
    /\ serviceLock' = c
    /\ clients' = [clients EXCEPT ![conn[c].user] = IF @ = c THEN c ELSE None]
    /\ Goto(c, "bye.leave")
    /\ UNCHANGED <<hash, current, session, hasRoom, member, online>>

\* connections.remove takes out whatever connection the account has now.
ByeRemove(c) ==
    /\ At(c, "bye.lock")
    /\ serviceLock = None
    /\ serviceLock' = c
    /\ clients' = [clients EXCEPT ![conn[c].user] = None]
    /\ Goto(c, "bye.leave")
    /\ UNCHANGED <<hash, current, session, hasRoom, member, online>>

ByeLeave(c) ==
    /\ At(c, "bye.leave")
    /\ member' = member \ {conn[c].user}
    /\ Goto(c, "bye.status")
    /\ UNCHANGED <<hash, clients, current, session, hasRoom, online, serviceLock>>

ByeStatus(c) ==
    /\ At(c, "bye.status")
    /\ online' = online \ {conn[c].user}
    /\ Goto(c, "bye.session")
    /\ UNCHANGED <<hash, clients, current, session, hasRoom, member, serviceLock>>

\* Mutant of ByeSession: the token is looked up and not popped.
ByeSessionKeeps(c) ==
    /\ At(c, "bye.session")
    /\ LET t == current[conn[c].user] IN
       session' = IF t = None THEN session ELSE [session EXCEPT ![t].active = FALSE]
    /\ Goto(c, "bye.forget")
    /\ UNCHANGED <<hash, clients, current, hasRoom, member, online, serviceLock>>

\* end_session ends the account's latest session, not the connection's own.
ByeSession(c) ==
    /\ At(c, "bye.session")
    /\ LET t == current[conn[c].user] IN
       session' = IF t = None THEN session ELSE [session EXCEPT ![t].active = FALSE]
    /\ current' = [current EXCEPT ![conn[c].user] = None]
    /\ Goto(c, "bye.forget")
    /\ UNCHANGED <<hash, clients, hasRoom, member, online, serviceLock>>

ByeForget(c) ==
    /\ At(c, "bye.forget")
    /\ hasRoom' = hasRoom \ {conn[c].user}
    /\ serviceLock' = None
    /\ Become(c, Closed)
    /\ UNCHANGED <<hash, clients, current, session, member, online>>

------------------------------------------------------------------------------
\* A session's last_seen is 15 minutes back.
Age(t) ==
    /\ "age" \in Ops
    /\ session[t] # None /\ ~session[t].stale
    /\ session' = [session EXCEPT ![t].stale = TRUE]
    /\ UNCHANGED <<hash, clients, current, hasRoom, member, online, conn, serviceLock>>

\* The server dies and starts again.  The tables stay, and with them the members
\* of the global room.
Crash ==
    /\ "crash" \in Ops
    /\ clients' = [u \in Account |-> None]
    /\ current' = [u \in Account |-> None]
    /\ hasRoom' = {}
    /\ online' = {}
    /\ conn' = [c \in Conn |-> Closed]
    /\ serviceLock' = None
    /\ UNCHANGED <<hash, session, member>>

\* A database with some accounts in it; no session is left from an earlier run.
Init ==
    /\ hash \in [Account -> Password \cup {None}]
    /\ clients = [u \in Account |-> None]
    /\ current = [u \in Account |-> None]
    /\ session = [t \in Token |-> None]
    /\ hasRoom = {} /\ member = {} /\ online = {}
    /\ conn = [c \in Conn |-> Closed]
    /\ serviceLock = None

Step(c) ==
    \/ Accept(c) \/ GiveUp(c)
    \/ \E u \in Account, p \in Password : SignUp(c, u, p) \/ LogIn(c, u, p)
    \/ SignUpSelect(c) \/ SignUpInsert(c) \/ SignUpUpdate(c)
    \/ LoginAdd(c) \/ LoginRoom(c) \/ LoginSession(c)
    \/ \E t \in Token : Restore(c, t)
    \/ RestoreGet(c) \/ RestoreRefresh(c) \/ ReCheck(c) \/ ReRoom(c) \/ ReAdd(c)
    \/ RegisterStatus(c) \/ RegisterRoom(c) \/ RegisterJoin(c) \/ RegisterWelcome(c)
    \/ Disconnect(c) \/ ByeRemove(c) \/ ByeLeave(c) \/ ByeStatus(c)
    \/ ByeSession(c) \/ ByeForget(c)

Next ==
    \/ \E c \in Conn : Step(c)
    \/ \E t \in Token : Age(t)
    \/ Crash

Spec == Init /\ [][Next]_vars

------------------------------------------------------------------------------
(* Properties. *)

\* The tables and maps hold values of their kind, and a handshake has never read
\* more packets than _authenticate allows.
TypeOK ==
    /\ hash \in [Account -> Password \cup {None}]
    /\ clients \in [Account -> Conn \cup {None}]
    /\ current \in [Account -> Token \cup {None}]
    /\ session \in [Token -> Session \cup {None}]
    /\ hasRoom \subseteq Account /\ member \subseteq Account /\ online \subseteq Account
    /\ conn \in [Conn -> Thread]
    /\ serviceLock \in Conn \cup {None}

\* The threads between the test for a duplicate login and the end.
Working(u) ==
    {c \in Conn : conn[c].user = u /\
                  conn[c].at \notin {"closed", "signup.select", "signup.insert",
                                     "signup.update"}}

\* ConnectionManager never holds a socket whose thread has ended or belongs to
\* somebody else: what is sent to an account reaches a connection of that
\* account.  (A connection whose registration raised is the exception.)
ConnectionsAreServed ==
    \A u \in Account :
        clients[u] # None =>
            /\ conn[clients[u]].user = u
            /\ conn[clients[u]].at \notin {"bye.leave", "bye.status", "bye.session",
                                           "bye.forget"}
            /\ clients[u] \in Working(u)

\* However many connections of an account overlap, in whatever order they come
\* and go, and after a crash too: when unregister_client ends and the account has
\* no other connection, nothing of it is left: no entry, no session to end, no
\* room, no membership, no status.
NothingLeft ==
    [][\A c \in Conn : At(c, "bye.forget") /\ conn'[c].at = "closed" =>
         LET u == conn[c].user IN
         Working(u) = {c} =>
            /\ clients'[u] = None /\ current'[u] = None
            /\ u \notin hasRoom' \cup member' \cup online']_vars
==============================================================================
