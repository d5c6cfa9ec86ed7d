--------------------------- MODULE Sessions_proofs ---------------------------
(***************************************************************************)
(* Proofs about Sessions, for any accounts, connections and tokens.        *)
(***************************************************************************)
EXTENDS Sessions, FiniteSetTheorems, TLAPS

(* What must hold beside ConnectionsAreServed for it to be inductive. *)

HasUser == Label \ {"closed", "auth", "restore.get"}

\* What a thread's label says of its locals.  The session a RECONNECT looks at
\* exists, and is the client's own when it is already served.
FitsIn(local, sess) ==
    /\ local \in Thread
    /\ local.at \in HasUser => local.user \in Account
    /\ local.at \in {"signup.select", "signup.insert", "signup.update"} =>
          local.password \in Password
    /\ local.at \in {"restore.get", "restore.refresh"} =>
          local.token \in Token /\ sess[local.token] # None
    /\ local.at = "restore.get" /\ local.inside =>
          local.user \in Account /\ sess[local.token].user = local.user

LocalsFit == \A c \in Conn : FitsIn(conn[c], session)

\* The token an account's session will be ended by is one that was issued.
CurrentsExist ==
    \A u \in Account : current[u] # None => session[current[u]] # None

\* The labels of a thread whose connection may be the account's entry: from
\* connections.add to connections.remove.
Entered(local) ==
    \/ local.at \in {"login.room", "login.session", "register.status", "register.room",
                     "register.join", "register.welcome", "serving", "leaked", "bye.lock"}
    \/ local.inside /\ local.at \in {"restore.get", "restore.refresh", "re.room"}

EntriesAreEntered ==
    \A u \in Account :
        clients[u] # None => conn[clients[u]].user = u /\ Entered(conn[clients[u]])

SessionsInv == TypeOK /\ LocalsFit /\ CurrentsExist /\ EntriesAreEntered

LEMMA InvImpliesServed == SessionsInv => ConnectionsAreServed
BY DEF SessionsInv, EntriesAreEntered, Entered, ConnectionsAreServed, Working, TypeOK, At

------------------------------------------------------------------------------
(* What a step of thread c must do for the invariant to stay. *)

\* Sessions are never deleted, nor given to another account, and those named in
\* current exist.
SessionsKept ==
    /\ session' \in [Token -> Session \cup {None}]
    /\ \A t \in Token : session[t] # None =>
          session'[t] # None /\ session'[t].user = session[t].user
    /\ CurrentsExist'

OtherTypes ==
    /\ hash \in [Account -> Password \cup {None}]
    /\ current \in [Account -> Token \cup {None}]
    /\ hasRoom \subseteq Account /\ member \subseteq Account /\ online \subseteq Account
    /\ serviceLock \in Conn \cup {None}

LEMMA FitsStays ==
    ASSUME SessionsKept, NEW local, FitsIn(local, session)
    PROVE  FitsIn(local, session')
BY DEF FitsIn, SessionsKept

LEMMA StepKeepsInv ==
    ASSUME SessionsInv, NEW c \in Conn, NEW local, Become(c, local),
           SessionsKept, OtherTypes', FitsIn(local, session'),
           clients' \in [Account -> Conn \cup {None}],
           \A u \in Account : clients'[u] # None =>
              \/ clients'[u] = clients[u] /\ clients[u] # c
              \/ clients'[u] = c /\ local.user = u /\ Entered(local)
    PROVE  SessionsInv'
<1>1. /\ conn' \in [Conn -> Thread]
      /\ conn'[c] = local
      /\ \A d \in Conn : d # c => conn'[d] = conn[d]
    BY DEF SessionsInv, TypeOK, Become, FitsIn
<1>2. TypeOK'
    BY <1>1 DEF TypeOK, SessionsKept, OtherTypes
<1>3. LocalsFit'
    <2>1. ASSUME NEW d \in Conn, d # c
          PROVE  FitsIn(conn'[d], session')
        <3>1. FitsIn(conn[d], session)
            BY DEF SessionsInv, LocalsFit
        <3>2. conn'[d] = conn[d]
            BY <1>1, <2>1
        <3>3. QED
            BY <3>1, <3>2 DEF FitsIn, SessionsKept
    <2>2. FitsIn(conn'[c], session')
        BY <1>1 DEF FitsIn
    <2>3. QED
        BY <2>1, <2>2 DEF LocalsFit
<1>4. EntriesAreEntered'
    <2> SUFFICES ASSUME NEW u \in Account, clients'[u] # None
                 PROVE  conn'[clients'[u]].user = u /\ Entered(conn'[clients'[u]])
        BY DEF EntriesAreEntered, Entered
    <2>1. CASE clients'[u] = clients[u] /\ clients[u] # c
        <3>1. clients[u] \in Conn /\ conn'[clients[u]] = conn[clients[u]]
            BY <1>1, <2>1 DEF SessionsInv, TypeOK
        <3>2. QED
            BY <2>1, <3>1 DEF SessionsInv, EntriesAreEntered
    <2>2. CASE clients'[u] = c /\ local.user = u /\ Entered(local)
        BY <1>1, <2>2
    <2>3. QED
        BY <2>1, <2>2
<1>5. QED
    BY <1>2, <1>3, <1>4 DEF SessionsInv, SessionsKept

\* A step that leaves the map of connections alone.
LEMMA QuietStep ==
    ASSUME SessionsInv, NEW c \in Conn, NEW local, Become(c, local),
           SessionsKept, OtherTypes', FitsIn(local, session'), UNCHANGED clients,
           Entered(conn[c]) => Entered(local) /\ local.user = conn[c].user
    PROVE  SessionsInv'
<1>1. \A u \in Account : clients[u] = c => local.user = u /\ Entered(local)
    BY SessionAssumption DEF SessionsInv, EntriesAreEntered
<1>2. clients' \in [Account -> Conn \cup {None}]
    BY DEF SessionsInv, TypeOK
<1>3. QED
    BY <1>1, <1>2, StepKeepsInv

LEMMA Given ==
    ASSUME SessionsInv
    PROVE  /\ OtherTypes
           /\ session \in [Token -> Session \cup {None}]
           /\ clients \in [Account -> Conn \cup {None}]
           /\ conn \in [Conn -> Thread]
           /\ \A c \in Conn : FitsIn(conn[c], session)
           /\ CurrentsExist
BY DEF SessionsInv, TypeOK, OtherTypes, LocalsFit

LEMMA SessionsStay ==
    ASSUME SessionsInv, UNCHANGED <<session, current>>
    PROVE  SessionsKept
BY DEF SessionsInv, TypeOK, CurrentsExist, SessionsKept

\* A thread moved to another label, for a user.
Moved(local, label, u) == [local EXCEPT !.at = label, !.user = u]

LEMMA MovedType ==
    ASSUME NEW local \in Thread, NEW label \in Label, NEW u \in Account
    PROVE  /\ Moved(local, label, u) \in Thread
           /\ Moved(local, label, u).at = label /\ Moved(local, label, u).user = u
           /\ Moved(local, label, u).token = local.token
           /\ Moved(local, label, u).inside = local.inside
BY DEF Thread, Moved

LEMMA ClosedIsThread ==
    /\ Closed \in Thread /\ Closed.at = "closed" /\ ~Closed.inside
    /\ "auth" \in Label /\ "serving" \in Label /\ "leaked" \in Label
    /\ "login.add" \in Label /\ "restore.refresh" \in Label
BY SessionAssumption DEF Closed, Thread, Label

LEMMA WaitType ==
    ASSUME NEW n \in 0 .. MaxPackets - 1
    PROVE  Wait(n) \in Thread /\ Wait(n).at = "auth"
BY ClosedIsThread DEF Wait, Thread

\* The two ends of a packet of the handshake.
LEMMA NextPacketType ==
    ASSUME SessionsInv, NEW c \in Conn, NextPacket(c)
    PROVE  \E local : Become(c, local) /\ FitsIn(local, session) /\ FitsIn(local, session')
                      /\ local.at \in {"closed", "auth"}
<1> DEFINE n == conn[c].packets + 1
           local == IF n = MaxPackets THEN Closed ELSE Wait(n)
<1>1. conn[c].packets \in 0 .. MaxPackets - 1
    BY Given DEF Thread
<1>2. local \in Thread /\ local.at \in {"closed", "auth"}
    <2>1. n = MaxPackets \/ n \in 0 .. MaxPackets - 1
        BY <1>1, SessionAssumption
    <2>2. QED
        BY <2>1, ClosedIsThread, WaitType
<1>3. FitsIn(local, session) /\ FitsIn(local, session')
    BY <1>2 DEF FitsIn, HasUser
<1>4. Become(c, local)
    BY DEF NextPacket
<1>5. QED
    BY <1>2, <1>3, <1>4

LEMMA ServingType ==
    ASSUME NEW u \in Account
    PROVE  /\ FitsIn(Serving(u), session) /\ FitsIn(Serving(u), session')
           /\ Serving(u).user = u /\ Entered(Serving(u))
<1>1. Serving(u) \in Thread /\ Serving(u).at = "serving" /\ Serving(u).user = u
    <2>1. Serving(u) = Moved(Closed, "serving", u)
        BY DEF Serving, Moved
    <2>2. QED
        BY <2>1, ClosedIsThread, MovedType
<1>2. QED
    BY <1>1 DEF FitsIn, HasUser, Label, Entered

LEMMA ClosedType == FitsIn(Closed, session) /\ FitsIn(Closed, session') /\ ~Entered(Closed)
<1>1. Closed \in Thread /\ Closed.at = "closed" /\ Closed.inside = FALSE
    BY SessionAssumption DEF Closed, Thread, Label
<1>2. QED
    BY <1>1 DEF FitsIn, HasUser, Entered

\* NextPacket, from a thread that has no entry.
LEMMA NextPacketStep ==
    ASSUME SessionsInv, NEW c \in Conn, NextPacket(c), ~Entered(conn[c]),
           UNCHANGED <<clients, session, current>>, OtherTypes'
    PROVE  SessionsInv'
<1>1. PICK local : Become(c, local) /\ FitsIn(local, session')
    BY NextPacketType
<1>2. QED
    BY <1>1, QuietStep, SessionsStay

\* Goto, within the labels that have a user.
LEMMA GotoStep ==
    ASSUME SessionsInv, NEW c \in Conn, NEW label \in HasUser, Goto(c, label),
           SessionsKept, OtherTypes', UNCHANGED clients,
           conn[c].at \in HasUser,
           label \in {"signup.insert", "signup.update"} => conn[c].at = "signup.select",
           label \notin {"signup.select", "restore.refresh"},
           Entered(conn[c]) => Entered([conn[c] EXCEPT !.at = label])
    PROVE  SessionsInv'
<1> DEFINE local == [conn[c] EXCEPT !.at = label]
<1>1. /\ local \in Thread /\ local.at = label
      /\ local.user = conn[c].user /\ local.password = conn[c].password
    BY Given DEF Thread, HasUser
<1>2. FitsIn(local, session')
    BY <1>1, Given DEF FitsIn, HasUser
<1>3. Become(c, local)
    BY DEF Goto, Become
<1>4. QED
    BY <1>1, <1>2, <1>3, QuietStep

------------------------------------------------------------------------------
(* REGISTER and LOGIN. *)

LEMMA SignUpSteps ==
    ASSUME SessionsInv, NEW c \in Conn,
           \/ Accept(c) \/ GiveUp(c)
           \/ \E u \in Account, p \in Password : SignUp(c, u, p)
           \/ SignUpSelect(c) \/ SignUpInsert(c) \/ SignUpUpdate(c)
    PROVE  SessionsInv'
<1>1. UNCHANGED <<clients, session, current>> /\ SessionsKept
    BY SessionsStay DEF Accept, GiveUp, SignUp, SignUpSelect, SignUpInsert, SignUpUpdate
<1>2. conn[c].at \in {"closed", "auth", "signup.select", "signup.insert", "signup.update"}
      /\ ~Entered(conn[c])
    BY DEF Accept, GiveUp, SignUp, SignUpSelect, SignUpInsert, SignUpUpdate, At, Entered
<1>3. OtherTypes'
    <2>1. conn[c].at \in {"signup.insert", "signup.update"} =>
             conn[c].user \in Account /\ conn[c].password \in Password
        BY Given DEF FitsIn, HasUser, Label
    <2>2. QED
        BY <2>1, Given
           DEF Accept, GiveUp, SignUp, SignUpSelect, SignUpInsert, SignUpUpdate, At,
               OtherTypes
<1>4. CASE Accept(c)
    <2>1. FitsIn(Wait(0), session')
        BY WaitType, SessionAssumption DEF FitsIn, HasUser
    <2>2. QED
        BY <1>1, <1>2, <1>3, <1>4, <2>1, QuietStep DEF Accept
<1>5. CASE GiveUp(c)
    BY <1>1, <1>2, <1>3, <1>5, ClosedType, QuietStep DEF GiveUp
<1>6. ASSUME NEW u \in Account, NEW p \in Password, SignUp(c, u, p)
      PROVE  SessionsInv'
    <2> DEFINE local == [conn[c] EXCEPT !.at = "signup.select", !.user = u, !.password = p]
    <2>1. /\ local \in Thread
          /\ local.at = "signup.select" /\ local.user = u /\ local.password = p
        BY Given DEF Thread, Label
    <2>2. FitsIn(local, session')
        BY <2>1 DEF FitsIn, HasUser
    <2>3. NextPacket(c) \/ Become(c, local)
        BY <1>6 DEF SignUp
    <2>4. QED
        BY <1>1, <1>2, <1>3, <2>2, <2>3, NextPacketStep, QuietStep
<1>7. CASE SignUpSelect(c)
    <2>1. PICK label \in {"signup.insert", "signup.update"} : Goto(c, label)
        BY <1>7 DEF SignUpSelect
    <2>2. conn[c].at = "signup.select"
        BY <1>7 DEF SignUpSelect, At
    <2>3. QED
        BY <1>1, <1>2, <1>3, <2>1, <2>2, GotoStep DEF HasUser, Label
<1>8. CASE SignUpInsert(c)
    BY <1>1, <1>2, <1>3, <1>8, ClosedType, NextPacketStep, QuietStep DEF SignUpInsert
<1>9. CASE SignUpUpdate(c)
    BY <1>1, <1>2, <1>3, <1>9, NextPacketStep DEF SignUpUpdate
<1>10. QED
    BY <1>4, <1>5, <1>6, <1>7, <1>8, <1>9

\* connections.add: the thread becomes the account's entry.
LEMMA AddStep ==
    ASSUME SessionsInv, NEW c \in Conn, NEW label \in {"login.room", "register.status"},
           conn[c].at \in {"login.add", "re.add"},
           clients' = [clients EXCEPT ![conn[c].user] = c],
           Goto(c, label), UNCHANGED <<session, current>>, OtherTypes'
    PROVE  SessionsInv'
<1> DEFINE local == [conn[c] EXCEPT !.at = label]
<1>1. /\ local \in Thread /\ local.at = label /\ local.user = conn[c].user
      /\ conn[c].user \in Account
    BY Given DEF Thread, FitsIn, HasUser, Label
<1>2. FitsIn(local, session') /\ Entered(local)
    BY <1>1 DEF FitsIn, Entered
<1>3. Become(c, local)
    BY DEF Goto, Become
<1>4. \A u \in Account : clients[u] # c \/ u = conn[c].user
    BY SessionAssumption DEF SessionsInv, EntriesAreEntered
<1>5. clients' \in [Account -> Conn \cup {None}]
    BY Given
<1>6. \A u \in Account : clients'[u] # None =>
         \/ clients'[u] = clients[u] /\ clients[u] # c
         \/ clients'[u] = c /\ local.user = u /\ Entered(local)
    BY <1>1, <1>2, <1>4, Given
<1>7. QED
    BY <1>2, <1>3, <1>5, <1>6, SessionsStay, StepKeepsInv

LEMMA LogInSteps ==
    ASSUME SessionsInv, NEW c \in Conn,
           \/ \E u \in Account, p \in Password : LogIn(c, u, p)
           \/ LoginAdd(c) \/ LoginRoom(c) \/ LoginSession(c)
    PROVE  SessionsInv'
<1>1. ASSUME NEW u \in Account, NEW p \in Password, LogIn(c, u, p)
      PROVE  SessionsInv'
    <2> DEFINE local == Moved(Closed, "login.add", u)
    <2>1. local \in Thread /\ local.at = "login.add" /\ local.user = u
        BY ClosedIsThread, MovedType
    <2>2. FitsIn(local, session')
        BY <2>1 DEF FitsIn, HasUser
    <2>3. ~Entered(conn[c]) /\ UNCHANGED <<clients, session, current>> /\ OtherTypes'
        BY <1>1, Given DEF LogIn, At, Entered, OtherTypes
    <2>4. Become(c, local) \/ NextPacket(c)
        BY <1>1 DEF LogIn, Moved
    <2>5. QED
        BY <2>2, <2>3, <2>4, NextPacketStep, QuietStep, SessionsStay
<1>2. CASE LoginAdd(c)
    <2>1. OtherTypes' /\ UNCHANGED <<session, current>>
        BY <1>2, Given DEF LoginAdd, OtherTypes
    <2>2. QED
        BY <1>2, <2>1, AddStep DEF LoginAdd, At
<1>3. CASE LoginRoom(c)
    <2>1. conn[c].at = "login.room" /\ conn[c].user \in Account
        BY <1>3, Given DEF LoginRoom, At, FitsIn, HasUser, Label
    <2>2. OtherTypes' /\ UNCHANGED <<clients, session, current>> /\ Goto(c, "login.session")
        BY <1>3, <2>1, Given DEF LoginRoom, OtherTypes
    <2>3. Entered([conn[c] EXCEPT !.at = "login.session"])
        BY Given DEF Entered, Thread
    <2>4. QED
        BY <2>1, <2>2, <2>3, GotoStep, SessionsStay DEF HasUser, Label
<1>4. CASE LoginSession(c)
    <2>1. conn[c].at = "login.session" /\ conn[c].user \in Account
        BY <1>4, Given DEF LoginSession, At, FitsIn, HasUser, Label
    <2>2. PICK t \in Token :
             /\ session[t] = None
             /\ session' = [session EXCEPT ![t] =
                              [user |-> conn[c].user, active |-> TRUE, stale |-> FALSE]]
             /\ current' = [current EXCEPT ![conn[c].user] = t]
        BY <1>4 DEF LoginSession
    <2>3. [user |-> conn[c].user, active |-> TRUE, stale |-> FALSE] \in Session
        BY <2>1 DEF Session
    <2>4. SessionsKept
        BY <2>1, <2>2, <2>3, Given, NoneAssumption DEF SessionsKept, CurrentsExist, OtherTypes
    <2>5. OtherTypes' /\ UNCHANGED clients /\ Goto(c, "register.status")
        BY <1>4, <2>1, <2>2, Given DEF LoginSession, OtherTypes
    <2>6. Entered([conn[c] EXCEPT !.at = "register.status"])
        BY Given DEF Entered, Thread
    <2>7. QED
        BY <2>1, <2>4, <2>5, <2>6, GotoStep DEF HasUser, Label
<1>5. QED
    BY <1>1, <1>2, <1>3, <1>4

------------------------------------------------------------------------------
(* RECONNECT. *)

LEMMA RestoreStep ==
    ASSUME SessionsInv, NEW c \in Conn, NEW t \in Token, Restore(c, t)
    PROVE  SessionsInv'
<1> DEFINE local == [conn[c] EXCEPT !.at = "restore.get", !.token = t,
                                    !.inside = At(c, "serving")]
<1>1. SessionsKept
    <2>1. \A s \in Token : session[s] # None =>
             /\ session[s] \in Session
             /\ [session[s] EXCEPT !.active = FALSE] \in Session
             /\ [session[s] EXCEPT !.active = FALSE].user = session[s].user
        BY Given DEF Session
    <2>2. session' = [s \in Token |->
                        IF session[s] # None /\ session[s].stale
                        THEN [session[s] EXCEPT !.active = FALSE] ELSE session[s]]
        BY DEF Restore
    <2>3. UNCHANGED current
        BY DEF Restore
    <2>4. QED
        BY <2>1, <2>2, <2>3, Given, NoneAssumption
           DEF SessionsKept, CurrentsExist, OtherTypes
<1>2. OtherTypes' /\ UNCHANGED clients /\ Become(c, local)
    BY Given DEF Restore, OtherTypes
<1>3. /\ local \in Thread /\ local.at = "restore.get" /\ local.token = t
      /\ local.user = conn[c].user /\ local.inside = (conn[c].at = "serving")
    BY Given DEF Thread, Label, At
<1>4. conn[c].at = "serving" =>
         session[t].user = conn[c].user /\ conn[c].user \in Account
    BY Given DEF Restore, At, FitsIn, HasUser, Label
<1>5. session[t] # None /\ conn[c].at \in {"auth", "serving"}
    BY DEF Restore, At
<1>6. FitsIn(local, session)
    BY <1>3, <1>4, <1>5 DEF FitsIn, HasUser
<1>7. FitsIn(local, session')
    BY <1>1, <1>6, FitsStays
<1>8. Entered(conn[c]) => Entered(local)
    BY <1>3, <1>5 DEF Entered
<1>9. QED
    BY <1>1, <1>2, <1>3, <1>7, <1>8, QuietStep

LEMMA RefuseStep ==
    ASSUME SessionsInv, NEW c \in Conn, Refuse(c),
           conn[c].at \in {"restore.get", "re.check"},
           UNCHANGED <<clients, session, current>>, OtherTypes'
    PROVE  SessionsInv'
<1>1. CASE conn[c].inside
    <2>1. conn[c].user \in Account
        BY <1>1, Given DEF FitsIn, HasUser, Label
    <2>2. Become(c, Serving(conn[c].user))
        BY <1>1 DEF Refuse
    <2>3. QED
        BY <2>1, <2>2, ServingType, QuietStep, SessionsStay
<1>2. CASE ~conn[c].inside
    <2>1. NextPacket(c) /\ ~Entered(conn[c])
        BY <1>2 DEF Refuse, Entered
    <2>2. QED
        BY <2>1, NextPacketStep
<1>3. QED
    BY <1>1, <1>2

LEMMA ReconnectSteps ==
    ASSUME SessionsInv, NEW c \in Conn,
           RestoreGet(c) \/ RestoreRefresh(c) \/ ReCheck(c) \/ ReRoom(c) \/ ReAdd(c)
    PROVE  SessionsInv'
<1> DEFINE t == conn[c].token
<1>1. CASE RestoreGet(c)
    <2>1. /\ conn[c].at = "restore.get" /\ t \in Token /\ session[t] \in Session
          /\ conn[c].inside => conn[c].user = session[t].user
        BY <1>1, Given DEF RestoreGet, At, FitsIn
    <2>2. OtherTypes' /\ UNCHANGED <<clients, session, current>> /\ SessionsKept
        BY <1>1, Given, SessionsStay DEF RestoreGet, OtherTypes
    <2>3. CASE session[t].active
        <3> DEFINE local == Moved(conn[c], "restore.refresh", session[t].user)
        <3>1. /\ local \in Thread /\ local.at = "restore.refresh" /\ local.token = t
              /\ local.user = session[t].user /\ local.user \in Account
              /\ local.inside = conn[c].inside
            <4>1. session[t].user \in Account
                BY <2>1 DEF Session
            <4>2. QED
                BY <4>1, Given, ClosedIsThread, MovedType
        <3>2. FitsIn(local, session)
            BY <2>1, <3>1, Given, NoneAssumption DEF FitsIn
        <3>3. FitsIn(local, session')
            BY <2>2, <3>2, FitsStays
        <3>4. Entered(conn[c]) => Entered(local) /\ local.user = conn[c].user
            BY <2>1, <3>1 DEF Entered
        <3>5. Become(c, local)
            BY <1>1, <2>3 DEF RestoreGet, Moved
        <3>6. QED
            BY <2>2, <3>3, <3>4, <3>5, QuietStep
    <2>4. CASE ~session[t].active
        BY <1>1, <2>1, <2>2, <2>4, RefuseStep DEF RestoreGet
    <2>5. QED
        BY <2>3, <2>4
<1>2. CASE RestoreRefresh(c)
    <2>1. conn[c].at = "restore.refresh" /\ t \in Token /\ session[t] \in Session
        BY <1>2, Given DEF RestoreRefresh, At, FitsIn
    <2>2. SessionsKept
        <3> DEFINE new == [session[t] EXCEPT !.active = TRUE, !.stale = FALSE]
        <3>1. new \in Session /\ new.user = session[t].user
            BY <2>1 DEF Session
        <3>2. session' = [session EXCEPT ![t] = new]
            BY <1>2, <2>1, Given DEF RestoreRefresh
        <3>3. UNCHANGED current
            BY <1>2 DEF RestoreRefresh
        <3>4. QED
            BY <2>1, <3>1, <3>2, <3>3, Given, NoneAssumption
               DEF SessionsKept, CurrentsExist, OtherTypes
    <2>3. OtherTypes' /\ UNCHANGED clients
        BY <1>2, Given DEF RestoreRefresh, OtherTypes
    <2>4. PICK label \in {"re.room", "re.check"} :
             Goto(c, label) /\ (conn[c].inside => label = "re.room")
        BY <1>2 DEF RestoreRefresh
    <2>5. Entered(conn[c]) => Entered([conn[c] EXCEPT !.at = label])
        BY <2>1, <2>4, Given DEF Entered, Thread
    <2>6. QED
        BY <2>1, <2>2, <2>3, <2>4, <2>5, GotoStep DEF HasUser, Label
<1>3. CASE ReCheck(c)
    <2>1. conn[c].at = "re.check" /\ ~Entered(conn[c])
        BY <1>3 DEF ReCheck, At, Entered
    <2>2. OtherTypes' /\ UNCHANGED <<clients, session, current>> /\ SessionsKept
        BY <1>3, Given, SessionsStay DEF ReCheck, OtherTypes
    <2>3. Goto(c, "re.room") \/ Refuse(c)
        BY <1>3 DEF ReCheck
    <2>4. QED
        BY <2>1, <2>2, <2>3, GotoStep, RefuseStep DEF HasUser, Label
<1>4. CASE ReRoom(c)
    <2>1. conn[c].at = "re.room" /\ conn[c].user \in Account
        BY <1>4, Given DEF ReRoom, At, FitsIn, HasUser, Label
    <2>2. OtherTypes' /\ UNCHANGED <<clients, session, current>> /\ SessionsKept
        BY <1>4, <2>1, Given, SessionsStay DEF ReRoom, OtherTypes
    <2>3. PICK label \in {"register.status", "re.add"} :
             Goto(c, label) /\ (conn[c].inside => label = "register.status")
        BY <1>4 DEF ReRoom
    <2>4. Entered(conn[c]) => Entered([conn[c] EXCEPT !.at = label])
        BY <2>1, <2>3, Given DEF Entered, Thread
    <2>5. QED
        BY <2>1, <2>2, <2>3, <2>4, GotoStep DEF HasUser, Label
<1>5. CASE ReAdd(c)
    <2>1. OtherTypes' /\ UNCHANGED <<session, current>>
        BY <1>5, Given DEF ReAdd, OtherTypes
    <2>2. QED
        BY <1>5, <2>1, AddStep DEF ReAdd, At
<1>6. QED
    BY <1>1, <1>2, <1>3, <1>4, <1>5

------------------------------------------------------------------------------
(* register_client and unregister_client. *)

LEMMA RegisterSteps ==
    ASSUME SessionsInv, NEW c \in Conn,
           RegisterStatus(c) \/ RegisterRoom(c) \/ RegisterJoin(c) \/ RegisterWelcome(c)
    PROVE  SessionsInv'
<1> DEFINE u == conn[c].user
<1>1. /\ conn[c].at \in {"register.status", "register.room", "register.join",
                         "register.welcome"}
      /\ u \in Account
    BY Given
       DEF RegisterStatus, RegisterRoom, RegisterJoin, RegisterWelcome, At, FitsIn, HasUser,
           Label
<1>2. OtherTypes' /\ UNCHANGED <<clients, session, current>> /\ SessionsKept
    BY <1>1, Given, SessionsStay
       DEF RegisterStatus, RegisterRoom, RegisterJoin, RegisterWelcome, OtherTypes
<1>3. ASSUME NEW label \in {"register.room", "register.join", "register.welcome"},
             Goto(c, label)
      PROVE  SessionsInv'
    <2>1. Entered([conn[c] EXCEPT !.at = label])
        BY Given DEF Entered, Thread
    <2>2. QED
        BY <1>1, <1>2, <1>3, <2>1, GotoStep DEF HasUser, Label
<1>4. ASSUME Become(c, Serving(u))
      PROVE  SessionsInv'
    BY <1>1, <1>2, <1>4, ServingType, QuietStep
<1>5. ASSUME KeyError(c)
      PROVE  SessionsInv'
    <2> DEFINE local == Moved(Closed, "leaked", u)
    <2>1. local \in Thread /\ local.at = "leaked" /\ local.user = u
        BY <1>1, ClosedIsThread, MovedType
    <2>2. FitsIn(local, session') /\ Entered(local)
        BY <1>1, <2>1 DEF FitsIn, Entered
    <2>3. Become(c, local) \/ Become(c, Serving(u))
        BY <1>5 DEF KeyError, Moved
    <2>4. QED
        BY <1>2, <1>4, <2>1, <2>2, <2>3, QuietStep
<1>6. QED
    BY <1>3, <1>4, <1>5 DEF RegisterStatus, RegisterRoom, RegisterJoin, RegisterWelcome

LEMMA ByeSteps ==
    ASSUME SessionsInv, NEW c \in Conn,
           \/ Disconnect(c) \/ ByeRemove(c) \/ ByeLeave(c) \/ ByeStatus(c)
           \/ ByeSession(c) \/ ByeForget(c)
    PROVE  SessionsInv'
<1> DEFINE u == conn[c].user
<1>1. /\ conn[c].at \in {"serving", "bye.lock", "bye.leave", "bye.status", "bye.session",
                         "bye.forget"}
      /\ u \in Account
    BY Given
       DEF Disconnect, ByeRemove, ByeLeave, ByeStatus, ByeSession, ByeForget, At, FitsIn,
           HasUser, Label
<1>2. OtherTypes'
    BY <1>1, Given
       DEF Disconnect, ByeRemove, ByeLeave, ByeStatus, ByeSession, ByeForget, OtherTypes
<1>3. ASSUME NEW label \in {"bye.lock", "bye.status", "bye.session", "bye.forget"},
             Goto(c, label), UNCHANGED clients, SessionsKept,
             label = "bye.lock" \/ conn[c].at \in {"bye.leave", "bye.status", "bye.session"}
      PROVE  SessionsInv'
    <2>1. Entered(conn[c]) => Entered([conn[c] EXCEPT !.at = label])
        BY <1>3, Given DEF Entered, Thread
    <2>2. QED
        BY <1>1, <1>2, <1>3, <2>1, GotoStep DEF HasUser, Label
<1>4. CASE Disconnect(c)
    BY <1>3, <1>4, SessionsStay DEF Disconnect
<1>5. CASE ByeRemove(c)
    <2> DEFINE local == [conn[c] EXCEPT !.at = "bye.leave"]
    <2>1. local \in Thread /\ local.at = "bye.leave" /\ local.user = u
        BY Given DEF Thread, Label
    <2>2. FitsIn(local, session')
        BY <1>1, <2>1 DEF FitsIn
    <2>3. \A x \in Account : clients[x] # c \/ x = u
        BY SessionAssumption DEF SessionsInv, EntriesAreEntered
    <2>4. clients' = [clients EXCEPT ![u] = None] /\ UNCHANGED <<session, current>> /\ Become(c, local)
        BY <1>5 DEF ByeRemove, Goto, Become
    <2>5. clients' \in [Account -> Conn \cup {None}]
        BY <2>4, Given
    <2>6. \A x \in Account : clients'[x] # None => clients'[x] = clients[x] /\ clients[x] # c
        BY <1>1, <2>3, <2>4, Given
    <2>7. QED
        BY <1>2, <2>2, <2>4, <2>5, <2>6, SessionsStay, StepKeepsInv
<1>6. CASE ByeLeave(c)
    BY <1>3, <1>6, SessionsStay DEF ByeLeave, At
<1>7. CASE ByeStatus(c)
    BY <1>3, <1>7, SessionsStay DEF ByeStatus, At
<1>8. CASE ByeSession(c)
    <2> DEFINE t == current[u]
    <2>1. t \in Token \cup {None}
        BY <1>1, Given DEF OtherTypes
    <2>2. /\ session' = IF t = None THEN session ELSE [session EXCEPT ![t].active = FALSE]
          /\ current' = [current EXCEPT ![u] = None]
        BY <1>8 DEF ByeSession
    <2>3. SessionsKept
        <3>1. CASE t = None
            BY <1>1, <2>2, <3>1, Given DEF SessionsKept, CurrentsExist, OtherTypes
        <3>2. CASE t # None
            <4> DEFINE new == [session[t] EXCEPT !.active = FALSE]
            <4>1. new \in Session /\ new.user = session[t].user
                BY <1>1, <2>1, <3>2, Given DEF Session, CurrentsExist
            <4>2. session' = [session EXCEPT ![t] = new]
                BY <2>1, <2>2, <3>2, Given
            <4>3. QED
                BY <1>1, <2>1, <2>2, <3>2, <4>1, <4>2, Given, NoneAssumption
                   DEF SessionsKept, CurrentsExist, OtherTypes
        <3>3. QED
            BY <3>1, <3>2
    <2>4. QED
        BY <1>3, <1>8, <2>3 DEF ByeSession, At
<1>9. CASE ByeForget(c)
    BY <1>2, <1>9, ClosedType, QuietStep, SessionsStay DEF ByeForget, At, Entered
<1>10. QED
    BY <1>4, <1>5, <1>6, <1>7, <1>8, <1>9

------------------------------------------------------------------------------
(* The rest, and the theorems. *)

LEMMA InitInv == Init => SessionsInv
<1> SUFFICES ASSUME Init PROVE SessionsInv
    OBVIOUS
<1>1. TypeOK
    BY ClosedIsThread DEF Init, TypeOK
<1>2. \A c \in Conn : FitsIn(conn[c], session)
    BY ClosedType DEF Init
<1>3. QED
    BY <1>1, <1>2 DEF Init, SessionsInv, LocalsFit, CurrentsExist, EntriesAreEntered

LEMMA AgeInv ==
    ASSUME SessionsInv, NEW t \in Token, Age(t)
    PROVE  SessionsInv'
<1> DEFINE new == [session[t] EXCEPT !.stale = TRUE]
<1>1. session[t] \in Session /\ new \in Session /\ new.user = session[t].user
    BY Given DEF Age, Session
<1>2. session' = [session EXCEPT ![t] = new] /\ UNCHANGED current
    BY Given DEF Age
<1>3. SessionsKept
    BY <1>1, <1>2, Given, NoneAssumption DEF SessionsKept, CurrentsExist, OtherTypes
<1>4. UNCHANGED <<hash, clients, current, hasRoom, member, online, conn, serviceLock>>
    BY DEF Age
<1>5. LocalsFit'
    <2>1. \A c \in Conn : FitsIn(conn[c], session')
        BY <1>3, Given, FitsStays
    <2>2. QED
        BY <1>4, <2>1 DEF LocalsFit
<1>6. TypeOK'
    BY <1>3, <1>4 DEF SessionsInv, TypeOK, SessionsKept
<1>7. EntriesAreEntered'
    BY <1>4 DEF SessionsInv, EntriesAreEntered, Entered
<1>8. QED
    BY <1>3, <1>5, <1>6, <1>7 DEF SessionsInv, SessionsKept

LEMMA CrashInv == ASSUME SessionsInv, Crash PROVE SessionsInv'
<1>1. TypeOK'
    BY ClosedIsThread DEF SessionsInv, TypeOK, Crash
<1>2. \A c \in Conn : FitsIn(Closed, session')
    BY ClosedType
<1>3. LocalsFit'
    BY <1>2 DEF LocalsFit, Crash
<1>4. CurrentsExist' /\ EntriesAreEntered'
    BY DEF Crash, CurrentsExist, EntriesAreEntered
<1>5. QED
    BY <1>1, <1>3, <1>4 DEF SessionsInv

LEMMA StutterInv == ASSUME SessionsInv, UNCHANGED vars PROVE SessionsInv'
BY DEF vars, SessionsInv, TypeOK, LocalsFit, CurrentsExist, EntriesAreEntered, Entered, FitsIn

LEMMA NextInv == SessionsInv /\ [Next]_vars => SessionsInv'
<1> SUFFICES ASSUME SessionsInv, [Next]_vars PROVE SessionsInv'
    OBVIOUS
<1>1. ASSUME NEW c \in Conn, Step(c) PROVE SessionsInv'
    BY <1>1, SignUpSteps, LogInSteps, RestoreStep, ReconnectSteps, RegisterSteps, ByeSteps
       DEF Step
<1>2. QED
    BY <1>1, AgeInv, CrashInv, StutterInv DEF Next

\* SessionsInv holds, however connections of an account overlap (server.py, service.py:462).
THEOREM SessionsInvariant == Spec => []SessionsInv
BY InitInv, NextInv, PTL DEF Spec

\* The types of every table, map and thread of the handshake, for any accounts,
\* connections and session tokens (server.py, session_manager.py).
THEOREM SessionsTypes == Spec => []TypeOK
<1>1. SessionsInv => TypeOK
    BY DEF SessionsInv
<1>2. QED
    BY <1>1, SessionsInvariant, PTL

\* ConnectionManager.clients never holds a connection whose thread has ended or
\* serves another account, however many connections of an account overlap.
THEOREM EntriesAreServed == Spec => []ConnectionsAreServed
BY SessionsInvariant, InvImpliesServed, PTL
------------------------------------------------------------------------------
(* What unregister_client leaves behind. *)

\* The labels of the thread that holds service.lock.
Unregistering == {"bye.leave", "bye.status", "bye.session", "bye.forget"}

\* Another connection of the account will take away what it has put there.
Owed(u) == \E d \in Conn : conn[d].user = u /\ Entered(conn[d])

\* What unregister_client has taken away is there again only if it is owed.
LeavesOwed(c) ==
    LET u == conn[c].user IN
    /\ conn[c].at \in Unregistering => serviceLock = c
    /\ conn[c].at \in Unregistering \ {"bye.leave"} /\ u \in member => Owed(u)
    /\ conn[c].at \in {"bye.session", "bye.forget"} /\ u \in online => Owed(u)
    /\ conn[c].at = "bye.forget" /\ current[u] # None => Owed(u)

LeftInv == SessionsInv /\ \A c \in Conn : LeavesOwed(c)

\* A step of a thread outside the lock: what it puts there it owes.
Passing(c) ==
    /\ UNCHANGED serviceLock
    /\ conn[c].at \notin Unregistering /\ conn'[c].at \notin Unregistering
    /\ \A d \in Conn : d # c => conn'[d] = conn[d]
    /\ Entered(conn[c]) => Entered(conn'[c]) /\ conn'[c].user = conn[c].user
    /\ \A u \in Account :
         \/ Entered(conn'[c]) /\ conn'[c].user = u
         \/ (u \in member' => u \in member) /\ (u \in online' => u \in online)
            /\ (current'[u] # None => current[u] # None)

LEMMA BecomeFields ==
    ASSUME SessionsInv, NEW c \in Conn, NEW local, Become(c, local)
    PROVE  conn'[c] = local /\ \A d \in Conn : d # c => conn'[d] = conn[d]
BY Given DEF Become

LEMMA GotoFields ==
    ASSUME SessionsInv, NEW c \in Conn, NEW label, Goto(c, label)
    PROVE  /\ conn'[c].at = label /\ conn'[c].user = conn[c].user
           /\ conn'[c].inside = conn[c].inside
           /\ \A d \in Conn : d # c => conn'[d] = conn[d]
<1>1. conn'[c] = [conn[c] EXCEPT !.at = label] /\ \A d \in Conn : d # c => conn'[d] = conn[d]
    BY Given DEF Goto
<1>2. conn[c] \in Thread
    BY Given
<1>. QED BY <1>1, <1>2 DEF Thread

\* A step that changes none of it.
LEMMA PassesBy ==
    ASSUME SessionsInv, NEW c \in Conn,
           UNCHANGED <<member, online, current, serviceLock>>,
           conn[c].at \notin Unregistering, conn'[c].at \notin Unregistering,
           \A d \in Conn : d # c => conn'[d] = conn[d],
           Entered(conn[c]) => Entered(conn'[c]) /\ conn'[c].user = conn[c].user
    PROVE  Passing(c)
BY DEF Passing

LEMMA PacketFields ==
    ASSUME SessionsInv, NEW c \in Conn, NextPacket(c)
    PROVE  /\ conn'[c].at \notin Unregistering
           /\ \A d \in Conn : d # c => conn'[d] = conn[d]
BY NextPacketType, BecomeFields DEF Unregistering

LEMMA SignUpPasses ==
    ASSUME SessionsInv, NEW c \in Conn,
           \/ Accept(c) \/ GiveUp(c)
           \/ \E u \in Account, p \in Password : SignUp(c, u, p) \/ LogIn(c, u, p)
           \/ SignUpSelect(c) \/ SignUpInsert(c) \/ SignUpUpdate(c)
    PROVE  Passing(c)
<1>1. UNCHANGED <<member, online, current, serviceLock>>
    BY DEF Accept, GiveUp, SignUp, LogIn, SignUpSelect, SignUpInsert, SignUpUpdate
<1>2. conn[c].at \in {"closed", "auth", "signup.select", "signup.insert", "signup.update"}
      /\ ~Entered(conn[c])
    BY DEF Accept, GiveUp, SignUp, LogIn, SignUpSelect, SignUpInsert, SignUpUpdate, At, Entered
<1>3. ASSUME NEW local, Become(c, local), local.at \notin Unregistering
      PROVE  Passing(c)
    BY <1>1, <1>2, <1>3, BecomeFields, PassesBy DEF Unregistering
<1>4. ASSUME NextPacket(c) PROVE Passing(c)
    BY <1>1, <1>2, <1>4, PacketFields, PassesBy DEF Unregistering
<1>5. CASE Accept(c)
    <2>1. Wait(0).at = "auth"
        BY WaitType, SessionAssumption
    <2>. QED BY <1>3, <1>5, <2>1 DEF Accept, Unregistering
<1>6. CASE GiveUp(c)
    BY <1>3, <1>6, ClosedIsThread DEF GiveUp, Unregistering
<1>7. ASSUME NEW u \in Account, NEW p \in Password, SignUp(c, u, p) PROVE Passing(c)
    <2> DEFINE local == [conn[c] EXCEPT !.at = "signup.select", !.user = u, !.password = p]
    <2>1. local.at = "signup.select"
        BY Given DEF Thread
    <2>2. NextPacket(c) \/ Become(c, local)
        BY <1>7 DEF SignUp
    <2>. QED BY <1>3, <1>4, <2>1, <2>2 DEF Unregistering
<1>8. ASSUME NEW u \in Account, NEW p \in Password, LogIn(c, u, p) PROVE Passing(c)
    <2> DEFINE local == Moved(Closed, "login.add", u)
    <2>1. local.at = "login.add"
        BY ClosedIsThread, MovedType
    <2>2. NextPacket(c) \/ Become(c, local)
        BY <1>8 DEF LogIn, Moved
    <2>. QED BY <1>3, <1>4, <2>1, <2>2 DEF Unregistering
<1>9. CASE SignUpSelect(c)
    <2>1. PICK label \in {"signup.insert", "signup.update"} : Goto(c, label)
        BY <1>9 DEF SignUpSelect
    <2>. QED BY <1>1, <1>2, <2>1, GotoFields, PassesBy DEF Unregistering
<1>10. CASE SignUpInsert(c)
    BY <1>3, <1>4, <1>10, ClosedIsThread DEF SignUpInsert, Unregistering
<1>11. CASE SignUpUpdate(c)
    BY <1>4, <1>11 DEF SignUpUpdate
<1>. QED BY <1>5, <1>6, <1>7, <1>8, <1>9, <1>10, <1>11

\* Goto, of a thread that is the account's or becomes it: all the rest is its account's.
LEMMA GoesOn ==
    ASSUME SessionsInv, NEW c \in Conn, NEW label, Goto(c, label),
           UNCHANGED serviceLock,
           conn[c].at \notin Unregistering, label \notin Unregistering,
           Entered(conn[c]) =>
              \/ label \in {"login.room", "login.session", "register.status", "register.room",
                            "register.join", "register.welcome", "serving", "leaked", "bye.lock"}
              \/ conn[c].inside /\ label = "re.room",
           \A u \in Account :
              \/ u = conn[c].user /\ label \in {"register.status", "register.room", "register.welcome"}
              \/ (u \in member' => u \in member) /\ (u \in online' => u \in online)
                 /\ (current'[u] # None => current[u] # None)
    PROVE  Passing(c)
<1>1. /\ conn'[c].at = label /\ conn'[c].user = conn[c].user
      /\ conn'[c].inside = conn[c].inside
      /\ \A d \in Conn : d # c => conn'[d] = conn[d]
    BY GotoFields
<1>2. Entered(conn[c]) => Entered(conn'[c])
    BY <1>1 DEF Entered
<1>3. label \in {"register.status", "register.room", "register.welcome"} => Entered(conn'[c])
    BY <1>1 DEF Entered
<1>. QED BY <1>1, <1>2, <1>3 DEF Passing

LEMMA LoginPasses ==
    ASSUME SessionsInv, NEW c \in Conn,
           LoginAdd(c) \/ LoginRoom(c) \/ LoginSession(c)
    PROVE  Passing(c)
<1>1. CASE LoginAdd(c)
    BY <1>1, GoesOn DEF LoginAdd, At, Unregistering
<1>2. CASE LoginRoom(c)
    BY <1>2, GoesOn DEF LoginRoom, At, Unregistering
<1>3. CASE LoginSession(c)
    <2>1. PICK t \in Token : current' = [current EXCEPT ![conn[c].user] = t]
        BY <1>3 DEF LoginSession
    <2>2. \A u \in Account : u # conn[c].user => current'[u] = current[u]
        BY <2>1, Given DEF OtherTypes
    <2>3. UNCHANGED <<member, online, serviceLock>> /\ Goto(c, "register.status")
          /\ conn[c].at = "login.session"
        BY <1>3 DEF LoginSession, At
    <2>. QED BY <2>2, <2>3, GoesOn DEF Unregistering
<1>. QED BY <1>1, <1>2, <1>3

LEMMA ServingAt ==
    ASSUME NEW u \in Account
    PROVE  Serving(u).at = "serving" /\ Serving(u).user = u
<1>1. Serving(u) = Moved(Closed, "serving", u)
    BY DEF Serving, Moved
<1>. QED BY <1>1, ClosedIsThread, MovedType

LEMMA RefusePasses ==
    ASSUME SessionsInv, NEW c \in Conn, Refuse(c),
           conn[c].at \in {"restore.get", "re.check"},
           UNCHANGED <<member, online, current, serviceLock>>
    PROVE  Passing(c)
<1>1. conn[c].at \notin Unregistering
    BY DEF Unregistering
<1>2. CASE conn[c].inside
    <2>1. conn[c].user \in Account
        BY <1>2, Given DEF FitsIn, HasUser, Label
    <2>2. Become(c, Serving(conn[c].user))
        BY <1>2 DEF Refuse
    <2>3. Serving(conn[c].user).at = "serving" /\ Serving(conn[c].user).user = conn[c].user
        BY ServingAt, <2>1
    <2>4. Entered(conn'[c]) /\ conn'[c].user = conn[c].user /\ conn'[c].at = "serving"
          /\ \A d \in Conn : d # c => conn'[d] = conn[d]
        BY <2>2, <2>3, BecomeFields DEF Entered
    <2>. QED BY <1>1, <2>4, PassesBy DEF Unregistering
<1>3. CASE ~conn[c].inside
    <2>1. NextPacket(c) /\ ~Entered(conn[c])
        BY <1>3 DEF Refuse, Entered
    <2>. QED BY <1>1, <2>1, PacketFields, PassesBy
<1>. QED BY <1>2, <1>3

LEMMA ReconnectPasses ==
    ASSUME SessionsInv, NEW c \in Conn,
           \/ \E t \in Token : Restore(c, t)
           \/ RestoreGet(c) \/ RestoreRefresh(c) \/ ReCheck(c) \/ ReRoom(c) \/ ReAdd(c)
    PROVE  Passing(c)
<1>1. UNCHANGED <<member, online, current, serviceLock>>
    BY DEF Restore, RestoreGet, RestoreRefresh, ReCheck, ReRoom, ReAdd
<1>2. conn[c].at \notin Unregistering
    BY DEF Restore, RestoreGet, RestoreRefresh, ReCheck, ReRoom, ReAdd, At, Unregistering
<1>3. ASSUME NEW t \in Token, Restore(c, t) PROVE Passing(c)
    <2> DEFINE local == [conn[c] EXCEPT !.at = "restore.get", !.token = t,
                                        !.inside = At(c, "serving")]
    <2>1. /\ local.at = "restore.get" /\ local.user = conn[c].user
          /\ local.inside = (conn[c].at = "serving")
        BY Given DEF Thread, At
    <2>2. conn[c].at \in {"auth", "serving"} /\ Become(c, local)
        BY <1>3 DEF Restore, At
    <2>3. Entered(conn[c]) => Entered(local)
        BY <2>1, <2>2 DEF Entered
    <2>4. conn'[c] = local /\ \A d \in Conn : d # c => conn'[d] = conn[d]
        BY <2>2, BecomeFields
    <2> HIDE DEF local
    <2>. QED BY <1>1, <1>2, <2>1, <2>3, <2>4, PassesBy DEF Unregistering
<1>4. CASE RestoreGet(c)
    <2> DEFINE t == conn[c].token
               local == Moved(conn[c], "restore.refresh", session[t].user)
    <2>1. /\ conn[c].at = "restore.get" /\ t \in Token /\ session[t] \in Session
          /\ conn[c].inside => conn[c].user = session[t].user
        BY <1>4, Given DEF RestoreGet, At, FitsIn
    <2>2. session[t].user \in Account
        BY <2>1 DEF Session
    <2>3. local.at = "restore.refresh" /\ local.user = session[t].user
          /\ local.inside = conn[c].inside
        BY <2>2, Given, ClosedIsThread, MovedType
    <2>4. Entered(conn[c]) => Entered(local) /\ local.user = conn[c].user
        BY <2>1, <2>3 DEF Entered
    <2>5. Become(c, local) \/ Refuse(c)
        BY <1>4 DEF RestoreGet, Moved
    <2> HIDE DEF local
    <2>6. CASE Become(c, local)
        <3>1. conn'[c] = local /\ \A d \in Conn : d # c => conn'[d] = conn[d]
            BY <2>6, BecomeFields
        <3>. QED BY <1>1, <1>2, <2>3, <2>4, <3>1, PassesBy DEF Unregistering
    <2>. QED BY <1>1, <2>1, <2>5, <2>6, RefusePasses
<1>5. CASE RestoreRefresh(c)
    <2>1. PICK label \in {"re.room", "re.check"} :
             Goto(c, label) /\ (conn[c].inside => label = "re.room")
        BY <1>5 DEF RestoreRefresh
    <2>2. Entered(conn[c]) => conn[c].inside
        BY <1>5 DEF RestoreRefresh, At, Entered
    <2>. QED BY <1>1, <1>2, <2>1, <2>2, GoesOn DEF Unregistering
<1>6. CASE ReCheck(c)
    <2>1. conn[c].at = "re.check" /\ ~Entered(conn[c])
        BY <1>6 DEF ReCheck, At, Entered
    <2>2. Goto(c, "re.room") \/ Refuse(c)
        BY <1>6 DEF ReCheck
    <2>. QED BY <1>1, <1>2, <2>1, <2>2, GoesOn, RefusePasses DEF Unregistering
<1>7. CASE ReRoom(c)
    <2>1. PICK label \in {"register.status", "re.add"} :
             Goto(c, label) /\ (conn[c].inside => label = "register.status")
        BY <1>7 DEF ReRoom
    <2>2. Entered(conn[c]) => conn[c].inside
        BY <1>7 DEF ReRoom, At, Entered
    <2>. QED BY <1>1, <1>2, <2>1, <2>2, GoesOn DEF Unregistering
<1>8. CASE ReAdd(c)
    BY <1>1, <1>2, <1>8, GoesOn DEF ReAdd, Unregistering
<1>. QED BY <1>3, <1>4, <1>5, <1>6, <1>7, <1>8

LEMMA RegisterPasses ==
    ASSUME SessionsInv, NEW c \in Conn,
           \/ RegisterStatus(c) \/ RegisterRoom(c) \/ RegisterJoin(c) \/ RegisterWelcome(c)
           \/ Disconnect(c)
    PROVE  Passing(c)
<1> DEFINE u == conn[c].user
<1>1. /\ conn[c].at \in {"register.status", "register.room", "register.join",
                         "register.welcome", "serving"}
      /\ u \in Account
    BY Given
       DEF RegisterStatus, RegisterRoom, RegisterJoin, RegisterWelcome, Disconnect, At,
           FitsIn, HasUser, Label
<1>2. UNCHANGED <<current, serviceLock>>
    BY DEF RegisterStatus, RegisterRoom, RegisterJoin, RegisterWelcome, Disconnect
<1>3. \A x \in Account : x # u => (x \in member' => x \in member) /\ (x \in online' => x \in online)
    BY DEF RegisterStatus, RegisterRoom, RegisterJoin, RegisterWelcome, Disconnect
<1>4. ASSUME NEW local, Become(c, local), local.at \in {"serving", "leaked"}, local.user = u
      PROVE  Passing(c)
    <2>1. conn'[c] = local /\ \A d \in Conn : d # c => conn'[d] = conn[d]
        BY <1>4, BecomeFields
    <2>2. Entered(conn'[c]) /\ conn'[c].user = u
        BY <1>4, <2>1 DEF Entered
    <2>. QED BY <1>1, <1>2, <1>3, <1>4, <2>1, <2>2 DEF Passing, Unregistering
<1>5. Serving(u).at = "serving" /\ Serving(u).user = u
    BY <1>1, ServingAt
<1>6. ASSUME KeyError(c) PROVE Passing(c)
    <2> DEFINE local == Moved(Closed, "leaked", u)
    <2>1. local.at = "leaked" /\ local.user = u
        BY <1>1, ClosedIsThread, MovedType
    <2>2. Become(c, local) \/ Become(c, Serving(u))
        BY <1>6 DEF KeyError, Moved
    <2>. QED BY <1>4, <1>5, <2>1, <2>2
<1>7. CASE RegisterStatus(c)
    BY <1>1, <1>2, <1>3, <1>7, GoesOn DEF RegisterStatus, Unregistering
<1>8. CASE RegisterRoom(c)
    BY <1>1, <1>2, <1>8, GoesOn DEF RegisterRoom, Unregistering
<1>9. CASE RegisterJoin(c)
    <2>1. CASE Goto(c, "register.welcome")
        BY <1>1, <1>2, <1>3, <2>1, GoesOn DEF Unregistering
    <2>. QED BY <1>4, <1>5, <1>6, <1>9, <2>1 DEF RegisterJoin
<1>10. CASE RegisterWelcome(c)
    BY <1>4, <1>5, <1>6, <1>10 DEF RegisterWelcome
<1>11. CASE Disconnect(c)
    BY <1>1, <1>2, <1>11, GoesOn DEF Disconnect, Unregistering
<1>. QED BY <1>7, <1>8, <1>9, <1>10, <1>11

\* Outside the lock, what is owed stays owed, and nothing comes that is not.
LEMMA PassingStep ==
    ASSUME LeftInv, SessionsInv', NEW c \in Conn, Passing(c)
    PROVE  LeftInv'
<1> SUFFICES ASSUME NEW d \in Conn PROVE LeavesOwed(d)'
    BY DEF LeftInv
<1>1. CASE conn'[d].at \notin Unregistering
    BY <1>1 DEF LeavesOwed, Unregistering
<1>2. CASE conn'[d].at \in Unregistering
    <2> DEFINE u == conn[d].user
    <2>1. d # c /\ conn'[d] = conn[d] /\ UNCHANGED serviceLock
        BY <1>2 DEF Passing
    <2>2. u \in Account
        BY <1>2, <2>1, Given DEF LeftInv, Unregistering, FitsIn, HasUser, Label
    <2>3. ASSUME NEW x, Owed(x) PROVE Owed(x)'
        <3>1. PICK e \in Conn : conn[e].user = x /\ Entered(conn[e])
            BY <2>3 DEF Owed
        <3>2. conn'[e].user = x /\ Entered(conn'[e])
            BY <3>1 DEF Passing
        <3>. QED BY <3>2 DEF Owed, Entered
    <2>4. ASSUME NEW x, Entered(conn'[c]), conn'[c].user = x PROVE Owed(x)'
        BY <2>4 DEF Owed, Entered
    <2>5. LeavesOwed(d)
        BY DEF LeftInv
    <2>. QED BY <2>1, <2>2, <2>3, <2>4, <2>5 DEF LeavesOwed, Passing
<1>. QED BY <1>1, <1>2

LEMMA ByeLeft ==
    ASSUME LeftInv, SessionsInv', NEW c \in Conn,
           ByeRemove(c) \/ ByeLeave(c) \/ ByeStatus(c) \/ ByeSession(c) \/ ByeForget(c)
    PROVE  LeftInv'
<1> SUFFICES ASSUME NEW d \in Conn, conn'[d].at \in Unregistering PROVE LeavesOwed(d)'
    BY DEF LeftInv, LeavesOwed, Unregistering
<1>0. SessionsInv /\ \A x \in Conn : LeavesOwed(x)
    BY DEF LeftInv
<1>1. \A x \in Conn : conn[x].at \in Unregistering => serviceLock = x
    BY <1>0 DEF LeavesOwed
<1>2. \A x \in Conn : x # c => conn'[x] = conn[x]
    BY <1>0, GotoFields, BecomeFields
       DEF ByeRemove, ByeLeave, ByeStatus, ByeSession, ByeForget
<1>3. conn[c].at \in Unregistering \cup {"bye.lock"} /\ conn[c].user \in Account
    BY <1>0, Given
       DEF ByeRemove, ByeLeave, ByeStatus, ByeSession, ByeForget, At, Unregistering,
           FitsIn, HasUser, Label
<1>4. CASE ByeRemove(c)
    <2>1. serviceLock = None /\ serviceLock' = c /\ Goto(c, "bye.leave")
        BY <1>4 DEF ByeRemove
    <2>2. d = c
        BY <1>1, <1>2, <2>1, SessionAssumption
    <2>3. conn'[c].at = "bye.leave"
        BY <1>0, <2>1, GotoFields
    <2>. QED BY <2>1, <2>2, <2>3 DEF LeavesOwed
<1>5. CASE ByeForget(c)
    <2>1. conn'[c].at = "closed" /\ conn[c].at = "bye.forget"
        BY <1>0, <1>5, BecomeFields, ClosedIsThread DEF ByeForget, At
    <2>2. d # c
        BY <2>1 DEF Unregistering
    <2>. QED BY <1>1, <1>2, <2>1, <2>2 DEF Unregistering
<1>6. CASE ByeLeave(c) \/ ByeStatus(c) \/ ByeSession(c)
    <2> DEFINE u == conn[c].user
    <2>1. /\ conn[c].at \in Unregistering /\ serviceLock = c /\ serviceLock' = c
          /\ ~Entered(conn[c])
        BY <1>1, <1>6 DEF ByeLeave, ByeStatus, ByeSession, At, Unregistering, Entered
    <2>2. d = c
        BY <1>1, <1>2, <2>1
    <2>3. conn'[c].user = u
        BY <1>0, <1>6, GotoFields DEF ByeLeave, ByeStatus, ByeSession
    <2>4. ASSUME NEW x, Owed(x) PROVE Owed(x)'
        <3>1. PICK e \in Conn : conn[e].user = x /\ Entered(conn[e])
            BY <2>4 DEF Owed
        <3>2. conn'[e] = conn[e]
            BY <1>2, <2>1, <3>1
        <3>. QED BY <3>1, <3>2 DEF Owed, Entered
    <2>5. LeavesOwed(c)
        BY <1>0
    <2>6. CASE ByeLeave(c)
        <3>1. conn'[c].at = "bye.status" /\ u \notin member'
            BY <1>0, <2>6, GotoFields DEF ByeLeave
        <3>. QED BY <2>1, <2>2, <2>3, <3>1 DEF LeavesOwed
    <2>7. CASE ByeStatus(c)
        <3>1. /\ conn'[c].at = "bye.session" /\ conn[c].at = "bye.status"
              /\ u \notin online' /\ UNCHANGED member
            BY <1>0, <2>7, GotoFields DEF ByeStatus, At
        <3>. QED BY <2>1, <2>2, <2>3, <2>4, <2>5, <3>1 DEF LeavesOwed, Unregistering
    <2>8. CASE ByeSession(c)
        <3>1. /\ conn'[c].at = "bye.forget" /\ conn[c].at = "bye.session"
              /\ current'[u] = None /\ UNCHANGED <<member, online>>
            BY <1>0, <1>3, <2>8, GotoFields, Given DEF ByeSession, At, OtherTypes
        <3>. QED BY <2>1, <2>2, <2>3, <2>4, <2>5, <3>1 DEF LeavesOwed, Unregistering
    <2>. QED BY <1>6, <2>6, <2>7, <2>8
<1>. QED BY <1>4, <1>5, <1>6

LEMMA LeftInvInit == Init => LeftInv
<1> SUFFICES ASSUME Init PROVE LeftInv
    OBVIOUS
<1>1. \A c \in Conn : conn[c].at = "closed"
    BY ClosedIsThread DEF Init
<1>. QED BY <1>1, InitInv DEF LeftInv, LeavesOwed, Unregistering

LEMMA LeftInvStep == LeftInv /\ [Next]_vars => LeftInv'
<1> SUFFICES ASSUME LeftInv, [Next]_vars PROVE LeftInv'
    OBVIOUS
<1>1. SessionsInv /\ SessionsInv'
    BY NextInv DEF LeftInv
<1>2. ASSUME NEW c \in Conn, Step(c) PROVE LeftInv'
    <2>1. \/ Passing(c)
          \/ ByeRemove(c) \/ ByeLeave(c) \/ ByeStatus(c) \/ ByeSession(c) \/ ByeForget(c)
        BY <1>1, <1>2, SignUpPasses, LoginPasses, ReconnectPasses, RegisterPasses DEF Step
    <2>. QED BY <1>1, <2>1, PassingStep, ByeLeft
<1>3. ASSUME UNCHANGED <<conn, current, member, online, serviceLock>> PROVE LeftInv'
    BY <1>1, <1>3 DEF LeftInv, LeavesOwed, Owed, Entered
<1>4. ASSUME NEW t \in Token, Age(t) PROVE LeftInv'
    BY <1>3, <1>4 DEF Age
<1>5. CASE Crash
    <2>1. \A c \in Conn : conn'[c].at = "closed"
        BY <1>5, ClosedIsThread DEF Crash
    <2>. QED BY <1>1, <2>1 DEF LeftInv, LeavesOwed, Unregistering
<1>6. CASE UNCHANGED vars
    BY <1>3, <1>6 DEF vars
<1>. QED BY <1>2, <1>4, <1>5, <1>6 DEF Next

\* At the end, or in a crash just before it.
LEMMA LastOneOut ==
    ASSUME LeftInv, [Next]_vars, NEW c \in Conn, At(c, "bye.forget"), conn'[c].at = "closed",
           Working(conn[c].user) = {c}
    PROVE  /\ clients'[conn[c].user] = None /\ current'[conn[c].user] = None
           /\ conn[c].user \notin hasRoom' \cup member' \cup online'
<1> DEFINE u == conn[c].user
<1>1. SessionsInv /\ LeavesOwed(c) /\ u \in Account
    BY Given DEF LeftInv, At, FitsIn, HasUser, Label
<1>2. ~Owed(u)
    <2>1. ~Entered(conn[c])
        BY DEF At, Entered
    <2>2. ASSUME NEW d \in Conn, conn[d].user = u, Entered(conn[d]) PROVE d \in Working(u)
        BY <2>2 DEF Working, Entered
    <2>. QED BY <2>1, <2>2 DEF Owed
<1>3. u \notin member /\ u \notin online /\ current[u] = None
    BY <1>1, <1>2 DEF LeavesOwed, Unregistering, At
<1>4. clients[u] = None
    <2>1. clients[u] # None => clients[u] \in Working(u) /\ conn[clients[u]].at # "bye.forget"
        BY <1>1, InvImpliesServed DEF ConnectionsAreServed
    <2>. QED BY <2>1 DEF At
<1>5. CASE ByeForget(c)
    BY <1>3, <1>4, <1>5 DEF ByeForget
<1>6. CASE Crash
    BY <1>1, <1>3, <1>6 DEF Crash
<1>7. CASE UNCHANGED conn
    BY <1>7 DEF At
<1>8. ASSUME NEW d \in Conn, Step(d), d # c PROVE conn'[c] = conn[c]
    <2>1. \/ Passing(d)
          \/ ByeRemove(d) \/ ByeLeave(d) \/ ByeStatus(d) \/ ByeSession(d) \/ ByeForget(d)
        BY <1>1, <1>8, SignUpPasses, LoginPasses, ReconnectPasses, RegisterPasses DEF Step
    <2>2. CASE Passing(d)
        BY <1>8, <2>2 DEF Passing
    <2>3. CASE ~Passing(d)
        BY <1>1, <1>8, <2>1, <2>3, GotoFields, BecomeFields
           DEF ByeRemove, ByeLeave, ByeStatus, ByeSession, ByeForget
    <2>. QED BY <2>2, <2>3
<1>9. ASSUME Step(c) PROVE ByeForget(c)
    <2>1. ~Passing(c)
        BY DEF Passing, At, Unregistering
    <2>2. ByeRemove(c) \/ ByeLeave(c) \/ ByeStatus(c) \/ ByeSession(c) \/ ByeForget(c)
        BY <1>1, <1>9, <2>1, SignUpPasses, LoginPasses, ReconnectPasses, RegisterPasses DEF Step
    <2>. QED BY <2>2 DEF ByeRemove, ByeLeave, ByeStatus, ByeSession, At
<1>10. ASSUME NEW t \in Token, Age(t) PROVE UNCHANGED conn
    BY <1>10 DEF Age
<1>11. CASE UNCHANGED vars
    BY <1>7, <1>11 DEF vars
<1>12. conn'[c] # conn[c]
    BY DEF At
<1>. QED BY <1>5, <1>6, <1>7, <1>8, <1>9, <1>10, <1>11, <1>12 DEF Next

\* When unregister_client ends and the account has no other connection, nothing of the
\* account is left, however its connections overlapped (service.py:462, server.py).
THEOREM NothingIsLeft == Spec => NothingLeft
<1>1. ASSUME LeftInv, [Next]_vars
      PROVE  [\A c \in Conn : At(c, "bye.forget") /\ conn'[c].at = "closed" =>
                LET u == conn[c].user IN
                Working(u) = {c} =>
                   /\ clients'[u] = None /\ current'[u] = None
                   /\ u \notin hasRoom' \cup member' \cup online']_vars
    BY <1>1, LastOneOut
<1>. QED BY <1>1, LeftInvInit, LeftInvStep, PTL DEF Spec, NothingLeft
==============================================================================
