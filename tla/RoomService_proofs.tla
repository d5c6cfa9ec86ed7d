------------------------- MODULE RoomService_proofs -------------------------
(***************************************************************************)
(* Proofs about RoomService, for any users, rooms and interleaving:        *)
(*  - it implements RoomManager: the handlers touch the room table only by *)
(*    its methods and by the unlocked statements it lists, so that what    *)
(*    RoomManager_proofs shows of the table holds of the service;          *)
(*  - its types, and who is in the matchmaking queue;                      *)
(*  - where rooms last, who is in an invite-only room;                     *)
(*  - where rooms have space and clients move only themselves, who is in   *)
(*    which room, and what a client that went leaves behind;               *)
(*  - where rooms stay, who takes a member out of a room;                  *)
(*  - where clients move by matches, that a match ends with both of its    *)
(*    players in its room.                                                 *)
(***************************************************************************)
EXTENDS RoomService, FiniteSetTheorems, SequenceTheorems, TLAPS

(* The locals a label relies on. *)

NeedsRoom == {"create.finish", "join.enter", "join.set", "invite.memory",
              "invite.db", "kick.remove", "kick.where", "delete.locked",
              "delete.db"}
NeedsWho == {"leave.check", "leave.locked", "leave.db", "leave.reset",
             "home.enter", "home.set", "invite.memory", "invite.db",
             "kick.remove", "kick.where"}
NeedsOld == {"join.enter", "join.set", "leave.check", "leave.locked", "leave.db",
             "leave.reset", "bye.leave", "bye.db"}
InMatch(l) == \/ l.then = "match.enter"
              \/ l.at \in {"match.create", "match.finish", "match.invite",
                           "match.dbinvite", "match.previous", "match.enter",
                           "match.set"}

\* The local state l of thread t, whose user is in room r for user_rooms, is
\* what the code at that label expects when m holds Matchmaker.lock.
Fit(l, t, r, m) ==
    /\ l \in Thread
    /\ l.at \in NeedsRoom => l.room \in RoomName
    /\ l.at \in NeedsWho => l.who \in User
    /\ l.at \in NeedsOld => l.old \in RoomName
    /\ l.at \in {"registering", "rejoin"} => r \in RoomName
    /\ l.then = "home.enter" => l.who \in User
    /\ InMatch(l) => m # None /\ m.by = t

LocalsFit ==
    /\ userRoom \in [User -> RoomName \cup {None}]
    /\ thread \in [User -> Thread]
    /\ queue \in Seq(User)
    /\ match \in Match \cup {None}
    /\ \A t \in User : Fit(thread[t], t, userRoom[t], match)

------------------------------------------------------------------------------
\* A thread moves on to a fitting local state; other users are at most moved to
\* some room, and the match is the thread's own business.
LEMMA Frame ==
    ASSUME LocalsFit, NEW t \in User, NEW local, Become(t, local),
           Fit(local, t, userRoom'[t], match'),
           userRoom' \in [User -> RoomName \cup {None}],
           \A s \in User \ {t} : userRoom'[s] \in {userRoom[s]} \cup RoomName,
           queue' \in Seq(User), match' \in Match \cup {None},
           match' = match \/ match = None \/ match.by = t
    PROVE  LocalsFit'
<1>1. thread' \in [User -> Thread] /\ thread'[t] = local
    BY DEF LocalsFit, Become, Fit
<1>2. ASSUME NEW s \in User PROVE Fit(thread'[s], s, userRoom'[s], match')
    <2>1. CASE s = t
        BY <1>1, <2>1
    <2>2. CASE s # t
        <3>1. thread'[s] = thread[s]
            BY <2>2 DEF LocalsFit, Become
        <3>2. Fit(thread[s], s, userRoom[s], match)
            BY DEF LocalsFit
        <3>3. QED
            BY <2>2, <3>1, <3>2 DEF Fit
    <2>3. QED
        BY <2>1, <2>2
<1>3. QED
    BY <1>1, <1>2 DEF LocalsFit

\* Most steps leave user_rooms, the queue and the match alone.
LEMMA LocalStep ==
    ASSUME LocalsFit, NEW t \in User, NEW local, Become(t, local),
           Fit(local, t, userRoom[t], match),
           UNCHANGED <<userRoom, queue, match>>
    PROVE  LocalsFit'
BY Frame DEF LocalsFit

\* ... or set user_rooms of one user to a room.
LEMMA MoveStep ==
    ASSUME LocalsFit, NEW t \in User, NEW local, Become(t, local),
           NEW u \in User, NEW r \in RoomName,
           userRoom' = [userRoom EXCEPT ![u] = r],
           Fit(local, t, userRoom'[t], match),
           UNCHANGED <<queue, match>>
    PROVE  LocalsFit'
<1>1. /\ userRoom' \in [User -> RoomName \cup {None}]
      /\ \A s \in User \ {t} : userRoom'[s] \in {userRoom[s]} \cup RoomName
    BY DEF LocalsFit
<1>2. QED
    BY <1>1, Frame DEF LocalsFit

LEMMA FinishFits ==
    ASSUME NEW t, NEW r, NEW m
    PROVE  Fit(Rest("idle"), t, r, m)
BY DEF Fit, Rest, Thread, Label, NeedsRoom, NeedsWho, NeedsOld, InMatch

LEMMA GotoIsBecome ==
    ASSUME NEW t, NEW label, Goto(t, label)
    PROVE  Become(t, [thread[t] EXCEPT !.at = label])
BY DEF Goto, Become

------------------------------------------------------------------------------
(* Each step of a thread keeps the locals fitting. *)

LEMMA GotoStep ==
    ASSUME LocalsFit, NEW t \in User, NEW label \in Label, Goto(t, label),
           UNCHANGED <<userRoom, queue, match>>,
           Fit([thread[t] EXCEPT !.at = label], t, userRoom[t], match)
    PROVE  LocalsFit'
BY GotoIsBecome, LocalStep

LEMMA FinishStep ==
    ASSUME LocalsFit, NEW t \in User, Finish(t), UNCHANGED <<userRoom, queue, match>>
    PROVE  LocalsFit'
BY FinishFits, LocalStep DEF Finish

\* The steps that only move to their next label.
LEMMA OnwardFits ==
    ASSUME LocalsFit, NEW t \in User,
           \/ LeaveLocked(t)
           \/ LeaveDb(t)
           \/ DeleteLocked(t)
           \/ MatchCreate(t)
           \/ MatchFinish(t)
           \/ MatchInvite(t)
           \/ ByeLeave(t)
           \/ ByeDb(t)
    PROVE  LocalsFit'
<1>1. Fit(thread[t], t, userRoom[t], match)
    BY DEF LocalsFit
<1>2. CASE LeaveLocked(t)
    <2>1. Fit([thread[t] EXCEPT !.at = "leave.db"], t, userRoom[t], match)
        BY <1>1, <1>2 DEF LeaveLocked, At, Fit, Thread, Label, NeedsRoom, NeedsWho,
                         NeedsOld, InMatch
    <2>2. QED
        BY <1>2, <2>1, GotoStep DEF LeaveLocked, Label
<1>3. CASE LeaveDb(t)
    <2>1. Fit([thread[t] EXCEPT !.at = "leave.reset"], t, userRoom[t], match)
        BY <1>1, <1>3 DEF LeaveDb, At, Fit, Thread, Label, NeedsRoom, NeedsWho,
                         NeedsOld, InMatch
    <2>2. QED
        BY <1>3, <2>1, GotoStep DEF LeaveDb, Label
<1>4. CASE DeleteLocked(t)
    <2>1. Fit([thread[t] EXCEPT !.at = "delete.db"], t, userRoom[t], match)
        BY <1>1, <1>4 DEF DeleteLocked, At, Fit, Thread, Label, NeedsRoom, NeedsWho,
                         NeedsOld, InMatch
    <2>2. QED
        BY <1>4, <2>1, GotoStep DEF DeleteLocked, Label
<1>5. CASE MatchCreate(t)
    <2>1. Fit([thread[t] EXCEPT !.at = "match.finish"], t, userRoom[t], match)
        BY <1>1, <1>5 DEF MatchCreate, At, Fit, Thread, Label, NeedsRoom, NeedsWho,
                         NeedsOld, InMatch
    <2>2. QED
        BY <1>5, <2>1, GotoStep DEF MatchCreate, Label
<1>6. CASE MatchFinish(t)
    <2>1. Fit([thread[t] EXCEPT !.at = "match.invite"], t, userRoom[t], match)
        BY <1>1, <1>6 DEF MatchFinish, At, Fit, Thread, Label, NeedsRoom, NeedsWho,
                         NeedsOld, InMatch
    <2>2. QED
        BY <1>6, <2>1, GotoStep DEF MatchFinish, Label
<1>7. CASE MatchInvite(t)
    <2>1. Fit([thread[t] EXCEPT !.at = "match.dbinvite"], t, userRoom[t], match)
        BY <1>1, <1>7 DEF MatchInvite, At, Fit, Thread, Label, NeedsRoom, NeedsWho,
                         NeedsOld, InMatch
    <2>2. QED
        BY <1>7, <2>1, GotoStep DEF MatchInvite, Label
<1>8. CASE ByeLeave(t)
    <2>1. Fit([thread[t] EXCEPT !.at = "bye.db"], t, userRoom[t], match)
        BY <1>1, <1>8 DEF ByeLeave, At, Fit, Thread, Label, NeedsRoom, NeedsWho,
                         NeedsOld, InMatch
    <2>2. QED
        BY <1>8, <2>1, GotoStep DEF ByeLeave, Label
<1>9. CASE ByeDb(t)
    <2>1. Fit([thread[t] EXCEPT !.at = "bye.forget"], t, userRoom[t], match)
        BY <1>1, <1>9 DEF ByeDb, At, Fit, Thread, Label, NeedsRoom, NeedsWho,
                         NeedsOld, InMatch
    <2>2. QED
        BY <1>9, <2>1, GotoStep DEF ByeDb, Label
<1>10. QED
    BY <1>2, <1>3, <1>4, <1>5, <1>6, <1>7, <1>8, <1>9

\* The local state Return leaves.
ReturnLocal(t) ==
    IF thread[t].then = "idle" THEN Rest("idle")
    ELSE [Rest(thread[t].then) EXCEPT !.who = thread[t].who]

LEMMA ReturnFits ==
    ASSUME LocalsFit, NEW t \in User, thread[t].at \in {"leave.check", "leave.reset"}, NEW r
    PROVE  /\ Fit(ReturnLocal(t), t, r, match)
           /\ Return(t) => Become(t, ReturnLocal(t))
<1>1. Fit(thread[t], t, userRoom[t], match)
    BY DEF LocalsFit
<1>2. thread[t].who \in User /\ thread[t].then \in {"idle", "home.enter", "match.enter"}
    BY <1>1 DEF Fit, NeedsWho, Thread
<1>3. thread[t].then = "match.enter" => match # None /\ match.by = t
    BY <1>1 DEF Fit, InMatch
<1>4. Fit(ReturnLocal(t), t, r, match)
    BY <1>2, <1>3 DEF ReturnLocal, Fit, Rest, Thread, Label, NeedsRoom, NeedsWho, NeedsOld,
                       InMatch
<1>5. Return(t) => Become(t, ReturnLocal(t))
    BY DEF Return, ReturnLocal, Finish
<1>6. QED
    BY <1>4, <1>5

\* user_rooms.get always gives a room.
LEMMA RoomOfType ==
    ASSUME LocalsFit, NEW u \in User
    PROVE  RoomOf(u) \in RoomName
BY ServiceAssumption DEF LocalsFit, RoomOf

\* leave_room by whom and from where.
LEMMA CallLeaveFits ==
    ASSUME LocalsFit, NEW t \in User, NEW who \in User, NEW old \in RoomName,
           NEW then \in {"idle", "home.enter", "match.enter"},
           then = "match.enter" => match # None /\ match.by = t, NEW r
    PROVE  Fit([Rest("leave.check") EXCEPT !.who = who, !.old = old, !.then = then],
               t, r, match)
BY DEF Fit, Rest, Thread, Label, NeedsRoom, NeedsWho, NeedsOld, InMatch

LEMMA CallJoinFits ==
    ASSUME LocalsFit, NEW t \in User, NEW room \in RoomName,
           NEW password \in Password \cup {NoPassword}
    PROVE  Fit([Rest("join.enter") EXCEPT
                  !.room = room, !.old = RoomOf(t), !.password = password],
               t, userRoom[t], match)
BY RoomOfType DEF Fit, Rest, Thread, Label, NeedsRoom, NeedsWho, NeedsOld, InMatch

\* Connecting.
LEMMA ConnectFits ==
    ASSUME LocalsFit, NEW t \in User,
           Login(t) \/ Register(t) \/ Reconnect(t) \/ Rejoin(t)
    PROVE  LocalsFit'
<1>1. Fit(thread[t], t, userRoom[t], match)
    BY DEF LocalsFit
<1>2. ASSUME NEW label \in {"registering", "rejoin"}, At(t, "offline") \/ At(t, "idle"),
             userRoom' = [userRoom EXCEPT ![t] = Global], Goto(t, label),
             UNCHANGED <<queue, match>>
      PROVE  LocalsFit'
    <2>1. userRoom'[t] = Global /\ Global \in RoomName
        BY <1>2, ServiceAssumption DEF LocalsFit
    <2>2. Fit([thread[t] EXCEPT !.at = label], t, userRoom'[t], match)
        BY <1>1, <1>2, <2>1 DEF At, Fit, Thread, Label, NeedsRoom, NeedsWho, NeedsOld, InMatch
    <2>3. Become(t, [thread[t] EXCEPT !.at = label])
        BY <1>2, GotoIsBecome
    <2>4. QED
        BY <1>2, <2>1, <2>2, <2>3, MoveStep
<1>3. CASE Login(t) \/ Reconnect(t)
    BY <1>2, <1>3 DEF Login, Reconnect, Request
<1>4. CASE Register(t) /\ Become(t, Rest("leaked"))
    <2>1. Fit(Rest("leaked"), t, userRoom[t], match)
        BY DEF Fit, Rest, Thread, Label, NeedsRoom, NeedsWho, NeedsOld, InMatch
    <2>2. QED
        BY <1>4, <2>1, LocalStep DEF Register
<1>5. CASE (Register(t) \/ Rejoin(t)) /\ Finish(t)
    BY <1>5, FinishStep DEF Register, Rejoin
<1>6. QED
    BY <1>3, <1>4, <1>5 DEF Register, Rejoin

\* leave_room and going back to the global room.
LEMMA LeaveFits ==
    ASSUME LocalsFit, NEW t \in User,
           LeaveCheck(t) \/ LeaveReset(t) \/ HomeEnter(t) \/ HomeSet(t)
    PROVE  LocalsFit'
<1>1. Fit(thread[t], t, userRoom[t], match)
    BY DEF LocalsFit
<1>2. CASE LeaveCheck(t) /\ Goto(t, "leave.locked")
    <2>1. Fit([thread[t] EXCEPT !.at = "leave.locked"], t, userRoom[t], match)
        BY <1>1, <1>2 DEF LeaveCheck, At, Fit, Thread, Label, NeedsRoom, NeedsWho,
                         NeedsOld, InMatch
    <2>2. QED
        BY <1>2, <2>1, GotoStep DEF LeaveCheck, Label
<1>3. CASE LeaveCheck(t) /\ Return(t)
    BY <1>3, ReturnFits, LocalStep DEF LeaveCheck, At
<1>4. CASE LeaveReset(t)
    <2> DEFINE u == thread[t].who
    <2>1. u \in User /\ Global \in RoomName
        BY <1>1, <1>4, ServiceAssumption DEF LeaveReset, At, Fit, NeedsWho
    <2>2. /\ userRoom' \in [User -> RoomName \cup {None}]
          /\ \A s \in User \ {t} : userRoom'[s] \in {userRoom[s]} \cup RoomName
        BY <1>4, <2>1 DEF LeaveReset, LocalsFit
    <2>3. Fit(ReturnLocal(t), t, userRoom'[t], match) /\ Become(t, ReturnLocal(t))
        BY <1>4, ReturnFits DEF LeaveReset, At
    <2>4. QED
        BY <1>4, <2>2, <2>3, Frame DEF LeaveReset, LocalsFit
<1>5. CASE HomeEnter(t) /\ Goto(t, "home.set")
    <2>1. Fit([thread[t] EXCEPT !.at = "home.set"], t, userRoom[t], match)
        BY <1>1, <1>5 DEF HomeEnter, At, Fit, Thread, Label, NeedsRoom, NeedsWho,
                         NeedsOld, InMatch
    <2>2. QED
        BY <1>5, <2>1, GotoStep DEF HomeEnter, Label
<1>6. CASE HomeEnter(t) /\ Finish(t)
    BY <1>6, FinishStep DEF HomeEnter
<1>7. CASE HomeSet(t)
    <2>1. thread[t].who \in User /\ Global \in RoomName
        BY <1>1, <1>7, ServiceAssumption DEF HomeSet, At, Fit, NeedsWho
    <2>2. QED
        BY <1>7, <2>1, FinishFits, MoveStep DEF HomeSet, Finish
<1>8. QED
    BY <1>2, <1>3, <1>4, <1>5, <1>6, <1>7 DEF LeaveCheck, HomeEnter

\* Joining, creating, leaving.
LEMMA JoinFits ==
    ASSUME LocalsFit, NEW t \in User,
           \/ \E r \in RoomName, password \in Password \cup {NoPassword} :
                JoinRoom(t, r, password)
           \/ \E r \in ClientRoom, info \in RM!NewInfo : CreateRoom(t, r, info)
           \/ JoinEnter(t) \/ JoinSet(t) \/ CreateFinish(t) \/ LeaveRoom(t)
    PROVE  LocalsFit'
<1>1. Fit(thread[t], t, userRoom[t], match)
    BY DEF LocalsFit
<1>2. CASE \E r \in RoomName, password \in Password \cup {NoPassword} :
             JoinRoom(t, r, password)
    BY <1>2, CallJoinFits, LocalStep DEF JoinRoom, CallJoin
<1>3. ASSUME NEW r \in ClientRoom, NEW info \in RM!NewInfo, CreateRoom(t, r, info)
      PROVE  LocalsFit'
    <2> DEFINE local == [Rest("create.finish") EXCEPT !.room = r, !.password = info.password]
    <2>1. r \in RoomName /\ info.password \in Password \cup {NoPassword}
        BY ServiceAssumption DEF RM!NewInfo, RM!Info
    <2>2. Fit(local, t, userRoom[t], match)
        BY <2>1 DEF Fit, Rest, Thread, Label, NeedsRoom, NeedsWho, NeedsOld, InMatch
    <2>3. Become(t, local) /\ UNCHANGED <<userRoom, queue, match>>
        BY <1>3 DEF CreateRoom
    <2> HIDE DEF local
    <2>4. QED
        BY <2>2, <2>3, LocalStep
<1>4. CASE JoinEnter(t) /\ Goto(t, "join.set")
    <2>1. Fit([thread[t] EXCEPT !.at = "join.set"], t, userRoom[t], match)
        BY <1>1, <1>4 DEF JoinEnter, At, Fit, Thread, Label, NeedsRoom, NeedsWho,
                         NeedsOld, InMatch
    <2>2. QED
        BY <1>4, <2>1, GotoStep DEF JoinEnter, Label
<1>5. CASE JoinEnter(t) /\ Finish(t)
    BY <1>5, FinishStep DEF JoinEnter
<1>6. CASE JoinSet(t)
    <2>1. thread[t].room \in RoomName /\ thread[t].old \in RoomName
        BY <1>1, <1>6 DEF JoinSet, At, Fit, NeedsRoom, NeedsOld
    <2>2. CASE thread[t].old = thread[t].room
        BY <1>6, <2>1, <2>2, FinishFits, MoveStep DEF JoinSet, Finish
    <2>3. CASE thread[t].old # thread[t].room
        BY <1>6, <2>1, <2>3, CallLeaveFits, MoveStep DEF JoinSet, CallLeave
    <2>4. QED
        BY <2>2, <2>3
<1>7. CASE CreateFinish(t)
    <2>1. thread[t].room \in RoomName /\ thread[t].password \in Password \cup {NoPassword}
        BY <1>1, <1>7 DEF CreateFinish, At, Fit, NeedsRoom, Thread
    <2>2. CASE Finish(t)
        BY <1>7, <2>2, FinishStep DEF CreateFinish
    <2>3. CASE CallJoin(t, thread[t].room, thread[t].password)
        BY <1>7, <2>1, <2>3, CallJoinFits, LocalStep DEF CreateFinish, CallJoin
    <2>4. QED
        BY <1>7, <2>2, <2>3 DEF CreateFinish
<1>8. CASE LeaveRoom(t)
    BY <1>8, RoomOfType, CallLeaveFits, LocalStep DEF LeaveRoom, CallLeave
<1>9. QED
    BY <1>2, <1>3, <1>4, <1>5, <1>6, <1>7, <1>8 DEF JoinEnter

\* What owners ask for.
LEMMA OwnerFits ==
    ASSUME LocalsFit, NEW t \in User,
           \/ \E target \in User : InviteUser(t, target) \/ KickUser(t, target)
           \/ \E r \in ClientRoom \cup PoolRoom : DeleteRoom(t, r)
           \/ InviteMemory(t) \/ InviteDb(t) \/ KickRemove(t) \/ KickWhere(t)
           \/ DeleteDb(t)
    PROVE  LocalsFit'
<1>1. Fit(thread[t], t, userRoom[t], match)
    BY DEF LocalsFit
<1>2. ASSUME NEW target \in User, NEW label \in {"invite.memory", "kick.remove"},
             Become(t, [Rest(label) EXCEPT !.room = RoomOf(t), !.who = target]),
             UNCHANGED <<userRoom, queue, match>>
      PROVE  LocalsFit'
    <2>1. Fit([Rest(label) EXCEPT !.room = RoomOf(t), !.who = target],
              t, userRoom[t], match)
        BY RoomOfType DEF Fit, Rest, Thread, Label, NeedsRoom, NeedsWho, NeedsOld, InMatch
    <2>2. QED
        BY <1>2, <2>1, LocalStep
<1>3. CASE \E target \in User : InviteUser(t, target) \/ KickUser(t, target)
    BY <1>2, <1>3 DEF InviteUser, KickUser
<1>4. ASSUME NEW r \in ClientRoom \cup PoolRoom, DeleteRoom(t, r) PROVE LocalsFit'
    <2>1. r \in RoomName
        BY ServiceAssumption
    <2>2. CASE Become(t, [Rest("delete.locked") EXCEPT !.room = r])
        <3>1. Fit([Rest("delete.locked") EXCEPT !.room = r], t, userRoom[t], match)
            BY <2>1 DEF Fit, Rest, Thread, Label, NeedsRoom, NeedsWho, NeedsOld, InMatch
        <3>2. QED
            BY <1>4, <2>2, <3>1, LocalStep DEF DeleteRoom
    <2>3. CASE UNCHANGED thread
        BY <1>4, <2>3 DEF DeleteRoom, LocalsFit
    <2>4. QED
        BY <1>4, <2>2, <2>3 DEF DeleteRoom
<1>5. CASE InviteMemory(t) /\ Goto(t, "invite.db")
    <2>1. Fit([thread[t] EXCEPT !.at = "invite.db"], t, userRoom[t], match)
        BY <1>1, <1>5 DEF InviteMemory, At, Fit, Thread, Label, NeedsRoom, NeedsWho,
                         NeedsOld, InMatch
    <2>2. QED
        BY <1>5, <2>1, GotoStep DEF InviteMemory, Label
<1>6. CASE KickRemove(t) /\ Goto(t, "kick.where")
    <2>1. Fit([thread[t] EXCEPT !.at = "kick.where"], t, userRoom[t], match)
        BY <1>1, <1>6 DEF KickRemove, At, Fit, Thread, Label, NeedsRoom, NeedsWho,
                         NeedsOld, InMatch
    <2>2. QED
        BY <1>6, <2>1, GotoStep DEF KickRemove, Label
<1>7. CASE KickWhere(t) /\ Goto(t, "home.enter")
    <2>1. Fit([thread[t] EXCEPT !.at = "home.enter"], t, userRoom[t], match)
        BY <1>1, <1>7 DEF KickWhere, At, Fit, Thread, Label, NeedsRoom, NeedsWho,
                         NeedsOld, InMatch
    <2>2. QED
        BY <1>7, <2>1, GotoStep DEF KickWhere, Label
<1>8. CASE /\ InviteMemory(t) \/ InviteDb(t) \/ KickRemove(t) \/ KickWhere(t) \/ DeleteDb(t)
           /\ Finish(t)
    BY <1>8, FinishStep DEF InviteMemory, InviteDb, KickRemove, KickWhere, DeleteDb
<1>9. QED
    BY <1>3, <1>4, <1>5, <1>6, <1>7, <1>8
       DEF InviteMemory, InviteDb, KickRemove, KickWhere, DeleteDb

\* The thread that runs _finish_match, and the player it is about.
LEMMA MatchOf ==
    ASSUME LocalsFit, NEW t \in User, InMatch(thread[t])
    PROVE  match \in Match /\ match # None /\ match.by = t /\ Player \in User
<1>1. match # None /\ match.by = t
    BY DEF LocalsFit, Fit
<1>2. match \in Match
    BY <1>1 DEF LocalsFit
<1>3. match.pair \in User \X User /\ match.i \in {1, 2}
    BY <1>2 DEF Match
<1>4. match.pair[1] \in User /\ match.pair[2] \in User
    BY <1>3
<1>5. QED
    BY <1>1, <1>2, <1>3, <1>4 DEF Player

\* The step to the next player, wherever it is taken from.
LEMMA NextPlayerFits ==
    ASSUME LocalsFit, NEW t \in User, InMatch(thread[t]), NextPlayer(t),
           userRoom' \in [User -> RoomName \cup {None}],
           \A s \in User \ {t} : userRoom'[s] \in {userRoom[s]} \cup RoomName,
           queue' = queue
    PROVE  LocalsFit'
<1>1. match \in Match /\ match # None /\ match.by = t
    BY MatchOf
<1>2. queue' \in Seq(User)
    BY DEF LocalsFit
<1>3. CASE match.i = 1
    <2>1. match' \in Match /\ match' # None /\ match'.by = t
        BY <1>1, <1>3, NoMatchAssumption DEF NextPlayer, Match
    <2>2. Fit(Rest("match.previous"), t, userRoom'[t], match')
        BY <2>1 DEF Fit, Rest, Thread, Label, NeedsRoom, NeedsWho, NeedsOld, InMatch
    <2>3. Become(t, Rest("match.previous"))
        BY <1>3 DEF NextPlayer
    <2>4. QED
        BY <1>1, <1>2, <2>1, <2>2, <2>3, Frame
<1>4. CASE match.i # 1
    <2>1. match' = None /\ Become(t, Rest("idle"))
        BY <1>4 DEF NextPlayer, Finish
    <2>2. QED
        BY <1>1, <1>2, <2>1, FinishFits, Frame
<1>5. QED
    BY <1>3, <1>4

\* Matchmaking.
LEMMA MatchFits ==
    ASSUME LocalsFit, NEW t \in User,
           \/ Matchmake(t) \/ MatchDbInvite(t) \/ MatchPrevious(t)
           \/ MatchEnter(t) \/ MatchSet(t)
    PROVE  LocalsFit'
<1>1. Fit(thread[t], t, userRoom[t], match)
    BY DEF LocalsFit
<1>2. CASE Matchmake(t) /\ queue = <<>>
    <2>1. queue' = <<t>>
        BY <1>2 DEF Matchmake
    <2>2. queue' \in Seq(User)
        BY <2>1
    <2>3. QED
        BY <1>2, <2>2 DEF Matchmake, LocalsFit
<1>3. CASE Matchmake(t) /\ queue # <<>>
    <2>1. Tail(queue) \in Seq(User) /\ Head(queue) \in User /\ queue' = Tail(queue)
        <3>1. queue' = Tail(queue)
            BY <1>3 DEF Matchmake
        <3>2. queue \in Seq(User) /\ queue # <<>>
            BY <1>3 DEF LocalsFit
        <3>3. QED
            BY <3>1, <3>2
    <2>2. match' \in Match /\ match'.by = t /\ match' # None
        BY <1>3, <2>1, NoMatchAssumption DEF Matchmake, Match
    <2>3. Fit([thread[t] EXCEPT !.at = "match.create"], t, userRoom[t], match')
        BY <1>1, <1>3, <2>2 DEF Matchmake, Request, At, Fit, Thread, Label, NeedsRoom,
                         NeedsWho, NeedsOld, InMatch
    <2>4. Become(t, [thread[t] EXCEPT !.at = "match.create"])
        BY <1>3, GotoIsBecome DEF Matchmake
    <2>5. match = None /\ userRoom' = userRoom
        BY <1>3 DEF Matchmake
    <2>6. QED
        BY <2>1, <2>2, <2>3, <2>4, <2>5, Frame DEF LocalsFit
<1>4. CASE MatchDbInvite(t)
    <2> DEFINE label == IF match.i = 1 THEN "match.invite" ELSE "match.previous"
    <2>1. match \in Match /\ match # None /\ match.by = t
        BY <1>4, MatchOf DEF MatchDbInvite, At, InMatch
    <2>2. match' \in Match /\ match'.by = t /\ match' # None
        BY <1>4, <2>1, NoMatchAssumption DEF MatchDbInvite, Match
    <2>3. Fit([thread[t] EXCEPT !.at = label], t, userRoom[t], match')
        BY <1>1, <1>4, <2>2 DEF MatchDbInvite, At, Fit, Thread, Label, NeedsRoom,
                         NeedsWho, NeedsOld, InMatch
    <2>4. Become(t, [thread[t] EXCEPT !.at = label])
        BY <1>4, GotoIsBecome DEF MatchDbInvite
    <2>5. userRoom' = userRoom /\ queue' = queue
        BY <1>4 DEF MatchDbInvite
    <2> HIDE DEF label
    <2>6. QED
        BY <2>1, <2>2, <2>3, <2>4, <2>5, Frame DEF LocalsFit
<1>5. CASE MatchPrevious(t)
    <2>1. match # None /\ match.by = t /\ Player \in User
        BY <1>5, MatchOf DEF MatchPrevious, At, InMatch
    <2>2. CASE CallLeave(t, Player, RoomOf(Player), "match.enter")
        BY <1>5, <2>1, <2>2, RoomOfType, CallLeaveFits, LocalStep
           DEF MatchPrevious, CallLeave
    <2>3. CASE Goto(t, "match.enter")
        <3>1. Fit([thread[t] EXCEPT !.at = "match.enter"], t, userRoom[t], match)
            BY <1>1, <1>5, <2>1 DEF MatchPrevious, At, Fit, Thread, Label, NeedsRoom,
                         NeedsWho, NeedsOld, InMatch
        <3>2. QED
            BY <1>5, <2>3, <3>1, GotoStep DEF MatchPrevious, Label
    <2>4. QED
        BY <1>5, <2>2, <2>3 DEF MatchPrevious
<1>6. CASE MatchEnter(t) /\ Goto(t, "match.set") /\ UNCHANGED match
    <2>1. match # None /\ match.by = t
        BY <1>6, MatchOf DEF MatchEnter, At, InMatch
    <2>2. Fit([thread[t] EXCEPT !.at = "match.set"], t, userRoom[t], match)
        BY <1>1, <1>6, <2>1 DEF MatchEnter, At, Fit, Thread, Label, NeedsRoom,
                         NeedsWho, NeedsOld, InMatch
    <2>3. QED
        BY <1>6, <2>2, GotoStep DEF MatchEnter, Label
<1>7. CASE MatchEnter(t) /\ NextPlayer(t)
    <2>1. InMatch(thread[t]) /\ userRoom' = userRoom /\ queue' = queue
        BY <1>7 DEF MatchEnter, At, InMatch
    <2>2. QED
        BY <1>7, <2>1, NextPlayerFits DEF LocalsFit
<1>8. CASE MatchSet(t)
    <2>1. InMatch(thread[t]) /\ queue' = queue /\ NextPlayer(t)
        BY <1>8 DEF MatchSet, At, InMatch
    <2>2. match.room \in RoomName
        BY <2>1, MatchOf, ServiceAssumption DEF Match
    <2>3. /\ userRoom' \in [User -> RoomName \cup {None}]
          /\ \A s \in User \ {t} : userRoom'[s] \in {userRoom[s]} \cup RoomName
        BY <1>8, <2>2 DEF MatchSet, LocalsFit
    <2>4. QED
        BY <2>1, <2>3, NextPlayerFits
<1>9. QED
    BY <1>2, <1>3, <1>4, <1>5, <1>6, <1>7, <1>8 DEF MatchEnter

\* Disconnecting.
LEMMA ByeFits ==
    ASSUME LocalsFit, NEW t \in User, Disconnect(t) \/ ByeQueue(t) \/ ByeForget(t)
    PROVE  LocalsFit'
<1>1. Fit(thread[t], t, userRoom[t], match)
    BY DEF LocalsFit
<1>2. CASE Disconnect(t)
    <2>1. Fit([thread[t] EXCEPT !.at = "bye.queue"], t, userRoom[t], match)
        BY <1>1, <1>2 DEF Disconnect, Request, At, Fit, Thread, Label, NeedsRoom, NeedsWho,
                         NeedsOld, InMatch
    <2>2. QED
        BY <1>2, <2>1, GotoStep DEF Disconnect, Label
<1>3. CASE ByeQueue(t)
    <2>1. ASSUME NEW i \in DOMAIN queue PROVE RemoveAt(queue, i) \in Seq(User)
        BY <2>1 DEF LocalsFit, RemoveAt
    <2>2. queue' \in Seq(User)
        BY <1>3, <2>1 DEF ByeQueue, LeaveQueue, LocalsFit
    <2>3. Fit([Rest("bye.leave") EXCEPT !.old = RoomOf(t)], t, userRoom[t], match)
        BY RoomOfType DEF Fit, Rest, Thread, Label, NeedsRoom, NeedsWho, NeedsOld, InMatch
    <2>4. QED
        BY <1>3, <2>2, <2>3, Frame DEF ByeQueue, LocalsFit
<1>4. CASE ByeForget(t)
    <2>1. Fit(Rest("offline"), t, userRoom'[t], match)
        BY DEF Fit, Rest, Thread, Label, NeedsRoom, NeedsWho, NeedsOld, InMatch
    <2>2. /\ userRoom' \in [User -> RoomName \cup {None}]
          /\ \A s \in User \ {t} : userRoom'[s] \in {userRoom[s]} \cup RoomName
        BY <1>4 DEF ByeForget, LocalsFit
    <2>3. QED
        BY <1>4, <2>1, <2>2, Frame DEF ByeForget, LocalsFit
<1>5. QED
    BY <1>2, <1>3, <1>4

\* The locals fit always.
LEMMA LocalsFitInit == Init => LocalsFit
BY DEF Init, LocalsFit, Fit, Rest, Thread, Label, NeedsRoom, NeedsWho, NeedsOld, InMatch

LEMMA LocalsFitStep == LocalsFit /\ [Next]_vars => LocalsFit'
<1> SUFFICES ASSUME LocalsFit, [Next]_vars PROVE LocalsFit'
    OBVIOUS
<1>1. CASE UNCHANGED vars
    BY <1>1 DEF vars, LocalsFit
<1>2. CASE Crash
    BY <1>2 DEF Crash, LocalsFit, Fit, Rest, Thread, Label, NeedsRoom, NeedsWho, NeedsOld,
                InMatch
<1>3. ASSUME NEW t \in User, Continue(t) PROVE LocalsFit'
    BY <1>3, OnwardFits, ConnectFits, LeaveFits, JoinFits, OwnerFits, MatchFits, ByeFits
       DEF Continue
<1>4. ASSUME NEW t \in User, Ask(t) PROVE LocalsFit'
    BY <1>4, ConnectFits, JoinFits, OwnerFits, MatchFits, ByeFits DEF Ask
<1>5. QED
    BY <1>1, <1>2, <1>3, <1>4 DEF Next

------------------------------------------------------------------------------
(* Every step on the room table is a step of RoomManager. *)

\* The methods and statements that never delete the row of a room in memory, nor forget
\* what is in memory: all but deletions and a restart.
Gentle ==
    \/ RM!CreateFinish
    \/ \E r \in RoomName :
         \/ RM!Lookup(r)
         \/ \E info \in RM!NewInfo : RM!CreateRow(r, info)
         \/ \E u \in User :
              \/ RM!Leave(r, u) \/ RM!Invite(r, u) \/ RM!Kick(r, u)
              \/ RM!DbRemoveMember(r, u) \/ RM!DbInvite(r, u)
              \/ \E password \in Password \cup {NoPassword} :
                   RM!Join(r, u, password) \/ RM!JoinRefused(r, u, password)

LEMMA GentleMethods ==
    ASSUME NEW r \in RoomName, NEW u \in User,
           NEW password \in Password \cup {NoPassword}
    PROVE  /\ RM!CreateFinish => Gentle
           /\ RM!Lookup(r) => Gentle
           /\ \/ RM!Leave(r, u) \/ RM!Invite(r, u) \/ RM!Kick(r, u)
              \/ RM!DbRemoveMember(r, u) \/ RM!DbInvite(r, u)
              => Gentle
           /\ RM!Join(r, u, password) \/ RM!JoinRefused(r, u, password) => Gentle
           /\ \A info \in RM!NewInfo : RM!CreateRow(r, info) => Gentle
BY DEF Gentle

LEMMA Methods ==
    ASSUME NEW r \in RoomName
    PROVE  RM!Delete(r) \/ RM!DbDeleteRoom(r) \/ RM!Restart \/ Gentle => RM!Next
BY DEF RM!Next, Gentle

LEMMA Still == roomVars' = roomVars => UNCHANGED RM!vars
BY DEF roomVars, RM!vars

LEMMA RoomTableContinue ==
    ASSUME LocalsFit, NEW t \in User, Continue(t)
    PROVE  \/ [Gentle]_(RM!vars)
           \/ /\ DeleteLocked(t) \/ DeleteDb(t)
              /\ RM!Next
<1>1. Fit(thread[t], t, userRoom[t], match) /\ thread[t] \in Thread
    BY DEF LocalsFit
<1>2. NoPassword \in Password \cup {NoPassword} /\ Global \in RoomName
    BY ServiceAssumption
<1>3. CASE Register(t) \/ Rejoin(t)
    <2>1. userRoom[t] \in RoomName
        BY <1>1, <1>3 DEF Register, Rejoin, At, Fit
    <2>2. QED
        BY <1>2, <1>3, <2>1, GentleMethods DEF Register, Rejoin
<1>4. CASE LeaveCheck(t) \/ LeaveLocked(t) \/ LeaveDb(t)
    <2>1. thread[t].old \in RoomName /\ thread[t].who \in User
        BY <1>1, <1>4 DEF LeaveCheck, LeaveLocked, LeaveDb, At, Fit, NeedsOld, NeedsWho
    <2>2. QED
        BY <1>2, <1>4, <2>1, GentleMethods DEF LeaveCheck, LeaveLocked, LeaveDb
<1>5. CASE HomeEnter(t)
    <2>1. thread[t].who \in User
        BY <1>1, <1>5 DEF HomeEnter, At, Fit, NeedsWho
    <2>2. QED
        BY <1>2, <1>5, <2>1, GentleMethods DEF HomeEnter
<1>6. CASE JoinEnter(t)
    <2>1. thread[t].room \in RoomName /\ thread[t].password \in Password \cup {NoPassword}
        BY <1>1, <1>6 DEF JoinEnter, At, Fit, NeedsRoom, Thread
    <2>2. QED
        BY <1>6, <2>1, GentleMethods DEF JoinEnter
<1>7. CASE CreateFinish(t) \/ MatchFinish(t)
    BY <1>2, <1>7, GentleMethods DEF CreateFinish, MatchFinish
<1>8. CASE InviteMemory(t) \/ InviteDb(t) \/ KickRemove(t)
    <2>1. thread[t].room \in RoomName /\ thread[t].who \in User
        BY <1>1, <1>8 DEF InviteMemory, InviteDb, KickRemove, At, Fit, NeedsRoom, NeedsWho
    <2>2. QED
        BY <1>2, <1>8, <2>1, GentleMethods, Still DEF InviteMemory, InviteDb, KickRemove
<1>9. CASE DeleteLocked(t) \/ DeleteDb(t)
    <2>1. thread[t].room \in RoomName
        BY <1>1, <1>9 DEF DeleteLocked, DeleteDb, At, Fit, NeedsRoom
    <2>2. QED
        BY <1>9, <2>1, Methods DEF DeleteLocked, DeleteDb
<1>10. CASE MatchCreate(t) \/ MatchInvite(t) \/ MatchDbInvite(t) \/ MatchEnter(t)
    <2>1. InMatch(thread[t])
        BY <1>10 DEF MatchCreate, MatchInvite, MatchDbInvite, MatchEnter, At, InMatch
    <2>2. match \in Match /\ Player \in User
        BY <2>1, MatchOf
    <2>3. match.room \in RoomName /\ match.pair[1] \in User
        BY <2>2, ServiceAssumption DEF Match
    <2>4. MatchInfo \in RM!NewInfo
        BY <2>3, ServiceAssumption DEF MatchInfo, RM!NewInfo, RM!Info
    <2>5. QED
        BY <1>2, <1>10, <2>2, <2>3, <2>4, GentleMethods
           DEF MatchCreate, MatchInvite, MatchDbInvite, MatchEnter
<1>11. CASE ByeLeave(t) \/ ByeDb(t)
    <2>1. thread[t].old \in RoomName
        BY <1>1, <1>11 DEF ByeLeave, ByeDb, At, Fit, NeedsOld
    <2>2. QED
        BY <1>2, <1>11, <2>1, GentleMethods DEF ByeLeave, ByeDb
<1>12. CASE \/ LeaveReset(t) \/ HomeSet(t) \/ JoinSet(t) \/ KickWhere(t)
            \/ MatchPrevious(t) \/ MatchSet(t) \/ ByeQueue(t) \/ ByeForget(t)
    BY <1>12, Still DEF LeaveReset, HomeSet, JoinSet, KickWhere, MatchPrevious, MatchSet,
                        ByeQueue, ByeForget
<1>13. QED
    BY <1>3, <1>4, <1>5, <1>6, <1>7, <1>8, <1>9, <1>10, <1>11, <1>12 DEF Continue

LEMMA RoomTableAsk ==
    ASSUME LocalsFit, NEW u \in User, Ask(u)
    PROVE  [Gentle]_(RM!vars)
<1>1. NoPassword \in Password \cup {NoPassword} /\ RoomOf(u) \in RoomName
    BY RoomOfType
<1>2. CASE Login(u) \/ Reconnect(u) \/ LeaveRoom(u) \/ Matchmake(u) \/ Disconnect(u)
    BY <1>2, Still DEF Login, Reconnect, LeaveRoom, Matchmake, Disconnect
<1>3. CASE \E target \in User : InviteUser(u, target) \/ KickUser(u, target)
    BY <1>1, <1>3, GentleMethods DEF InviteUser, KickUser
<1>4. CASE \E r \in ClientRoom \cup PoolRoom : DeleteRoom(u, r)
    BY <1>1, <1>4, ServiceAssumption, GentleMethods DEF DeleteRoom
<1>5. CASE \E r \in RoomName, password \in Password \cup {NoPassword} :
             JoinRoom(u, r, password)
    BY <1>5, Still DEF JoinRoom
<1>6. CASE \E r \in ClientRoom, info \in RM!NewInfo : CreateRoom(u, r, info)
    BY <1>1, <1>6, ServiceAssumption, GentleMethods DEF CreateRoom
<1>7. QED
    BY <1>2, <1>3, <1>4, <1>5, <1>6 DEF Ask

LEMMA RoomTableStep == LocalsFit /\ [Next]_vars => [RM!Next]_(RM!vars)
<1> SUFFICES ASSUME LocalsFit, [Next]_vars PROVE [RM!Next]_(RM!vars)
    OBVIOUS
<1>1. CASE UNCHANGED vars
    BY <1>1, Still DEF vars
<1>2. CASE Crash
    BY <1>2 DEF Crash, RM!Next
<1>3. ASSUME NEW t \in User, Continue(t) \/ Ask(t) PROVE [RM!Next]_(RM!vars)
    BY <1>3, RoomTableContinue, RoomTableAsk, Methods, ServiceAssumption
<1>4. QED
    BY <1>1, <1>2, <1>3 DEF Next

\* The handlers of the service implement the room manager: whatever they do
\* and in whatever order, each of their steps is one call of RoomManager, one
\* of its unlocked statements, or nothing to the room table.
THEOREM Implements == Spec => RoomTable
<1>1. Init => RM!Init
    BY DEF Init
<1>2. QED
    BY <1>1, LocalsFitInit, LocalsFitStep, RoomTableStep, PTL
       DEF Spec, RoomTable, RM!Spec

\* What each thread's locals hold where its label needs them, and user_rooms'
\* values being rooms.
THEOREM Locals == Spec => []LocalsFit
BY LocalsFitInit, LocalsFitStep, PTL DEF Spec

------------------------------------------------------------------------------
(* What is proved of the room table in RoomManager_proofs holds of the rooms of  *)
(* the service.                                                                  *)
RMP == INSTANCE RoomManager_proofs

LEMMA SameSets ==
    /\ RM!Info = RMP!Info /\ RM!Room = RMP!Room /\ RM!Creation = RMP!Creation
    /\ \A S : RMP!IsFiniteSet(S) <=> IsFiniteSet(S)
<1>1. RM!Info = RMP!Info
    BY DEF RM!Info, RMP!Info
<1>2. RM!Room = RMP!Room /\ RM!NewInfo = RMP!NewInfo
    BY <1>1 DEF RM!Room, RMP!Room, RM!NewInfo, RMP!NewInfo
<1>3. RM!Creation = RMP!Creation
    BY <1>2 DEF RM!Creation, RMP!Creation
<1>4. \A S : RMP!IsFiniteSet(S) <=> IsFiniteSet(S)
    BY DEF RMP!IsFiniteSet, IsFiniteSet
<1>. QED BY <1>1, <1>2, <1>3, <1>4

LEMMA SameInit == RM!Init <=> RMP!Init
BY DEF RM!Init, RMP!Init, RM!GlobalInfo, RMP!GlobalInfo

LEMMA SameNext == [RM!Next]_(RM!vars) <=> [RMP!Next]_(RMP!vars)
BY DEF RM!vars, RM!Next, RM!CreateFinish, RM!Restart, RM!Lookup, RM!Delete, RM!DbDeleteRoom,
       RM!CreateRow, RM!Leave, RM!Invite, RM!Kick, RM!DbRemoveMember, RM!DbInvite,
       RM!Join, RM!JoinRefused, RM!MayEnter, RM!GetRoom, RM!FromRow, RM!Unlocked,
       RM!Load, RM!Put, RM!DropRow, RM!Created, RM!NewInfo, RM!Info, RM!Cardinality,
       RMP!vars, RMP!Next, RMP!CreateFinish, RMP!Restart, RMP!Lookup, RMP!Delete,
       RMP!DbDeleteRoom, RMP!CreateRow, RMP!Leave, RMP!Invite, RMP!Kick,
       RMP!DbRemoveMember, RMP!DbInvite, RMP!Join, RMP!JoinRefused, RMP!MayEnter,
       RMP!GetRoom, RMP!FromRow, RMP!Unlocked, RMP!Load, RMP!Put, RMP!DropRow,
       RMP!Created, RMP!NewInfo, RMP!Info, RMP!Cardinality

LEMMA TableInit == Init => RMP!RoomInv
<1>1. RM!Init => RMP!RoomInv
    BY ServiceAssumption, RoomTableAssumption, SameSets, SameInit, RMP!InitRoomInv
<1>. QED BY <1>1 DEF Init

LEMMA TableStep == LocalsFit /\ RMP!RoomInv /\ [Next]_vars => RMP!RoomInv'
BY ServiceAssumption, RoomTableAssumption, SameSets, SameNext, RoomTableStep, RMP!NextRoomInv

\* The invariant of the room table, in the words of the service's module.
LEMMA TableFacts ==
    ASSUME RMP!RoomInv
    PROVE  /\ RM!TypeOK /\ RM!PersistedAreMembers /\ RM!MemoryIsTheRowsRoom
           /\ \A r \in RoomName : rows[r] = None => rowMembers[r] = {}
           /\ creating # None => /\ rowMembers[creating.room] = {}
                                 /\ rows[creating.room] \in {None, creating.info}
           /\ rows[Global] = RM!GlobalInfo
<1>1. RM!TypeOK
    BY SameSets DEF RMP!RoomInv, RMP!TypeOK, RM!TypeOK
<1>2. RM!PersistedAreMembers /\ RM!MemoryIsTheRowsRoom
    BY DEF RMP!RoomInv, RMP!PersistedAreMembers, RMP!MemoryIsTheRowsRoom,
           RM!PersistedAreMembers, RM!MemoryIsTheRowsRoom
<1>3. rows[Global] = RM!GlobalInfo
    BY DEF RMP!RoomInv, RMP!GlobalStays, RMP!GlobalInfo, RM!GlobalInfo
<1>. QED BY <1>1, <1>2, <1>3 DEF RMP!RoomInv, RMP!MembersHaveRow, RMP!CreationPending

\* Who waits for service.lock or holds it is a user.
Holder == serviceLock \in User \cup {None}

LEMMA HolderStep ==
    ASSUME Holder, [Next]_vars PROVE Holder'
<1>1. ASSUME NEW u \in User, Disconnect(u) \/ ByeForget(u) PROVE Holder'
    BY <1>1 DEF Holder, Disconnect, ByeForget
<1>2. ASSUME NEW u \in User, Continue(u) \/ Ask(u), ~(Disconnect(u) \/ ByeForget(u))
      PROVE serviceLock' = serviceLock
    BY <1>2 DEF Continue, Ask, Register, Rejoin, LeaveCheck, LeaveLocked, LeaveDb, LeaveReset,
         HomeEnter, HomeSet, JoinEnter, JoinSet, CreateFinish, InviteMemory, InviteDb,
         KickRemove, KickWhere, DeleteLocked, DeleteDb, MatchCreate, MatchFinish, MatchInvite,
         MatchDbInvite, MatchPrevious, MatchEnter, MatchSet, ByeQueue, ByeLeave, ByeDb,
         Login, Reconnect, LeaveRoom, Matchmake, InviteUser, KickUser, DeleteRoom, JoinRoom,
         CreateRoom
<1>3. CASE Crash \/ UNCHANGED vars
    BY <1>3 DEF Holder, Crash, vars
<1>. QED BY <1>1, <1>2, <1>3 DEF Holder, Next

ServiceInv == LocalsFit /\ RMP!RoomInv /\ Holder

LEMMA ServiceInvInit == Init => ServiceInv
BY LocalsFitInit, TableInit DEF ServiceInv, Init, Holder

LEMMA ServiceInvStep == ServiceInv /\ [Next]_vars => ServiceInv'
BY LocalsFitStep, TableStep, HolderStep DEF ServiceInv

\* Rooms, user_rooms, queue, locks and the threads' locals keep values of their kind
\* (TypeOK), and with them what is proved of the room table alone.
THEOREM ServiceTypes == Spec => []TypeOK
<1>1. ServiceInv => TypeOK
    BY TableFacts DEF ServiceInv, LocalsFit, Holder, TypeOK
<1>. QED BY <1>1, ServiceInvInit, ServiceInvStep, PTL DEF Spec

------------------------------------------------------------------------------
(* The matchmaking queue. *)

\* The labels of a thread whose client is not, or no longer, one that may wait.
Away == {"offline", "registering", "leaked", "bye.leave", "bye.db", "bye.forget"}

\* A sequence without repetitions, one element of which is taken out, has none of it left.
LEMMA RemoveAtFacts ==
    ASSUME NEW S, NEW q \in Seq(S), NEW i \in DOMAIN q,
           \A j, k \in DOMAIN q : q[j] = q[k] => j = k
    PROVE  /\ RemoveAt(q, i) \in Seq(S)
           /\ \A j, k \in DOMAIN RemoveAt(q, i) :
                RemoveAt(q, i)[j] = RemoveAt(q, i)[k] => j = k
           /\ Range(RemoveAt(q, i)) \subseteq Range(q) \ {q[i]}
<1> DEFINE p == RemoveAt(q, i)
<1>1. /\ Len(q) \in Nat /\ i \in 1..Len(q) /\ DOMAIN q = 1..Len(q)
      /\ \A j \in 1..Len(q) : q[j] \in S
    OBVIOUS
<1>2. /\ SubSeq(q, 1, i-1) \in Seq(S)
      /\ Len(SubSeq(q, 1, i-1)) = i - 1
      /\ \A j \in 1..(i-1) : SubSeq(q, 1, i-1)[j] = q[j]
    <2>1. \A j \in 1..(i-1) : q[j] \in S
        BY <1>1
    <2>2. /\ SubSeq(q, 1, i-1) \in Seq(S)
          /\ Len(SubSeq(q, 1, i-1)) = IF 1 <= i-1 THEN (i-1)-1+1 ELSE 0
          /\ \A j \in 1..((i-1)-1+1) : SubSeq(q, 1, i-1)[j] = q[1+j-1]
        BY <1>1, <2>1, SubSeqProperties
    <2>. QED BY <1>1, <2>2
<1>3. /\ SubSeq(q, i+1, Len(q)) \in Seq(S)
      /\ Len(SubSeq(q, i+1, Len(q))) = Len(q) - i
      /\ \A j \in 1..(Len(q)-i) : SubSeq(q, i+1, Len(q))[j] = q[i+j]
    <2>1. \A j \in (i+1)..Len(q) : q[j] \in S
        BY <1>1
    <2>2. /\ SubSeq(q, i+1, Len(q)) \in Seq(S)
          /\ Len(SubSeq(q, i+1, Len(q))) = IF i+1 <= Len(q) THEN Len(q)-(i+1)+1 ELSE 0
          /\ \A j \in 1..(Len(q)-(i+1)+1) : SubSeq(q, i+1, Len(q))[j] = q[(i+1)+j-1]
        BY <1>1, <2>1, SubSeqProperties
    <2>. QED BY <1>1, <2>2
<1>4. /\ p \in Seq(S) /\ Len(p) = Len(q) - 1
      /\ \A j \in 1..Len(p) : p[j] = IF j < i THEN q[j] ELSE q[j+1]
    <2> DEFINE a == SubSeq(q, 1, i-1)
               b == SubSeq(q, i+1, Len(q))
    <2>1. p = a \o b
        BY DEF RemoveAt
    <2> HIDE DEF a, b, p
    <2>2. /\ p \in Seq(S) /\ Len(p) = Len(a) + Len(b)
          /\ \A j \in 1..(Len(a) + Len(b)) :
                p[j] = IF j <= Len(a) THEN a[j] ELSE b[j - Len(a)]
        <3>1. a \in Seq(S) /\ b \in Seq(S)
            BY <1>2, <1>3 DEF a, b
        <3>. QED BY <2>1, <3>1, ConcatProperties
    <2>3. Len(a) = i - 1 /\ Len(b) = Len(q) - i
        BY <1>2, <1>3 DEF a, b
    <2>4. /\ \A j \in 1..(i-1) : a[j] = q[j]
          /\ \A j \in 1..(Len(q)-i) : b[j] = q[i+j]
        BY <1>2, <1>3 DEF a, b
    <2>5. ASSUME NEW j \in 1..Len(p) PROVE p[j] = IF j < i THEN q[j] ELSE q[j+1]
        <3>1. j \in Int /\ 1 <= j /\ j <= Len(q) - 1 /\ Len(p) = Len(a) + Len(b)
            BY <1>1, <2>2, <2>3
        <3>2. CASE j < i
            <4>1. j \in 1..(i-1)
                BY <1>1, <3>1, <3>2
            <4>2. p[j] = a[j]
                BY <2>2, <2>3, <3>1, <4>1
            <4>. QED BY <2>4, <3>2, <4>1, <4>2
        <3>3. CASE ~(j < i)
            <4>1. j - (i-1) \in 1..(Len(q)-i) /\ ~(j <= i - 1)
                BY <1>1, <3>1, <3>3
            <4>2. p[j] = b[j - (i-1)]
                BY <2>2, <2>3, <3>1, <4>1
            <4>3. i + (j - (i-1)) = j + 1
                BY <1>1
            <4>. QED BY <2>4, <3>3, <4>1, <4>2, <4>3
        <3>. QED BY <3>2, <3>3
    <2>. QED BY <1>1, <2>2, <2>3, <2>5
<1> HIDE DEF p
<1>5. DOMAIN p = 1..Len(p) /\ Len(p) \in Nat
    BY <1>1, <1>4
<1>6. ASSUME NEW j \in DOMAIN p, NEW k \in DOMAIN p, p[j] = p[k] PROVE j = k
    <2> DEFINE from(n) == IF n < i THEN n ELSE n + 1
    <2>1. /\ from(j) \in DOMAIN q /\ p[j] = q[from(j)]
          /\ from(k) \in DOMAIN q /\ p[k] = q[from(k)]
        BY <1>1, <1>4, <1>5
    <2>2. from(j) = from(k)
        BY <1>6, <2>1
    <2>. QED BY <1>1, <1>5, <2>2
<1>7. ASSUME NEW j \in DOMAIN p PROVE p[j] \in Range(q) \ {q[i]}
    <2>1. CASE j < i
        <3>1. j \in DOMAIN q /\ p[j] = q[j] /\ j # i
            BY <1>1, <1>4, <1>5, <2>1
        <3>. QED BY <3>1 DEF Range
    <2>2. CASE ~(j < i)
        <3>1. j + 1 \in DOMAIN q /\ p[j] = q[j+1] /\ j + 1 # i
            BY <1>1, <1>4, <1>5, <2>2
        <3>. QED BY <3>1 DEF Range
    <2>. QED BY <2>1, <2>2
<1>8. Range(p) \subseteq Range(q) \ {q[i]}
    BY <1>7 DEF Range
<1>. QED BY <1>4, <1>6, <1>8 DEF p

\* Where a thread's next label comes from.
LEMMA Lands ==
    ASSUME LocalsFit, NEW t \in User
    PROVE  /\ \A label : Goto(t, label) => thread'[t] = [thread[t] EXCEPT !.at = label]
           /\ \A label : Goto(t, label) => thread'[t].at = label
           /\ \A local : Become(t, local) => thread'[t] = local
           /\ Finish(t) => thread'[t] = Rest("idle") /\ thread'[t].at = "idle"
           /\ \A label : Become(t, Rest(label)) => thread'[t].at = label
           /\ \A who, old, then : CallLeave(t, who, old, then) => thread'[t].at = "leave.check"
           /\ \A r, password : CallJoin(t, r, password) => thread'[t].at = "join.enter"
           /\ Return(t) => thread'[t].at \in {"idle", "home.enter", "match.enter"}
           /\ NextPlayer(t) => thread'[t].at \in {"idle", "match.previous"}
<1>1. thread \in [User -> Thread] /\ thread[t] \in Thread
    BY DEF LocalsFit
<1>2. /\ \A label : Goto(t, label) => thread'[t] = [thread[t] EXCEPT !.at = label]
      /\ \A local : Become(t, local) => thread'[t] = local
    BY <1>1 DEF Goto, Become
<1>3. ASSUME NEW label, Goto(t, label) PROVE thread'[t].at = label
    BY <1>1, <1>3 DEF Goto, Thread
<1>4. \A label : Rest(label).at = label
    BY DEF Rest
<1>5. \A label : Become(t, Rest(label)) => thread'[t].at = label
    BY <1>2, <1>4
<1>6. Finish(t) => thread'[t] = Rest("idle") /\ thread'[t].at = "idle"
    BY <1>2, <1>4 DEF Finish
<1>7. /\ \A who, old, then : CallLeave(t, who, old, then) => thread'[t].at = "leave.check"
      /\ \A r, password : CallJoin(t, r, password) => thread'[t].at = "join.enter"
    BY <1>2 DEF CallLeave, CallJoin, Rest
<1>8. Return(t) => thread'[t].at \in {"idle", "home.enter", "match.enter"}
    <2>1. thread[t].then \in {"idle", "home.enter", "match.enter"}
        BY <1>1 DEF Thread
    <2>2. CASE thread[t].then = "idle"
        BY <1>6, <2>2 DEF Return
    <2>3. CASE thread[t].then # "idle"
        <3>1. Return(t) => thread'[t] = [Rest(thread[t].then) EXCEPT !.who = thread[t].who]
            BY <1>2, <2>3 DEF Return
        <3>2. [Rest(thread[t].then) EXCEPT !.who = thread[t].who].at = thread[t].then
            BY DEF Rest
        <3>. QED BY <2>1, <3>1, <3>2
    <2>. QED BY <2>2, <2>3
<1>9. NextPlayer(t) => thread'[t].at \in {"idle", "match.previous"}
    BY <1>5, <1>6 DEF NextPlayer
<1>. QED BY <1>2, <1>3, <1>5, <1>6, <1>7, <1>8, <1>9

\* What a thread comes to when it goes on: only unregister_client brings it away, and only
\* handle_delete_room to a deletion.
LEMMA NextLabel ==
    ASSUME LocalsFit, NEW t \in User, Continue(t) \/ Ask(t)
    PROVE  /\ thread[t].at \notin Away /\ ~ByeQueue(t) => thread'[t].at \notin Away
           /\ thread'[t].at \in {"delete.locked", "delete.db"} =>
                DeleteLocked(t) \/ \E r \in RoomName : DeleteRoom(t, r)
<1>1. CASE \/ LeaveLocked(t) \/ LeaveDb(t) \/ LeaveCheck(t) \/ LeaveReset(t)
           \/ HomeEnter(t) \/ HomeSet(t) \/ Rejoin(t)
    <2>1. thread'[t].at \in {"leave.locked", "leave.db", "leave.reset", "home.enter", "home.set",
                            "match.enter", "idle"}
        BY <1>1, Lands DEF LeaveLocked, LeaveDb, LeaveCheck, LeaveReset, HomeEnter, HomeSet, Rejoin
    <2>. QED BY <2>1 DEF Away
<1>2. CASE \/ JoinEnter(t) \/ JoinSet(t) \/ CreateFinish(t) \/ InviteMemory(t) \/ InviteDb(t)
           \/ KickRemove(t) \/ KickWhere(t) \/ DeleteDb(t)
    <2>1. thread'[t].at \in {"join.enter", "join.set", "leave.check", "invite.db", "kick.where",
                            "home.enter", "idle"}
        BY <1>2, Lands DEF JoinEnter, JoinSet, CreateFinish, InviteMemory, InviteDb, KickRemove,
             KickWhere, DeleteDb
    <2>. QED BY <2>1 DEF Away
<1>3. CASE DeleteLocked(t)
    BY <1>3, Lands DEF DeleteLocked, Away
<1>4. CASE \/ MatchCreate(t) \/ MatchFinish(t) \/ MatchInvite(t) \/ MatchDbInvite(t)
           \/ MatchPrevious(t) \/ MatchEnter(t) \/ MatchSet(t)
    <2>1. thread'[t].at \in {"match.finish", "match.invite", "match.dbinvite", "match.previous",
                            "match.enter", "match.set", "leave.check", "idle"}
        BY <1>4, Lands DEF MatchCreate, MatchFinish, MatchInvite, MatchDbInvite, MatchPrevious,
             MatchEnter, MatchSet
    <2>. QED BY <2>1 DEF Away
<1>5. CASE ByeLeave(t) \/ ByeDb(t) \/ ByeForget(t) \/ Login(t) \/ Register(t)
    <2>1. thread[t].at \in Away
        BY <1>5 DEF ByeLeave, ByeDb, ByeForget, Login, Register, At, Away
    <2>2. thread'[t].at \in {"bye.db", "bye.forget", "offline", "registering", "leaked", "idle"}
        BY <1>5, Lands DEF ByeLeave, ByeDb, ByeForget, Login, Register
    <2>. QED BY <2>1, <2>2
<1>6. CASE ByeQueue(t)
    <2>1. thread'[t] = [Rest("bye.leave") EXCEPT !.old = RoomOf(t)]
        BY <1>6, Lands DEF ByeQueue
    <2>2. thread'[t].at = "bye.leave"
        BY <2>1 DEF Rest
    <2>. QED BY <1>6, <2>2
<1>7. CASE Reconnect(t) \/ LeaveRoom(t) \/ Matchmake(t) \/ Disconnect(t)
    <2>1. thread[t].at = "idle"
        BY <1>7 DEF Reconnect, LeaveRoom, Matchmake, Disconnect, Request, At
    <2>2. thread'[t].at \in {"rejoin", "leave.check", "match.create", "bye.queue", "idle"}
        BY <1>7, <2>1, Lands DEF Reconnect, LeaveRoom, Matchmake, Disconnect
    <2>. QED BY <2>2 DEF Away
<1>8. CASE \/ \E target \in User : InviteUser(t, target) \/ KickUser(t, target)
           \/ \E r \in ClientRoom \cup PoolRoom : DeleteRoom(t, r)
           \/ \E r \in RoomName, password \in Password \cup {NoPassword} : JoinRoom(t, r, password)
           \/ \E r \in ClientRoom, info \in RM!NewInfo : CreateRoom(t, r, info)
    <2>1. ASSUME NEW target \in User, InviteUser(t, target) \/ KickUser(t, target)
          PROVE  thread'[t].at \in {"invite.memory", "kick.remove"}
        BY <2>1, Lands DEF InviteUser, KickUser, Rest
    <2>2. ASSUME NEW r, DeleteRoom(t, r)
          PROVE  thread'[t].at \in {"idle", "delete.locked"}
        <3>1. /\ thread[t].at = "idle"
              /\ ~IsOwner(r, t) => thread' = thread
              /\ IsOwner(r, t) => Become(t, [Rest("delete.locked") EXCEPT !.room = r])
            BY <2>2 DEF DeleteRoom, Request, At
        <3>2. [Rest("delete.locked") EXCEPT !.room = r].at = "delete.locked"
            BY DEF Rest
        <3>. QED BY <3>1, <3>2, Lands
    <2>3. ASSUME NEW r, NEW password, JoinRoom(t, r, password) PROVE thread'[t].at = "join.enter"
        BY <2>3, Lands DEF JoinRoom
    <2>4. ASSUME NEW r, NEW info, CreateRoom(t, r, info) PROVE thread'[t].at = "create.finish"
        <3>1. thread'[t] = [Rest("create.finish") EXCEPT !.room = r, !.password = info.password]
            BY <2>4, Lands DEF CreateRoom
        <3>. QED BY <3>1 DEF Rest
    <2>. QED BY <1>8, <2>1, <2>2, <2>3, <2>4, ServiceAssumption DEF Away
<1>. QED BY <1>1, <1>2, <1>3, <1>4, <1>5, <1>6, <1>7, <1>8 DEF Continue, Ask

\* A thread changes no other thread's locals.
LEMMA OthersStay ==
    ASSUME LocalsFit, NEW t \in User, Continue(t) \/ Ask(t), NEW u \in User \ {t}
    PROVE  thread'[u] = thread[u]
<1>1. \/ \E local : Become(t, local)
      \/ \E label : Goto(t, label)
      \/ thread' = thread
    <2>1. CASE Continue(t)
        BY <2>1 DEF Continue, Register, Rejoin, LeaveCheck, LeaveLocked, LeaveDb, LeaveReset,
             HomeEnter, HomeSet, JoinEnter, JoinSet, CreateFinish, InviteMemory, InviteDb,
             KickRemove, KickWhere, DeleteLocked, DeleteDb, MatchCreate, MatchFinish, MatchInvite,
             MatchDbInvite, MatchPrevious, MatchEnter, MatchSet, ByeQueue, ByeLeave, ByeDb,
             ByeForget, NextPlayer, Finish, CallLeave, CallJoin, Return
    <2>2. CASE Ask(t)
        BY <2>2 DEF Ask, Login, Reconnect, LeaveRoom, Matchmake, Disconnect, InviteUser, KickUser,
             DeleteRoom, JoinRoom, CreateRoom, CallLeave, CallJoin
    <2>. QED BY <2>1, <2>2
<1>. QED BY <1>1 DEF LocalsFit, Become, Goto

LEMMA QueueStep ==
    ASSUME LocalsFit, QueueIsOfConnected, [Next]_vars
    PROVE  QueueIsOfConnected'
<1>1. queue \in Seq(User) /\ thread \in [User -> Thread]
    BY DEF LocalsFit
<1>2. CASE Crash \/ UNCHANGED vars
    BY <1>2 DEF Crash, vars, QueueIsOfConnected, Range
<1>3. ASSUME NEW t \in User, Continue(t) \/ Ask(t), ~ByeQueue(t), ~Matchmake(t)
      PROVE  QueueIsOfConnected'
    <2>1. queue' = queue
        BY <1>3 DEF Continue, Ask, Register, Rejoin, LeaveCheck, LeaveLocked, LeaveDb, LeaveReset,
             HomeEnter, HomeSet, JoinEnter, JoinSet, CreateFinish, InviteMemory, InviteDb,
             KickRemove, KickWhere, DeleteLocked, DeleteDb, MatchCreate, MatchFinish, MatchInvite,
             MatchDbInvite, MatchPrevious, MatchEnter, MatchSet, ByeLeave, ByeDb, ByeForget,
             Login, Reconnect, LeaveRoom, Disconnect, InviteUser, KickUser, DeleteRoom, JoinRoom,
             CreateRoom
    <2>2. ASSUME NEW u \in Range(queue) PROVE thread'[u].at \notin Away
        <3>1. u \in User /\ thread[u].at \notin Away
            BY <1>1, <2>2 DEF QueueIsOfConnected, Range, Away
        <3>. QED BY <1>3, <3>1, NextLabel, OthersStay
    <2>. QED BY <2>1, <2>2 DEF QueueIsOfConnected, Away
<1>4. ASSUME NEW t \in User, ByeQueue(t) PROVE QueueIsOfConnected'
    <2>1. CASE t \notin Range(queue)
        <3>1. queue' = queue
            BY <1>4, <2>1 DEF ByeQueue, LeaveQueue
        <3>2. ASSUME NEW u \in Range(queue) PROVE thread'[u].at \notin Away
            <4>1. u \in User /\ u # t /\ thread[u].at \notin Away
                BY <1>1, <2>1, <3>2 DEF QueueIsOfConnected, Range, Away
            <4>. QED BY <1>4, <4>1, OthersStay DEF Continue
        <3>. QED BY <3>1, <3>2 DEF QueueIsOfConnected, Away
    <2>2. CASE t \in Range(queue)
        <3>1. PICK i \in DOMAIN queue : queue[i] = t /\ queue' = RemoveAt(queue, i)
            BY <1>4, <2>2 DEF ByeQueue, LeaveQueue
        <3>2. /\ \A j, k \in DOMAIN queue' : queue'[j] = queue'[k] => j = k
              /\ Range(queue') \subseteq Range(queue) \ {t}
            BY <1>1, <3>1, RemoveAtFacts DEF QueueIsOfConnected
        <3>3. ASSUME NEW u \in Range(queue') PROVE thread'[u].at \notin Away
            <4>1. u \in Range(queue) /\ u # t
                BY <3>2, <3>3
            <4>2. u \in User /\ thread[u].at \notin Away
                BY <1>1, <4>1 DEF QueueIsOfConnected, Range, Away
            <4>. QED BY <1>4, <4>1, <4>2, OthersStay DEF Continue
        <3>. QED BY <3>2, <3>3 DEF QueueIsOfConnected, Away
    <2>. QED BY <2>1, <2>2
<1>5. ASSUME NEW t \in User, Matchmake(t) PROVE QueueIsOfConnected'
    <2>1. thread[t].at = "idle" /\ t \notin Range(queue)
        BY <1>5 DEF Matchmake, Request, At
    <2>2. CASE queue = <<>>
        <3>1. queue' = <<t>> /\ thread' = thread
            BY <1>5, <2>2 DEF Matchmake
        <3>. QED BY <2>1, <3>1 DEF QueueIsOfConnected, Range
    <2>3. CASE queue # <<>>
        <3>1. queue' = Tail(queue) /\ Goto(t, "match.create")
            BY <1>5, <2>3 DEF Matchmake
        <3>2. /\ Len(queue) \in Nat /\ Tail(queue) \in Seq(User) /\ Len(Tail(queue)) = Len(queue) - 1
              /\ \A i \in 1..Len(Tail(queue)) : Tail(queue)[i] = queue[i+1]
            BY <1>1, <2>3, HeadTailProperties
        <3>3. \A i \in DOMAIN queue' : i \in Nat /\ i + 1 \in DOMAIN queue /\ queue'[i] = queue[i+1]
            BY <1>1, <3>1, <3>2
        <3>4. \A i, j \in DOMAIN queue' : queue'[i] = queue'[j] => i = j
            <4> SUFFICES ASSUME NEW i \in DOMAIN queue', NEW j \in DOMAIN queue', queue'[i] = queue'[j]
                         PROVE  i = j
                OBVIOUS
            <4>1. i + 1 = j + 1 /\ i \in Nat /\ j \in Nat
                BY <3>3 DEF QueueIsOfConnected
            <4>. QED BY <4>1
        <3>5. ASSUME NEW u \in Range(queue') PROVE thread'[u].at \notin Away
            <4>1. u \in Range(queue)
                BY <3>3, <3>5 DEF Range
            <4>2. u \in User /\ u # t /\ thread[u].at \notin Away
                BY <1>1, <2>1, <4>1 DEF QueueIsOfConnected, Range, Away
            <4>. QED BY <1>5, <4>2, OthersStay DEF Ask
        <3>. QED BY <3>4, <3>5 DEF QueueIsOfConnected, Away
    <2>. QED BY <2>2, <2>3
<1>. QED BY <1>2, <1>3, <1>4, <1>5 DEF Next

\* The matchmaking queue has each client once, and only one whose unregister_client has not
\* taken it out (matchmaker.py).
THEOREM QueueOfConnected == Spec => []QueueIsOfConnected
<1>1. Init => LocalsFit /\ QueueIsOfConnected
    BY LocalsFitInit DEF Init, QueueIsOfConnected, Range
<1>. QED BY <1>1, LocalsFitStep, QueueStep, PTL DEF Spec

------------------------------------------------------------------------------
(* Where rooms are not deleted and the server does not crash, a room is in memory as *)
(* long as it has a row.                                                             *)

Lasting == Ops \cap {"delete", "crash"} = {}

NobodyDeletes == \A t \in User : thread[t].at \notin {"delete.locked", "delete.db"}

Resident ==
    /\ \A r \in RoomName :
         IF creating # None /\ creating.room = r THEN rooms[r] = None
         ELSE rooms[r] = None <=> rows[r] = None
    /\ creating # None => rows[creating.room] # None

LEMMA GentleStep ==
    ASSUME LocalsFit, Lasting, NobodyDeletes, [Next]_vars
    PROVE  [Gentle]_(RM!vars) /\ NobodyDeletes'
<1>1. thread \in [User -> Thread]
    BY DEF LocalsFit
<1>2. CASE Crash \/ UNCHANGED vars
    BY <1>2, Still DEF Crash, Lasting, vars, NobodyDeletes
<1>3. ASSUME NEW t \in User, Continue(t) \/ Ask(t)
      PROVE  [Gentle]_(RM!vars) /\ NobodyDeletes'
    <2>1. ~DeleteLocked(t) /\ ~DeleteDb(t)
        BY DEF NobodyDeletes, DeleteLocked, DeleteDb, At
    <2>2. \A r : ~DeleteRoom(t, r)
        BY DEF Lasting, DeleteRoom, Request
    <2>3. thread'[t].at \notin {"delete.locked", "delete.db"}
        BY <1>3, <2>1, <2>2, NextLabel
    <2>4. \A u \in User \ {t} : thread'[u] = thread[u]
        BY <1>3, OthersStay
    <2>. QED BY <1>3, <2>1, <2>3, <2>4, RoomTableContinue, RoomTableAsk DEF NobodyDeletes
<1>. QED BY <1>2, <1>3 DEF Next

\* What the methods read is what is in memory.
LEMMA GetResident ==
    ASSUME Resident, RM!Unlocked, NEW r \in RoomName
    PROVE  RM!GetRoom(r) = rooms[r] /\ (rooms[r] = None <=> rows[r] = None)
BY DEF Resident, RM!Unlocked, RM!GetRoom

LEMMA LookupStays ==
    ASSUME RM!TypeOK, Resident, NEW r \in RoomName, RM!Lookup(r)
    PROVE  UNCHANGED RM!vars
<1>1. RM!GetRoom(r) = rooms[r]
    BY GetResident DEF RM!Lookup
<1>. QED BY <1>1 DEF RM!Lookup, RM!Load, RM!TypeOK, RM!vars

\* The room after a method that finds it and keeps it.
LEMMA PutResident ==
    ASSUME RM!TypeOK, Resident, RM!Unlocked, NEW r \in RoomName, rooms[r] # None,
           NEW room \in RM!Room, RM!Put(r, room), UNCHANGED <<rows, creating>>
    PROVE  /\ Resident'
           /\ rooms'[r] = room /\ \A s \in RoomName \ {r} : rooms'[s] = rooms[s]
           /\ rows[r] # None
BY RoomTableAssumption, GetResident DEF Resident, RM!TypeOK, RM!Unlocked, RM!Put

LEMMA JoinEffect ==
    ASSUME RM!TypeOK, Resident, NEW r \in RoomName, NEW u \in User, NEW password,
           RM!Join(r, u, password)
    PROVE  /\ Resident'
           /\ rooms[r] \in RM!Room /\ rows[r] # None
           /\ rooms'[r] = [rooms[r] EXCEPT !.members = @ \cup {u}]
           /\ \A s \in RoomName \ {r} : rooms'[s] = rooms[s]
           /\ rows' = rows /\ rowInvites' = rowInvites /\ creating' = creating
           /\ rooms[r].info.inviteOnly =>
                u \in rooms[r].invites \cup rowInvites[r] \cup {rooms[r].info.owner}
<1>1. RM!Unlocked /\ RM!GetRoom(r) = rooms[r] /\ rooms[r] # None
    BY GetResident DEF RM!Join, RM!MayEnter
<1>2. rooms[r] \in RM!Room
    BY <1>1 DEF RM!TypeOK
<1>3. [rooms[r] EXCEPT !.members = @ \cup {u}] \in RM!Room
    BY <1>2 DEF RM!Room
<1>4. /\ RM!Put(r, [rooms[r] EXCEPT !.members = @ \cup {u}])
      /\ rows' = rows /\ rowInvites' = rowInvites /\ creating' = creating
      /\ rooms[r].info.inviteOnly =>
           u \in rooms[r].invites \cup rowInvites[r] \cup {rooms[r].info.owner}
    BY <1>1 DEF RM!Join, RM!MayEnter
<1>. QED BY <1>1, <1>2, <1>3, <1>4, PutResident

LEMMA InviteEffect ==
    ASSUME RM!TypeOK, Resident, NEW r \in RoomName, NEW u \in User, RM!Invite(r, u)
    PROVE  /\ Resident'
           /\ rooms[r] \in RM!Room
           /\ rooms'[r] = [rooms[r] EXCEPT !.invites = @ \cup {u}]
           /\ \A s \in RoomName \ {r} : rooms'[s] = rooms[s]
           /\ rows' = rows /\ rowInvites' = rowInvites /\ creating' = creating
<1>1. RM!Unlocked /\ RM!GetRoom(r) = rooms[r] /\ rooms[r] # None
    BY GetResident DEF RM!Invite
<1>2. rooms[r] \in RM!Room
    BY <1>1 DEF RM!TypeOK
<1>3. [rooms[r] EXCEPT !.invites = @ \cup {u}] \in RM!Room
    BY <1>2 DEF RM!Room
<1>4. /\ RM!Put(r, [rooms[r] EXCEPT !.invites = @ \cup {u}])
      /\ rows' = rows /\ rowInvites' = rowInvites /\ creating' = creating
    BY <1>1 DEF RM!Invite
<1>. QED BY <1>1, <1>2, <1>3, <1>4, PutResident

\* A member taken out, by kick_user or by leave_room when others stay or the room is no
\* match room.
LEMMA TakeOut ==
    ASSUME RM!TypeOK, Resident, RM!Unlocked, NEW r \in RoomName, NEW u \in User, rooms[r] # None,
           RM!Put(r, [rooms[r] EXCEPT !.members = @ \ {u}]),
           UNCHANGED <<rows, rowInvites, creating>>
    PROVE  /\ Resident'
           /\ rooms[r] \in RM!Room
           /\ rooms'[r] = [rooms[r] EXCEPT !.members = @ \ {u}]
           /\ \A s \in RoomName \ {r} : rooms'[s] = rooms[s]
<1>2. rooms[r] \in RM!Room
    BY DEF RM!TypeOK
<1>3. [rooms[r] EXCEPT !.members = @ \ {u}] \in RM!Room
    BY <1>2 DEF RM!Room
<1>. QED BY <1>2, <1>3, PutResident

LEMMA KickEffect ==
    ASSUME RM!TypeOK, Resident, NEW r \in RoomName, NEW u \in User, RM!Kick(r, u)
    PROVE  /\ Resident'
           /\ rooms[r] \in RM!Room
           /\ rooms'[r] = [rooms[r] EXCEPT !.members = @ \ {u}]
           /\ \A s \in RoomName \ {r} : rooms'[s] = rooms[s]
           /\ rowInvites' = rowInvites
<1>1. RM!Unlocked /\ RM!GetRoom(r) = rooms[r] /\ rooms[r] # None
    BY GetResident DEF RM!Kick
<1>2. /\ RM!Put(r, [rooms[r] EXCEPT !.members = @ \ {u}])
      /\ UNCHANGED <<rows, rowInvites, creating>>
    BY <1>1 DEF RM!Kick
<1>. QED BY <1>1, <1>2, TakeOut

\* leave_room: whoever leaves is out of the room, whether the room is still there or not.
LEMMA LeaveEffect ==
    ASSUME RM!TypeOK, Resident, NEW r \in RoomName, NEW u \in User, RM!Leave(r, u)
    PROVE  /\ Resident'
           /\ \A s \in RoomName \ {r} : rooms'[s] = rooms[s] /\ rowInvites'[s] = rowInvites[s]
           /\ rooms'[r] # None =>
                /\ rooms[r] \in RM!Room
                /\ rooms'[r] = [rooms[r] EXCEPT !.members = @ \ {u}]
                /\ rowInvites'[r] = rowInvites[r]
           /\ rooms'[r] = None => rooms[r] = None \/ rooms[r].members \subseteq {u}
           /\ creating' = creating
<1>1. RM!Unlocked /\ RM!GetRoom(r) = rooms[r] /\ (rooms[r] = None <=> rows[r] = None)
    BY GetResident DEF RM!Leave
<1>2. CASE rooms[r] = None
    BY <1>1, <1>2 DEF RM!Leave, Resident
<1>3. CASE rooms[r] # None /\ r \in MatchRoom /\ rooms[r].members \subseteq {u}
    <2>1. RM!Put(r, None) /\ RM!DropRow(r) /\ creating' = creating
        BY <1>1, <1>3 DEF RM!Leave
    <2>. QED BY <1>1, <1>3, <2>1 DEF RM!Put, RM!DropRow, RM!TypeOK, RM!Unlocked, Resident
<1>4. CASE rooms[r] # None /\ ~(r \in MatchRoom /\ rooms[r].members \subseteq {u})
    <2>1. /\ RM!Put(r, [rooms[r] EXCEPT !.members = @ \ {u}])
          /\ rows' = rows /\ rowInvites' = rowInvites /\ creating' = creating
        BY <1>1, <1>4 DEF RM!Leave
    <2>2. /\ Resident'
          /\ rooms[r] \in RM!Room
          /\ rooms'[r] = [rooms[r] EXCEPT !.members = @ \ {u}]
          /\ \A s \in RoomName \ {r} : rooms'[s] = rooms[s]
        BY <1>1, <1>4, <2>1, TakeOut
    <2>3. rooms'[r] # None
        <3>1. [rooms[r] EXCEPT !.members = @ \ {u}] \in RM!Room
            BY <2>2 DEF RM!Room
        <3>. QED BY <2>2, <3>1, RoomTableAssumption
    <2>. QED BY <2>1, <2>2, <2>3
<1>. QED BY <1>2, <1>3, <1>4

\* create_room, both halves: the row is still there when the owner is added.
LEMMA CreateRowEffect ==
    ASSUME RM!TypeOK, Resident, NEW r \in RoomName, NEW info \in RM!NewInfo, RM!CreateRow(r, info)
    PROVE  Resident' /\ rooms' = rooms /\ rooms[r] = None /\ rowInvites' = rowInvites
<1>1. rooms[r] = None /\ creating = None
    BY GetResident DEF RM!CreateRow, RM!Unlocked
<1>2. info # None /\ [room |-> r, info |-> info] # None
    BY RoomTableAssumption DEF RM!NewInfo, RM!Creation
<1>. QED BY <1>1, <1>2 DEF RM!CreateRow, Resident, RM!TypeOK

LEMMA CreateFinishEffect ==
    ASSUME RM!TypeOK, Resident, RM!CreateFinish
    PROVE  /\ Resident' /\ RM!Created /\ creating \in RM!Creation
           /\ rooms[creating.room] = None
           /\ rooms'[creating.room] = [info |-> creating.info, members |-> {creating.info.owner},
                                       invites |-> {}]
           /\ \A s \in RoomName \ {creating.room} : rooms'[s] = rooms[s]
           /\ rowInvites' = rowInvites
<1> DEFINE r == creating.room
           room == [info |-> creating.info, members |-> {creating.info.owner}, invites |-> {}]
<1>1. creating # None /\ creating \in RM!Creation /\ r \in RoomName
    BY DEF RM!CreateFinish, RM!TypeOK, RM!Creation
<1>2. RM!Created /\ rooms[r] = None /\ rows[r] # None
    BY <1>1 DEF RM!Created, Resident
<1>3. /\ rooms' = [rooms EXCEPT ![r] = room] /\ creating' = None
      /\ rows' = rows /\ rowInvites' = rowInvites
    BY <1>2 DEF RM!CreateFinish, RM!Put
<1>4. room \in RM!Room
    BY <1>1 DEF RM!Creation, RM!NewInfo, RM!Info, RM!Room
<1>5. room # None
    BY <1>4, RoomTableAssumption
<1> HIDE DEF room
<1>6. rooms'[r] = room /\ \A s \in RoomName \ {r} : rooms'[s] = rooms[s]
    BY <1>1, <1>3 DEF RM!TypeOK
<1>7. Resident'
    BY <1>1, <1>2, <1>3, <1>5, <1>6 DEF Resident
<1>. QED BY <1>1, <1>2, <1>3, <1>6, <1>7 DEF room

LEMMA TablesOnlyEffect ==
    ASSUME RM!TypeOK, Resident, NEW r \in RoomName, NEW u \in User,
           RM!DbRemoveMember(r, u) \/ RM!DbInvite(r, u)
    PROVE  /\ Resident' /\ rooms' = rooms
           /\ \A s \in RoomName : rowInvites[s] \subseteq rowInvites'[s]
BY DEF RM!DbRemoveMember, RM!DbInvite, RM!TypeOK, Resident

\* An invite-only room stays so when its settings and invitations do, and who is new in it
\* may be.
LEMMA OneRoomChanges ==
    ASSUME InviteOnlyRoomsHoldInvited, NEW r \in RoomName,
           \A s \in RoomName \ {r} : rooms'[s] = rooms[s] /\ rowInvites[s] \subseteq rowInvites'[s],
           rooms'[r] # None /\ rooms'[r].info.inviteOnly =>
             rooms'[r].members \subseteq
               rooms'[r].invites \cup rowInvites'[r] \cup {rooms'[r].info.owner}
    PROVE  InviteOnlyRoomsHoldInvited'
BY DEF InviteOnlyRoomsHoldInvited

\* The step of a method keeps rooms in memory, and invite-only rooms to the invited.
LEMMA GentleKeeps ==
    ASSUME RM!TypeOK, Resident, [Gentle]_(RM!vars)
    PROVE  Resident' /\ (InviteOnlyRoomsHoldInvited => InviteOnlyRoomsHoldInvited')
<1>1. CASE UNCHANGED RM!vars
    BY <1>1 DEF RM!vars, Resident, InviteOnlyRoomsHoldInvited
<1>2. CASE RM!CreateFinish
    <2>1. creating.room \in RoomName
        BY <1>2, CreateFinishEffect DEF RM!Creation
    <2>. QED BY <1>2, <2>1, CreateFinishEffect DEF InviteOnlyRoomsHoldInvited
<1>3. ASSUME NEW r \in RoomName,
             RM!Lookup(r) \/ \E u \in User, password \in Password \cup {NoPassword} :
                               RM!JoinRefused(r, u, password)
      PROVE  UNCHANGED RM!vars
    BY <1>3, LookupStays DEF RM!JoinRefused
<1>4. ASSUME NEW r \in RoomName, NEW info \in RM!NewInfo, RM!CreateRow(r, info)
      PROVE  Resident' /\ (InviteOnlyRoomsHoldInvited => InviteOnlyRoomsHoldInvited')
    BY <1>4, CreateRowEffect DEF InviteOnlyRoomsHoldInvited
<1>5. ASSUME NEW r \in RoomName, NEW u \in User, RM!Leave(r, u)
      PROVE  Resident' /\ (InviteOnlyRoomsHoldInvited => InviteOnlyRoomsHoldInvited')
    <2>1. Resident'
        BY <1>5, LeaveEffect
    <2> SUFFICES ASSUME InviteOnlyRoomsHoldInvited PROVE InviteOnlyRoomsHoldInvited'
        BY <2>1
    <2>2. \A s \in RoomName \ {r} : rooms'[s] = rooms[s] /\ rowInvites[s] \subseteq rowInvites'[s]
        BY <1>5, LeaveEffect
    <2>3. ASSUME rooms'[r] # None, rooms'[r].info.inviteOnly
          PROVE  rooms'[r].members \subseteq
                   rooms'[r].invites \cup rowInvites'[r] \cup {rooms'[r].info.owner}
        <3>1. /\ rooms[r] \in RM!Room /\ rowInvites'[r] = rowInvites[r]
              /\ rooms'[r] = [rooms[r] EXCEPT !.members = @ \ {u}]
            BY <1>5, <2>3, LeaveEffect
        <3>2. /\ rooms'[r].info = rooms[r].info
              /\ rooms[r].invites \subseteq rooms'[r].invites
              /\ rooms'[r].members \subseteq rooms[r].members
            BY <3>1 DEF RM!Room
        <3>3. rooms[r] # None
            BY <3>1, RoomTableAssumption
        <3>. QED BY <2>3, <3>1, <3>2, <3>3 DEF InviteOnlyRoomsHoldInvited
    <2>. QED BY <2>2, <2>3, OneRoomChanges
<1>6. ASSUME NEW r \in RoomName, NEW u \in User, RM!Invite(r, u)
      PROVE  Resident' /\ (InviteOnlyRoomsHoldInvited => InviteOnlyRoomsHoldInvited')
    <2>1. Resident'
        BY <1>6, InviteEffect
    <2> SUFFICES ASSUME InviteOnlyRoomsHoldInvited PROVE InviteOnlyRoomsHoldInvited'
        BY <2>1
    <2>2. \A s \in RoomName \ {r} : rooms'[s] = rooms[s] /\ rowInvites[s] \subseteq rowInvites'[s]
        BY <1>6, InviteEffect
    <2>3. ASSUME rooms'[r] # None, rooms'[r].info.inviteOnly
          PROVE  rooms'[r].members \subseteq
                   rooms'[r].invites \cup rowInvites'[r] \cup {rooms'[r].info.owner}
        <3>1. /\ rooms[r] \in RM!Room /\ rowInvites'[r] = rowInvites[r]
              /\ rooms'[r] = [rooms[r] EXCEPT !.invites = @ \cup {u}]
            BY <1>6, <2>3, InviteEffect
        <3>2. /\ rooms'[r].info = rooms[r].info
              /\ rooms[r].invites \subseteq rooms'[r].invites
              /\ rooms'[r].members \subseteq rooms[r].members
            BY <3>1 DEF RM!Room
        <3>3. rooms[r] # None
            BY <3>1, RoomTableAssumption
        <3>. QED BY <2>3, <3>1, <3>2, <3>3 DEF InviteOnlyRoomsHoldInvited
    <2>. QED BY <2>2, <2>3, OneRoomChanges
<1>7. ASSUME NEW r \in RoomName, NEW u \in User, RM!Kick(r, u)
      PROVE  Resident' /\ (InviteOnlyRoomsHoldInvited => InviteOnlyRoomsHoldInvited')
    <2>1. Resident'
        BY <1>7, KickEffect
    <2> SUFFICES ASSUME InviteOnlyRoomsHoldInvited PROVE InviteOnlyRoomsHoldInvited'
        BY <2>1
    <2>2. \A s \in RoomName \ {r} : rooms'[s] = rooms[s] /\ rowInvites[s] \subseteq rowInvites'[s]
        BY <1>7, KickEffect
    <2>3. ASSUME rooms'[r] # None, rooms'[r].info.inviteOnly
          PROVE  rooms'[r].members \subseteq
                   rooms'[r].invites \cup rowInvites'[r] \cup {rooms'[r].info.owner}
        <3>1. /\ rooms[r] \in RM!Room /\ rowInvites'[r] = rowInvites[r]
              /\ rooms'[r] = [rooms[r] EXCEPT !.members = @ \ {u}]
            BY <1>7, <2>3, KickEffect
        <3>2. /\ rooms'[r].info = rooms[r].info
              /\ rooms[r].invites \subseteq rooms'[r].invites
              /\ rooms'[r].members \subseteq rooms[r].members
            BY <3>1 DEF RM!Room
        <3>3. rooms[r] # None
            BY <3>1, RoomTableAssumption
        <3>. QED BY <2>3, <3>1, <3>2, <3>3 DEF InviteOnlyRoomsHoldInvited
    <2>. QED BY <2>2, <2>3, OneRoomChanges
<1>8. ASSUME NEW r \in RoomName, NEW u \in User, RM!DbRemoveMember(r, u) \/ RM!DbInvite(r, u)
      PROVE  Resident' /\ (InviteOnlyRoomsHoldInvited => InviteOnlyRoomsHoldInvited')
    BY <1>8, TablesOnlyEffect DEF InviteOnlyRoomsHoldInvited
<1>9. ASSUME NEW r \in RoomName, NEW u \in User,
             NEW password \in Password \cup {NoPassword}, RM!Join(r, u, password)
      PROVE  Resident' /\ (InviteOnlyRoomsHoldInvited => InviteOnlyRoomsHoldInvited')
    <2>1. Resident'
        BY <1>9, JoinEffect
    <2> SUFFICES ASSUME InviteOnlyRoomsHoldInvited PROVE InviteOnlyRoomsHoldInvited'
        BY <2>1
    <2>2. \A s \in RoomName \ {r} : rooms'[s] = rooms[s] /\ rowInvites[s] \subseteq rowInvites'[s]
        BY <1>9, JoinEffect
    <2>3. ASSUME rooms'[r] # None, rooms'[r].info.inviteOnly
          PROVE  rooms'[r].members \subseteq
                   rooms'[r].invites \cup rowInvites'[r] \cup {rooms'[r].info.owner}
        <3>1. /\ rooms[r] \in RM!Room /\ rowInvites'[r] = rowInvites[r]
              /\ rooms'[r] = [rooms[r] EXCEPT !.members = @ \cup {u}]
            BY <1>9, <2>3, JoinEffect
        <3>2. /\ rooms'[r].info = rooms[r].info
              /\ rooms[r].invites \subseteq rooms'[r].invites
              /\ rooms'[r].members \subseteq rooms[r].members \cup {u}
            BY <3>1 DEF RM!Room
        <3>3. rooms[r] # None
            BY <3>1, RoomTableAssumption
        <3>. QED BY <1>9, JoinEffect, <2>3, <3>1, <3>2, <3>3 DEF InviteOnlyRoomsHoldInvited
    <2>. QED BY <2>2, <2>3, OneRoomChanges
<1>10. ASSUME UNCHANGED RM!vars
       PROVE  Resident' /\ (InviteOnlyRoomsHoldInvited => InviteOnlyRoomsHoldInvited')
    BY <1>1, <1>10
<1>. QED BY <1>2, <1>3, <1>4, <1>5, <1>6, <1>7, <1>8, <1>9, <1>10 DEF Gentle

LastingInv == ServiceInv /\ NobodyDeletes /\ Resident

LEMMA LastingInvInit == Init => LastingInv
<1> SUFFICES ASSUME Init PROVE LastingInv
    OBVIOUS
<1>1. ServiceInv /\ NobodyDeletes
    BY ServiceInvInit DEF Init, NobodyDeletes, Rest
<1>2. RM!GlobalInfo \in RM!Info
    BY RoomTableAssumption DEF RM!GlobalInfo, RM!Info
<1>3. [info |-> RM!GlobalInfo, members |-> {}, invites |-> {}] \in RM!Room
    BY <1>2 DEF RM!Room
<1>4. /\ RM!GlobalInfo # None
      /\ [info |-> RM!GlobalInfo, members |-> {}, invites |-> {}] # None
    BY <1>2, <1>3, RoomTableAssumption
<1>5. Resident
    BY <1>4 DEF Init, RM!Init, Resident
<1>. QED BY <1>1, <1>5 DEF LastingInv

LEMMA LastingInvStep ==
    ASSUME Lasting, LastingInv, [Next]_vars
    PROVE  LastingInv' /\ (InviteOnlyRoomsHoldInvited => InviteOnlyRoomsHoldInvited')
BY ServiceInvStep, GentleStep, GentleKeeps, TableFacts DEF LastingInv, ServiceInv

\* Where rooms are not deleted and the server does not crash, whoever is in an invite-only
\* room owns it or was invited, whatever joins, kicks, invitations and matches overlap
\* (RoomManager.join_room, handle_invite_user).
THEOREM OnlyInvited == ASSUME Lasting PROVE Spec => []InviteOnlyRoomsHoldInvited
<1>1. Init => LastingInv /\ InviteOnlyRoomsHoldInvited
    <2>1. Init => \A r \in RoomName : rooms[r] # None => ~rooms[r].info.inviteOnly
        BY DEF Init, RM!Init, RM!GlobalInfo
    <2>. QED BY <2>1, LastingInvInit DEF InviteOnlyRoomsHoldInvited
<1>2. LastingInv /\ InviteOnlyRoomsHoldInvited /\ [Next]_vars
      => (LastingInv /\ InviteOnlyRoomsHoldInvited)'
    BY LastingInvStep
<1>. QED BY <1>1, <1>2, PTL DEF Spec

------------------------------------------------------------------------------
(* Who is where, when rooms have space for everybody and a client is moved only by its  *)
(* own thread.                                                                          *)

Roomy == \A c \in Capacity \cup {GlobalCapacity} : Cardinality(User) < c

\* Nobody but a client's own requests moves it.
Calm == Ops \cap {"kick", "delete", "reconnect", "matchmake", "crash"} = {}

\* The steps' effect on memberships: u is now in the rooms S, everybody else is where it was.
Moves(u, S) ==
    /\ InRooms(u)' = S
    /\ \A v \in User \ {u} : InRooms(v)' = InRooms(v)

\* Rooms keep owner, password and the rest as long as somebody is in them.
SettingsStay == \A v \in User : \A r \in InRooms(v) \cap InRooms(v)' : rooms'[r].info = rooms[r].info

LEMMA Membership ==
    \A u, r : r \in InRooms(u) <=> r \in RoomName /\ rooms[r] # None /\ u \in rooms[r].members
BY DEF InRooms, Members

LEMMA MembershipNext ==
    \A u, r : r \in InRooms(u)' <=> r \in RoomName /\ rooms'[r] # None /\ u \in rooms'[r].members
BY DEF InRooms, Members

\* Memberships change as those of the one room that changes do.
LEMMA OneRoomMoves ==
    ASSUME NEW r \in RoomName, NEW u \in User,
           \A s \in RoomName \ {r} : rooms'[s] = rooms[s],
           \A v \in User \ {u} : v \in Members(r)' <=> v \in Members(r)
    PROVE  /\ u \in Members(r)' => Moves(u, InRooms(u) \cup {r})
           /\ u \notin Members(r)' => Moves(u, InRooms(u) \ {r})
<1>1. ASSUME NEW v \in User, NEW s \in RoomName, s # r
      PROVE  s \in InRooms(v)' <=> s \in InRooms(v)
    BY <1>1, Membership, MembershipNext
<1>2. ASSUME NEW v \in User PROVE (r \in InRooms(v)' <=> v \in Members(r)') /\ (r \in InRooms(v) <=> v \in Members(r))
    BY DEF InRooms
<1>3. \A v \in User : InRooms(v) \subseteq RoomName /\ InRooms(v)' \subseteq RoomName
    BY DEF InRooms
<1>4. \A v \in User \ {u} : InRooms(v)' = InRooms(v)
    BY <1>1, <1>2, <1>3
<1>5. u \in Members(r)' => InRooms(u)' = InRooms(u) \cup {r}
    BY <1>1, <1>2, <1>3
<1>6. u \notin Members(r)' => InRooms(u)' = InRooms(u) \ {r}
    BY <1>1, <1>2, <1>3
<1>. QED BY <1>4, <1>5, <1>6 DEF Moves

LEMMA JoinMoves ==
    ASSUME RM!TypeOK, Resident, NEW r \in RoomName, NEW u \in User, NEW password,
           RM!Join(r, u, password)
    PROVE  Moves(u, InRooms(u) \cup {r}) /\ SettingsStay /\ rows[r] # None
<1>1. /\ rooms[r] \in RM!Room /\ rows[r] # None
      /\ rooms'[r] = [rooms[r] EXCEPT !.members = @ \cup {u}]
      /\ \A s \in RoomName \ {r} : rooms'[s] = rooms[s]
    BY JoinEffect
<1>2. /\ rooms'[r] \in RM!Room /\ rooms'[r].members = rooms[r].members \cup {u}
      /\ rooms'[r].info = rooms[r].info
    BY <1>1 DEF RM!Room
<1>3. Members(r) = rooms[r].members /\ Members(r)' = rooms[r].members \cup {u}
    BY <1>1, <1>2, RoomTableAssumption DEF Members
<1>4. SettingsStay
    BY <1>1, <1>2, Membership DEF SettingsStay
<1>. QED BY <1>1, <1>3, <1>4, OneRoomMoves

LEMMA LeaveMoves ==
    ASSUME RM!TypeOK, Resident, NEW r \in RoomName, NEW u \in User, RM!Leave(r, u)
    PROVE  Moves(u, InRooms(u) \ {r}) /\ SettingsStay
<1>1. \A s \in RoomName \ {r} : rooms'[s] = rooms[s]
    BY LeaveEffect
<1>2. CASE rooms'[r] = None
    <2>1. Members(r)' = {} /\ Members(r) \subseteq {u}
        BY <1>2, LeaveEffect DEF Members
    <2>2. SettingsStay
        BY <1>1, <1>2, Membership, MembershipNext DEF SettingsStay
    <2>. QED BY <1>1, <2>1, <2>2, OneRoomMoves
<1>3. CASE rooms'[r] # None
    <2>1. rooms[r] \in RM!Room /\ rooms'[r] = [rooms[r] EXCEPT !.members = @ \ {u}]
        BY <1>3, LeaveEffect
    <2>2. rooms'[r].members = rooms[r].members \ {u} /\ rooms'[r].info = rooms[r].info
        BY <2>1 DEF RM!Room
    <2>3. Members(r) = rooms[r].members /\ Members(r)' = rooms[r].members \ {u}
        BY <1>3, <2>1, <2>2, RoomTableAssumption DEF Members
    <2>4. SettingsStay
        BY <1>1, <2>2, Membership DEF SettingsStay
    <2>. QED BY <1>1, <2>3, <2>4, OneRoomMoves
<1>. QED BY <1>2, <1>3

LEMMA CreateMoves ==
    ASSUME RM!TypeOK, Resident, RM!CreateFinish
    PROVE  /\ creating.info.owner \in User /\ creating.room \in RoomName
           /\ Moves(creating.info.owner, InRooms(creating.info.owner) \cup {creating.room})
           /\ SettingsStay
           /\ RM!Created /\ rooms'[creating.room].info = creating.info
<1>1. /\ creating.room \in RoomName /\ creating.info.owner \in User
      /\ creating.info \in RM!Info
    BY CreateFinishEffect DEF RM!Creation, RM!NewInfo
<1>2. PICK r \in RoomName, u \in User : r = creating.room /\ u = creating.info.owner
    BY <1>1
<1>3. /\ rooms[r] = None
      /\ rooms'[r] = [info |-> creating.info, members |-> {u}, invites |-> {}]
      /\ \A s \in RoomName \ {r} : rooms'[s] = rooms[s]
      /\ RM!Created
    BY <1>2, CreateFinishEffect
<1>4. rooms'[r].members = {u} /\ rooms'[r].info = creating.info /\ rooms'[r] # None
    <2>1. [info |-> creating.info, members |-> {u}, invites |-> {}] \in RM!Room
        BY <1>1 DEF RM!Room
    <2>. QED BY <1>3, <2>1, RoomTableAssumption
<1>5. Members(r) = {} /\ Members(r)' = {u}
    BY <1>3, <1>4 DEF Members
<1>6. SettingsStay
    BY <1>3, Membership DEF SettingsStay
<1>7. Moves(u, InRooms(u) \cup {r})
    BY <1>3, <1>5, OneRoomMoves
<1>. QED BY <1>1, <1>2, <1>3, <1>4, <1>6, <1>7

\* What leaves members alone.
LEMMA SameRoomsMove ==
    ASSUME rooms' = rooms
    PROVE  /\ SettingsStay
           /\ \A v \in User : InRooms(v)' = InRooms(v)
BY DEF SettingsStay, InRooms, Members

LEMMA InviteMoves ==
    ASSUME RM!TypeOK, Resident, NEW r \in RoomName, NEW u \in User, RM!Invite(r, u)
    PROVE  /\ SettingsStay
           /\ \A v \in User : InRooms(v)' = InRooms(v)
<1>1. /\ rooms[r] \in RM!Room
      /\ rooms'[r] = [rooms[r] EXCEPT !.invites = @ \cup {u}]
      /\ \A s \in RoomName \ {r} : rooms'[s] = rooms[s]
    BY InviteEffect
<1>2. /\ rooms'[r].members = rooms[r].members /\ rooms'[r].info = rooms[r].info
      /\ rooms'[r] \in RM!Room
    BY <1>1 DEF RM!Room
<1>3. Members(r)' = Members(r)
    BY <1>1, <1>2, RoomTableAssumption DEF Members
<1>4. SettingsStay
    BY <1>1, <1>2, Membership DEF SettingsStay
<1>5. \A v \in User : InRooms(v)' = InRooms(v)
    <2>1. \A s \in RoomName : Members(s)' = Members(s)
        BY <1>1, <1>3 DEF Members
    <2>. QED BY <2>1 DEF InRooms
<1>. QED BY <1>4, <1>5

\* Where there is space for everybody, only invitations and passwords keep anybody out.
LEMMA MayEnterRoomy ==
    ASSUME RM!TypeOK, Resident, Roomy, RM!Unlocked, NEW r \in RoomName, NEW u \in User, NEW password,
           rooms[r] # None,
           rooms[r].info.inviteOnly =>
             u \in rooms[r].invites \cup rowInvites[r] \cup {rooms[r].info.owner},
           rooms[r].info.password \in {NoPassword, password}
    PROVE  RM!MayEnter(r, u, password)
<1>1. rooms[r] \in RM!Room /\ RM!GetRoom(r) = rooms[r]
    BY GetResident DEF RM!TypeOK
<1>2. rooms[r].members \in SUBSET User /\ rooms[r].info.capacity \in Capacity \cup {GlobalCapacity}
    BY <1>1 DEF RM!Room, RM!Info
<1>3. /\ Cardinality(rooms[r].members) \in Nat /\ Cardinality(User) \in Nat
      /\ Cardinality(rooms[r].members) <= Cardinality(User)
    BY <1>2, RoomTableAssumption, FS_Subset, FS_CardinalityType
<1>4. rooms[r].info.capacity \in Int /\ Cardinality(User) < rooms[r].info.capacity
    <2>1. \A c \in Capacity \cup {GlobalCapacity} : c \in Int
        BY RoomTableAssumption
    <2>. QED BY <1>2, <2>1 DEF Roomy
<1>5. Cardinality(rooms[r].members) < rooms[r].info.capacity
    BY <1>3, <1>4
<1>6. RM!Cardinality(rooms[r].members) = Cardinality(rooms[r].members)
    BY DEF RM!Cardinality, Cardinality
<1>. QED BY <1>1, <1>5, <1>6 DEF RM!MayEnter

\* The global room lets everybody in.
LEMMA GlobalLetsIn ==
    ASSUME ServiceInv, Resident, Roomy, NEW u \in User
    PROVE  ~RM!JoinRefused(Global, u, NoPassword)
<1> SUFFICES ASSUME RM!JoinRefused(Global, u, NoPassword) PROVE FALSE
    OBVIOUS
<1>1. RM!Unlocked /\ ~RM!MayEnter(Global, u, NoPassword)
    BY DEF RM!JoinRefused, RM!Lookup
<1>2. /\ RM!TypeOK /\ RM!MemoryIsTheRowsRoom /\ rows[Global] = RM!GlobalInfo
    BY TableFacts DEF ServiceInv
<1>3. Global \in RoomName /\ RM!GlobalInfo # None
    <2>1. RM!GlobalInfo \in RM!Info
        BY RoomTableAssumption DEF RM!GlobalInfo, RM!Info
    <2>. QED BY <2>1, ServiceAssumption, RoomTableAssumption
<1>4. rooms[Global] # None /\ creating = None
    BY <1>1, <1>2, <1>3, GetResident DEF RM!Unlocked
<1>5. rooms[Global].info = RM!GlobalInfo
    BY <1>2, <1>3, <1>4 DEF RM!MemoryIsTheRowsRoom
<1>6. ~rooms[Global].info.inviteOnly /\ rooms[Global].info.password = NoPassword
    BY <1>5 DEF RM!GlobalInfo
<1>. QED BY <1>1, <1>2, <1>3, <1>4, <1>6, MayEnterRoomy

------------------------------------------------------------------------------
(* The room of a client at each statement of its thread. *)

CalmLabel == {"offline", "registering", "idle", "create.finish", "join.enter", "join.set",
              "leave.check", "leave.locked", "leave.db", "leave.reset", "home.enter", "home.set",
              "invite.memory", "invite.db", "bye.queue", "bye.leave", "bye.db", "bye.forget"}

Leaving == {"leave.check", "leave.locked", "leave.db", "leave.reset"}

\* Where u is at each statement of its thread: home is the room of user_rooms, here the
\* rooms that have u as a member.
Place(u) ==
    LET l == thread[u]  here == InRooms(u)  home == userRoom[u] IN
    /\ l.at \in CalmLabel
    /\ l.at \in Leaving \cup {"home.enter", "home.set"} => l.who = u
    /\ l.at = "offline" => here = {} /\ home = None
    /\ l.at \in {"registering", "home.enter"} => here = {} /\ home = Global
    /\ l.at \in {"idle", "invite.memory", "invite.db", "bye.queue", "create.finish"} =>
         here = {home}
    /\ l.at = "create.finish" =>
         /\ creating # None /\ creating.room = l.room
         /\ creating.info.owner = u /\ creating.info.password = l.password
    /\ l.at = "join.enter" =>
         /\ l.old = home /\ home \in here /\ here \subseteq {home, l.room}
         /\ l.room \in here \ {home} =>
              /\ rooms[l.room].info.owner = u
              /\ rooms[l.room].info.password = l.password
    /\ l.at = "join.set" => l.old = home /\ here = {home, l.room}
    /\ l.at \in {"leave.check", "leave.locked"} =>
         \/ l.then = "idle" /\ home # l.old /\ here = {home, l.old}
         \/ l.then = "home.enter" /\ home = l.old /\ here = {home}
    /\ l.at \in {"leave.db", "leave.reset"} =>
         \/ l.then = "idle" /\ home # l.old /\ here = {home}
         \/ l.then = "home.enter" /\ home = l.old /\ here = {}
    /\ l.at = "home.set" => here = {Global}
    /\ l.at = "bye.leave" => l.old = home /\ here = {home}
    /\ l.at \in {"bye.db", "bye.forget"} => here = {}

Undisturbed(t) ==
    \A u \in User \ {t} :
        /\ userRoom'[u] = userRoom[u]
        /\ InRooms(u)' = InRooms(u)
        /\ \A r \in InRooms(u) : rooms'[r].info = rooms[r].info
        /\ thread[u].at = "create.finish" => creating' = creating

CalmInv == LastingInv /\ \A u \in User : Place(u)

LEMMA OthersKeepPlace ==
    ASSUME NEW t \in User, NEW u \in User \ {t}, Place(u), Undisturbed(t), thread'[u] = thread[u]
    PROVE  Place(u)'
<1>1. /\ userRoom'[u] = userRoom[u] /\ InRooms(u)' = InRooms(u)
      /\ \A r \in InRooms(u) : rooms'[r].info = rooms[r].info
      /\ thread[u].at = "create.finish" => creating' = creating
    BY DEF Undisturbed
<1>. QED BY <1>1 DEF Place

\* Steps that move nobody, and steps that move the thread's own client.
LEMMA StillUndisturbs ==
    ASSUME NEW t \in User,
           \A u \in User \ {t} : userRoom'[u] = userRoom[u],
           SettingsStay, \A v \in User : InRooms(v)' = InRooms(v),
           creating' = creating \/ creating = None, CalmInv
    PROVE  Undisturbed(t)
BY DEF Undisturbed, SettingsStay, CalmInv, Place

LEMMA MoveUndisturbs ==
    ASSUME NEW t \in User, NEW S,
           \A u \in User \ {t} : userRoom'[u] = userRoom[u],
           SettingsStay, Moves(t, S),
           creating' = creating \/ creating = None, CalmInv
    PROVE  Undisturbed(t)
BY DEF Undisturbed, SettingsStay, Moves, CalmInv, Place

LEMMA CalmFacts ==
    ASSUME CalmInv, NEW t \in User
    PROVE  /\ Place(t) /\ LocalsFit /\ RM!TypeOK /\ Resident /\ ServiceInv
           /\ Fit(thread[t], t, userRoom[t], match) /\ thread[t] \in Thread
           /\ userRoom \in [User -> RoomName \cup {None}]
BY TableFacts DEF CalmInv, LastingInv, ServiceInv, LocalsFit

\* Connecting: the client is in no room until it is in the global one.
LEMMA ConnectPlace ==
    ASSUME CalmInv, Roomy, NEW t \in User, Login(t) \/ Register(t)
    PROVE  Place(t)' /\ Undisturbed(t)
<1>1. /\ Place(t) /\ LocalsFit /\ RM!TypeOK /\ Resident /\ ServiceInv
      /\ userRoom \in [User -> RoomName \cup {None}]
    BY CalmFacts
<1>2. CASE Login(t)
    <2>1. /\ thread[t].at = "offline" /\ thread'[t].at = "registering"
          /\ userRoom' = [userRoom EXCEPT ![t] = Global] /\ rooms' = rooms /\ creating' = creating
        BY <1>1, <1>2, Lands DEF Login, At, roomVars
    <2>2. InRooms(t)' = {} /\ userRoom'[t] = Global
        BY <1>1, <2>1, SameRoomsMove DEF Place
    <2>3. Undisturbed(t)
        BY <1>1, <2>1, SameRoomsMove, StillUndisturbs
    <2>. QED BY <2>1, <2>2, <2>3 DEF Place, CalmLabel, Leaving
<1>3. CASE Register(t)
    <2>1. thread[t].at = "registering" /\ InRooms(t) = {} /\ userRoom[t] = Global
        BY <1>1, <1>3 DEF Register, At, Place
    <2>2. RM!Join(Global, t, NoPassword) /\ thread'[t].at = "idle" /\ userRoom' = userRoom
        BY <1>1, <1>3, <2>1, GlobalLetsIn, Lands DEF Register
    <2>3. Moves(t, {Global}) /\ SettingsStay /\ creating' = creating
        <3>1. Moves(t, InRooms(t) \cup {Global}) /\ SettingsStay /\ creating' = creating
            BY <1>1, <2>2, JoinMoves, ServiceAssumption DEF RM!Join
        <3>2. InRooms(t) \cup {Global} = {Global}
            BY <2>1
        <3>. QED BY <3>1, <3>2
    <2>4. Undisturbed(t)
        BY <2>2, <2>3, MoveUndisturbs
    <2>. QED BY <2>1, <2>2, <2>3, <2>4 DEF Moves, Place, CalmLabel, Leaving
<1>. QED BY <1>2, <1>3

\* leave_room of the service, for the client itself.
LEMMA LeavePlace ==
    ASSUME CalmInv, NEW t \in User, LeaveCheck(t) \/ LeaveLocked(t) \/ LeaveDb(t) \/ LeaveReset(t)
    PROVE  Place(t)' /\ Undisturbed(t)
<1>1. /\ Place(t) /\ LocalsFit /\ RM!TypeOK /\ Resident
      /\ Fit(thread[t], t, userRoom[t], match) /\ thread[t] \in Thread
      /\ userRoom \in [User -> RoomName \cup {None}]
    BY CalmFacts
<1>2. thread[t].at \in Leaving /\ thread[t].who = t /\ thread[t].old \in RoomName
    BY <1>1 DEF LeaveCheck, LeaveLocked, LeaveDb, LeaveReset, At, Place, Leaving, Fit, NeedsOld
<1>3. CASE LeaveCheck(t)
    <2>1. UNCHANGED RM!vars /\ userRoom' = userRoom /\ thread[t].at = "leave.check" /\ RM!Unlocked
        BY <1>1, <1>2, <1>3, LookupStays DEF LeaveCheck, At, RM!Lookup
    <2>2. thread[t].old \in InRooms(t)
        BY <1>1, <2>1 DEF Place
    <2>3. IsMember(thread[t].old, thread[t].who)
        BY <1>1, <1>2, <2>1, <2>2, Membership, GetResident DEF IsMember
    <2>4. thread'[t] = [thread[t] EXCEPT !.at = "leave.locked"]
        BY <1>1, <1>3, <2>3, Lands DEF LeaveCheck
    <2>5. /\ thread'[t].at = "leave.locked" /\ thread'[t].who = thread[t].who
          /\ thread'[t].old = thread[t].old /\ thread'[t].then = thread[t].then
        BY <1>1, <2>4 DEF Thread
    <2>6. Undisturbed(t) /\ InRooms(t)' = InRooms(t)
        BY <2>1, SameRoomsMove, StillUndisturbs DEF RM!vars
    <2>. QED BY <1>1, <1>2, <2>1, <2>5, <2>6 DEF Place, CalmLabel, Leaving
<1>4. CASE LeaveLocked(t)
    <2>1. /\ RM!Leave(thread[t].old, t) /\ thread[t].at = "leave.locked" /\ userRoom' = userRoom
          /\ thread'[t] = [thread[t] EXCEPT !.at = "leave.db"]
        BY <1>1, <1>2, <1>4, Lands DEF LeaveLocked, At
    <2>2. /\ thread'[t].at = "leave.db" /\ thread'[t].who = thread[t].who
          /\ thread'[t].old = thread[t].old /\ thread'[t].then = thread[t].then
        BY <1>1, <2>1 DEF Thread
    <2>3. Moves(t, InRooms(t) \ {thread[t].old}) /\ SettingsStay /\ creating' = creating
        BY <1>1, <1>2, <2>1, LeaveMoves, LeaveEffect
    <2>4. Undisturbed(t) /\ InRooms(t)' = InRooms(t) \ {thread[t].old}
        BY <2>1, <2>3, MoveUndisturbs DEF Moves
    <2>. QED BY <1>1, <1>2, <2>1, <2>2, <2>4 DEF Place, CalmLabel, Leaving
<1>5. CASE LeaveDb(t)
    <2>1. /\ rooms' = rooms /\ creating' = creating /\ userRoom' = userRoom
          /\ thread[t].at = "leave.db"
          /\ thread'[t] = [thread[t] EXCEPT !.at = "leave.reset"]
        BY <1>1, <1>5, Lands DEF LeaveDb, RM!DbRemoveMember, At
    <2>2. /\ thread'[t].at = "leave.reset" /\ thread'[t].who = thread[t].who
          /\ thread'[t].old = thread[t].old /\ thread'[t].then = thread[t].then
        BY <1>1, <2>1 DEF Thread
    <2>3. Undisturbed(t) /\ InRooms(t)' = InRooms(t)
        BY <2>1, SameRoomsMove, StillUndisturbs
    <2>. QED BY <1>1, <1>2, <2>1, <2>2, <2>3 DEF Place, CalmLabel, Leaving
<1>6. CASE LeaveReset(t)
    <2>1. /\ rooms' = rooms /\ creating' = creating /\ thread[t].at = "leave.reset"
          /\ userRoom' = [userRoom EXCEPT ![t] = IF @ = thread[t].old THEN Global ELSE @]
          /\ Return(t)
        BY <1>2, <1>6 DEF LeaveReset, At, roomVars
    <2>2. Undisturbed(t) /\ InRooms(t)' = InRooms(t)
        BY <1>1, <2>1, SameRoomsMove, StillUndisturbs
    <2>3. CASE thread[t].then = "idle"
        <3>1. userRoom'[t] = userRoom[t] /\ InRooms(t) = {userRoom[t]} /\ thread'[t].at = "idle"
            BY <1>1, <2>1, <2>3, Lands DEF Place, Return
        <3>. QED BY <2>2, <3>1 DEF Place, CalmLabel, Leaving
    <2>4. CASE thread[t].then = "home.enter"
        <3>1. userRoom'[t] = Global /\ InRooms(t) = {}
            BY <1>1, <2>1, <2>4 DEF Place
        <3>2. thread'[t] = [Rest("home.enter") EXCEPT !.who = t]
            BY <1>1, <1>2, <2>1, <2>4, Lands DEF Return
        <3>3. thread'[t].at = "home.enter" /\ thread'[t].who = t
            BY <3>2 DEF Rest
        <3>. QED BY <2>2, <3>1, <3>3 DEF Place, CalmLabel, Leaving
    <2>. QED BY <1>1, <2>1, <2>3, <2>4 DEF Place
<1>. QED BY <1>3, <1>4, <1>5, <1>6

\* join_room(who, "global") of the service.
LEMMA HomePlace ==
    ASSUME CalmInv, Roomy, NEW t \in User, HomeEnter(t) \/ HomeSet(t)
    PROVE  Place(t)' /\ Undisturbed(t)
<1>1. /\ Place(t) /\ LocalsFit /\ RM!TypeOK /\ Resident /\ ServiceInv /\ thread[t] \in Thread
      /\ userRoom \in [User -> RoomName \cup {None}]
    BY CalmFacts
<1>2. thread[t].who = t
    BY <1>1 DEF HomeEnter, HomeSet, At, Place
<1>3. CASE HomeEnter(t)
    <2>1. InRooms(t) = {} /\ userRoom[t] = Global
        BY <1>1, <1>3 DEF HomeEnter, At, Place
    <2>2. /\ RM!Join(Global, t, NoPassword) /\ userRoom' = userRoom
          /\ thread'[t] = [thread[t] EXCEPT !.at = "home.set"]
        BY <1>1, <1>2, <1>3, GlobalLetsIn, Lands DEF HomeEnter
    <2>3. thread'[t].at = "home.set" /\ thread'[t].who = t
        BY <1>1, <1>2, <2>2 DEF Thread
    <2>4. Moves(t, {Global}) /\ SettingsStay /\ creating' = creating
        BY <1>1, <2>1, <2>2, JoinMoves, ServiceAssumption DEF RM!Join
    <2>5. Undisturbed(t)
        BY <2>2, <2>4, MoveUndisturbs
    <2>. QED BY <2>1, <2>2, <2>3, <2>4, <2>5 DEF Moves, Place, CalmLabel, Leaving
<1>4. CASE HomeSet(t)
    <2>1. /\ rooms' = rooms /\ creating' = creating /\ thread'[t].at = "idle"
          /\ userRoom' = [userRoom EXCEPT ![t] = Global] /\ InRooms(t) = {Global}
        BY <1>1, <1>2, <1>4, Lands DEF HomeSet, At, Place, roomVars
    <2>2. Undisturbed(t) /\ InRooms(t)' = InRooms(t) /\ userRoom'[t] = Global
        BY <1>1, <2>1, SameRoomsMove, StillUndisturbs
    <2>. QED BY <2>1, <2>2 DEF Place, CalmLabel, Leaving
<1>. QED BY <1>3, <1>4

\* handle_join_room and handle_create_room.
LEMMA JoinPlace ==
    ASSUME CalmInv, Roomy, NEW t \in User, JoinEnter(t) \/ JoinSet(t)
    PROVE  Place(t)' /\ Undisturbed(t)
<1>1. /\ Place(t) /\ LocalsFit /\ RM!TypeOK /\ Resident /\ thread[t] \in Thread
      /\ Fit(thread[t], t, userRoom[t], match)
      /\ userRoom \in [User -> RoomName \cup {None}]
    BY CalmFacts
<1>2. thread[t].room \in RoomName /\ thread[t].old \in RoomName /\ thread[t].old = userRoom[t]
    BY <1>1 DEF JoinEnter, JoinSet, At, Place, Fit, NeedsRoom, NeedsOld
<1> DEFINE r == thread[t].room
<1>3. ASSUME JoinEnter(t), RM!Join(r, t, thread[t].password) PROVE Place(t)' /\ Undisturbed(t)
    <2>1. /\ Moves(t, InRooms(t) \cup {r}) /\ SettingsStay /\ rows[r] # None
          /\ creating' = creating
        BY <1>1, <1>2, <1>3, JoinMoves DEF RM!Join
    <2>3. thread'[t].at = "join.set" /\ thread'[t].room = r /\ thread'[t].old = thread[t].old
        <3>1. RM!JoinRefused(r, t, thread[t].password) => FALSE
            BY <1>3 DEF RM!Join, RM!JoinRefused
        <3>2. thread'[t] = [thread[t] EXCEPT !.at = "join.set"]
            BY <1>1, <1>3, <2>1, <3>1, Lands DEF JoinEnter
        <3>. QED BY <1>1, <3>2 DEF Thread
    <2>4. InRooms(t) \cup {r} = {userRoom[t], r}
        BY <1>1, <1>3 DEF JoinEnter, At, Place
    <2>5. userRoom' = userRoom /\ InRooms(t)' = {userRoom[t], r}
        BY <1>3, <2>1, <2>4 DEF JoinEnter, Moves
    <2>6. Undisturbed(t)
        BY <2>1, <2>5, MoveUndisturbs
    <2>. QED BY <1>2, <2>3, <2>5, <2>6 DEF Place, CalmLabel, Leaving
<1>4. ASSUME JoinEnter(t), RM!JoinRefused(r, t, thread[t].password) PROVE Place(t)' /\ Undisturbed(t)
    <2>1. UNCHANGED RM!vars /\ RM!Unlocked /\ ~RM!MayEnter(r, t, thread[t].password)
        BY <1>1, <1>2, <1>4, LookupStays DEF RM!JoinRefused, RM!Lookup
    <2>2. thread'[t].at = "idle" /\ userRoom' = userRoom
        BY <1>1, <1>4, Lands DEF JoinEnter, RM!Join, RM!JoinRefused
    <2>3. r \notin InRooms(t) \ {userRoom[t]}
        <3> SUFFICES ASSUME r \in InRooms(t) \ {userRoom[t]} PROVE FALSE
            OBVIOUS
        <3>1. rooms[r].info.owner = t /\ rooms[r].info.password = thread[t].password
            BY <1>1, <1>4 DEF JoinEnter, At, Place
        <3>2. rooms[r] # None
            BY Membership
        <3>. QED BY <1>1, <1>2, <2>1, <3>1, <3>2, MayEnterRoomy
    <2>4. InRooms(t) = {userRoom[t]}
        BY <1>1, <1>4, <2>3 DEF JoinEnter, At, Place
    <2>5. Undisturbed(t) /\ InRooms(t)' = InRooms(t)
        BY <2>1, <2>2, SameRoomsMove, StillUndisturbs DEF RM!vars
    <2>. QED BY <2>2, <2>4, <2>5 DEF Place, CalmLabel, Leaving
<1>5. CASE JoinSet(t)
    <2>1. /\ rooms' = rooms /\ creating' = creating /\ InRooms(t) = {userRoom[t], r}
          /\ userRoom' = [userRoom EXCEPT ![t] = r]
        BY <1>1, <1>5 DEF JoinSet, At, Place, roomVars
    <2>2. Undisturbed(t) /\ InRooms(t)' = InRooms(t) /\ userRoom'[t] = r
        BY <1>1, <2>1, SameRoomsMove, StillUndisturbs
    <2>3. CASE thread[t].old = r
        <3>1. thread'[t].at = "idle"
            BY <1>1, <1>5, <2>3, Lands DEF JoinSet
        <3>. QED BY <1>2, <2>1, <2>2, <2>3, <3>1 DEF Place, CalmLabel, Leaving
    <2>4. CASE thread[t].old # r
        <3>1. thread'[t] = [Rest("leave.check") EXCEPT !.who = t, !.old = thread[t].old, !.then = "idle"]
            BY <1>1, <1>5, <2>4, Lands DEF JoinSet, CallLeave
        <3>2. /\ thread'[t].at = "leave.check" /\ thread'[t].who = t /\ thread'[t].old = thread[t].old
              /\ thread'[t].then = "idle"
            BY <3>1 DEF Rest
        <3>. QED BY <1>2, <2>1, <2>2, <2>4, <3>2 DEF Place, CalmLabel, Leaving
    <2>. QED BY <2>3, <2>4
<1>. QED BY <1>3, <1>4, <1>5 DEF JoinEnter

LEMMA CallsJoin ==
    ASSUME LocalsFit, NEW t \in User, NEW r, NEW password, CallJoin(t, r, password)
    PROVE  thread'[t].at = "join.enter" /\ thread'[t].room = r /\ thread'[t].old = RoomOf(t)
           /\ thread'[t].password = password
<1>1. thread'[t] = [Rest("join.enter") EXCEPT !.room = r, !.old = RoomOf(t), !.password = password]
    BY Lands DEF CallJoin
<1>. QED BY <1>1 DEF Rest

LEMMA CreatePlace ==
    ASSUME CalmInv, NEW t \in User,
           CreateFinish(t) \/ \E r \in ClientRoom, info \in RM!NewInfo : CreateRoom(t, r, info)
    PROVE  Place(t)' /\ Undisturbed(t)
<1>1. /\ Place(t) /\ LocalsFit /\ RM!TypeOK /\ Resident /\ thread[t] \in Thread
      /\ Fit(thread[t], t, userRoom[t], match)
      /\ userRoom \in [User -> RoomName \cup {None}]
    BY CalmFacts
<1>2. CASE CreateFinish(t)
    <2>1. /\ creating # None /\ creating.room = thread[t].room
          /\ creating.info.owner = t /\ creating.info.password = thread[t].password
          /\ InRooms(t) = {userRoom[t]} /\ RM!CreateFinish /\ userRoom' = userRoom
        BY <1>1, <1>2 DEF CreateFinish, At, Place
    <2>2. /\ Moves(t, InRooms(t) \cup {thread[t].room}) /\ SettingsStay /\ RM!Created
          /\ rooms'[thread[t].room].info = creating.info
        BY <1>1, <2>1, CreateMoves
    <2>3. /\ thread'[t].at = "join.enter" /\ thread'[t].room = thread[t].room
          /\ thread'[t].old = RoomOf(t) /\ thread'[t].password = thread[t].password
        <3>1. CallJoin(t, thread[t].room, thread[t].password)
            BY <1>2, <2>2 DEF CreateFinish
        <3>. QED BY <1>1, <3>1, CallsJoin
    <2>4. RoomOf(t) = userRoom[t]
        <3>1. userRoom[t] \in InRooms(t)
            BY <2>1
        <3>. QED BY <3>1, RoomTableAssumption DEF RoomOf, InRooms
    <2>5. Undisturbed(t)
        <3>1. \A u \in User \ {t} : thread[u].at # "create.finish"
            BY <2>1 DEF CalmInv, Place
        <3>. QED BY <2>1, <2>2, <3>1 DEF Undisturbed, SettingsStay, Moves
    <2>6. InRooms(t)' = {userRoom[t], thread[t].room}
        BY <2>1, <2>2 DEF Moves
    <2>. QED BY <2>1, <2>2, <2>3, <2>4, <2>5, <2>6 DEF Place, CalmLabel, Leaving
<1>3. ASSUME NEW r \in ClientRoom, NEW info \in RM!NewInfo, CreateRoom(t, r, info)
      PROVE  Place(t)' /\ Undisturbed(t)
    <2>1. /\ InRooms(t) = {userRoom[t]} /\ userRoom' = userRoom /\ info.owner = t
          /\ RM!CreateRow(r, info) /\ r \in RoomName
          /\ thread'[t] = [Rest("create.finish") EXCEPT !.room = r, !.password = info.password]
        BY <1>1, <1>3, Lands, ServiceAssumption DEF CreateRoom, Request, At, Place
    <2>2. /\ rooms' = rooms /\ creating = None /\ creating' = [room |-> r, info |-> info]
        BY <1>1, <2>1, CreateRowEffect DEF RM!CreateRow, RM!Unlocked
    <2>3. thread'[t].at = "create.finish" /\ thread'[t].room = r /\ thread'[t].password = info.password
        BY <2>1 DEF Rest
    <2>4. creating' # None /\ creating'.room = r /\ creating'.info = info
        <3>1. creating' \in RM!Creation
            BY <2>1, <2>2 DEF RM!Creation
        <3>. QED BY <2>2, <3>1, RoomTableAssumption
    <2>5. Undisturbed(t) /\ InRooms(t)' = InRooms(t)
        BY <2>1, <2>2, SameRoomsMove, StillUndisturbs
    <2>. QED BY <2>1, <2>3, <2>4, <2>5 DEF Place, CalmLabel, Leaving
<1>. QED BY <1>2, <1>3

\* handle_invite_user.
LEMMA InvitePlace ==
    ASSUME CalmInv, NEW t \in User,
           InviteMemory(t) \/ InviteDb(t) \/ \E target \in User : InviteUser(t, target)
    PROVE  Place(t)' /\ Undisturbed(t)
<1>1. /\ Place(t) /\ LocalsFit /\ RM!TypeOK /\ Resident /\ thread[t] \in Thread
      /\ Fit(thread[t], t, userRoom[t], match) /\ RoomOf(t) \in RoomName
    BY CalmFacts, RoomOfType
<1>2. InRooms(t) = {userRoom[t]} /\ userRoom' = userRoom
    BY <1>1 DEF InviteMemory, InviteDb, InviteUser, Request, At, Place
<1>3. /\ SettingsStay /\ \A v \in User : InRooms(v)' = InRooms(v)
      /\ creating' = creating
    <2>1. CASE \E target \in User : InviteUser(t, target)
        BY <1>1, <2>1, LookupStays, SameRoomsMove DEF InviteUser, RM!vars
    <2>2. CASE InviteMemory(t)
        <3>1. thread[t].room \in RoomName /\ thread[t].who \in User
            BY <1>1, <2>2 DEF InviteMemory, At, Fit, NeedsRoom, NeedsWho
        <3>2. CASE RM!Invite(thread[t].room, thread[t].who)
            BY <1>1, <3>1, <3>2, InviteMoves, InviteEffect
        <3>3. CASE RM!Lookup(thread[t].room)
            BY <1>1, <3>1, <3>3, LookupStays, SameRoomsMove DEF RM!vars
        <3>. QED BY <2>2, <3>2, <3>3 DEF InviteMemory
    <2>3. CASE InviteDb(t)
        <3>1. rooms' = rooms /\ creating' = creating
            BY <2>3 DEF InviteDb, RM!DbInvite, roomVars
        <3>. QED BY <3>1, SameRoomsMove
    <2>. QED BY <2>1, <2>2, <2>3
<1>4. thread'[t].at \in {"invite.memory", "invite.db", "idle"}
    <2>1. ASSUME NEW target \in User, InviteUser(t, target) PROVE thread'[t].at = "invite.memory"
        <3>1. thread'[t] = [Rest("invite.memory") EXCEPT !.room = RoomOf(t), !.who = target]
            BY <1>1, <2>1, Lands DEF InviteUser
        <3>. QED BY <3>1 DEF Rest
    <2>. QED BY <1>1, <2>1, Lands DEF InviteMemory, InviteDb
<1>5. Undisturbed(t)
    BY <1>2, <1>3, StillUndisturbs
<1>. QED BY <1>2, <1>3, <1>4, <1>5 DEF Place, CalmLabel, Leaving

\* unregister_client.
LEMMA ByePlace ==
    ASSUME CalmInv, NEW t \in User,
           Disconnect(t) \/ ByeQueue(t) \/ ByeLeave(t) \/ ByeDb(t) \/ ByeForget(t)
    PROVE  Place(t)' /\ Undisturbed(t)
<1>1. /\ Place(t) /\ LocalsFit /\ RM!TypeOK /\ Resident /\ thread[t] \in Thread
      /\ Fit(thread[t], t, userRoom[t], match)
      /\ userRoom \in [User -> RoomName \cup {None}]
    BY CalmFacts
<1>2. CASE Disconnect(t)
    <2>1. /\ rooms' = rooms /\ creating' = creating /\ userRoom' = userRoom
          /\ InRooms(t) = {userRoom[t]} /\ thread'[t].at = "bye.queue"
        BY <1>1, <1>2, Lands DEF Disconnect, Request, At, Place, roomVars
    <2>2. Undisturbed(t) /\ InRooms(t)' = InRooms(t)
        BY <2>1, SameRoomsMove, StillUndisturbs
    <2>. QED BY <2>1, <2>2 DEF Place, CalmLabel, Leaving
<1>3. CASE ByeQueue(t)
    <2>1. /\ rooms' = rooms /\ creating' = creating /\ userRoom' = userRoom
          /\ InRooms(t) = {userRoom[t]}
          /\ thread'[t] = [Rest("bye.leave") EXCEPT !.old = RoomOf(t)]
        BY <1>1, <1>3, Lands DEF ByeQueue, At, Place, roomVars
    <2>2. thread'[t].at = "bye.leave" /\ thread'[t].old = RoomOf(t)
        BY <2>1 DEF Rest
    <2>3. RoomOf(t) = userRoom[t]
        <3>1. userRoom[t] \in InRooms(t)
            BY <2>1
        <3>. QED BY <3>1, RoomTableAssumption DEF RoomOf, InRooms
    <2>4. Undisturbed(t) /\ InRooms(t)' = InRooms(t)
        BY <2>1, SameRoomsMove, StillUndisturbs
    <2>. QED BY <2>1, <2>2, <2>3, <2>4 DEF Place, CalmLabel, Leaving
<1>4. CASE ByeLeave(t)
    <2>1. /\ thread[t].old = userRoom[t] /\ InRooms(t) = {userRoom[t]} /\ thread[t].old \in RoomName
          /\ RM!Leave(thread[t].old, t) /\ userRoom' = userRoom /\ thread'[t].at = "bye.db"
        BY <1>1, <1>4, Lands DEF ByeLeave, At, Place, Fit, NeedsOld
    <2>2. Moves(t, InRooms(t) \ {thread[t].old}) /\ SettingsStay /\ creating' = creating
        BY <1>1, <2>1, LeaveMoves, LeaveEffect
    <2>3. InRooms(t)' = {}
        BY <2>1, <2>2 DEF Moves
    <2>4. Undisturbed(t)
        BY <2>1, <2>2, MoveUndisturbs
    <2>. QED BY <2>1, <2>3, <2>4 DEF Place, CalmLabel, Leaving
<1>5. CASE ByeDb(t)
    <2>1. /\ rooms' = rooms /\ creating' = creating /\ userRoom' = userRoom
          /\ InRooms(t) = {} /\ thread'[t].at = "bye.forget"
        BY <1>1, <1>5, Lands DEF ByeDb, RM!DbRemoveMember, At, Place
    <2>2. Undisturbed(t) /\ InRooms(t)' = InRooms(t)
        BY <2>1, SameRoomsMove, StillUndisturbs
    <2>. QED BY <2>1, <2>2 DEF Place, CalmLabel, Leaving
<1>6. CASE ByeForget(t)
    <2>1. /\ rooms' = rooms /\ creating' = creating
          /\ userRoom' = [userRoom EXCEPT ![t] = None]
          /\ InRooms(t) = {} /\ thread'[t].at = "offline"
        BY <1>1, <1>6, Lands DEF ByeForget, At, Place, roomVars
    <2>2. Undisturbed(t) /\ InRooms(t)' = InRooms(t) /\ userRoom'[t] = None
        BY <1>1, <2>1, SameRoomsMove, StillUndisturbs
    <2>. QED BY <2>1, <2>2 DEF Place, CalmLabel, Leaving
<1>. QED BY <1>2, <1>3, <1>4, <1>5, <1>6

\* What a client asks for begins in the one room it is in.
LEMMA AskPlace ==
    ASSUME CalmInv, NEW t \in User,
           \/ LeaveRoom(t)
           \/ \E r \in RoomName, password \in Password \cup {NoPassword} : JoinRoom(t, r, password)
    PROVE  Place(t)' /\ Undisturbed(t)
<1>1. Place(t) /\ LocalsFit
    BY CalmFacts
<1>2. /\ InRooms(t) = {userRoom[t]} /\ rooms' = rooms /\ creating' = creating
      /\ userRoom' = userRoom
    BY <1>1 DEF LeaveRoom, JoinRoom, Request, At, Place, roomVars
<1>3. RoomOf(t) = userRoom[t]
    <2>1. userRoom[t] \in InRooms(t)
        BY <1>2
    <2>. QED BY <2>1, RoomTableAssumption DEF RoomOf, InRooms
<1>4. Undisturbed(t) /\ InRooms(t)' = InRooms(t)
    BY <1>2, SameRoomsMove, StillUndisturbs
<1>5. CASE LeaveRoom(t)
    <2>1. thread'[t] = [Rest("leave.check") EXCEPT !.who = t, !.old = RoomOf(t), !.then = "home.enter"]
        BY <1>1, <1>5, Lands DEF LeaveRoom, CallLeave
    <2>2. /\ thread'[t].at = "leave.check" /\ thread'[t].who = t /\ thread'[t].old = RoomOf(t)
          /\ thread'[t].then = "home.enter"
        BY <2>1 DEF Rest
    <2>. QED BY <1>2, <1>3, <1>4, <2>2 DEF Place, CalmLabel, Leaving
<1>6. ASSUME NEW r \in RoomName, NEW password \in Password \cup {NoPassword}, JoinRoom(t, r, password)
      PROVE  Place(t)'
    <2>1. thread'[t].at = "join.enter" /\ thread'[t].room = r /\ thread'[t].old = RoomOf(t)
        BY <1>1, <1>6, CallsJoin DEF JoinRoom
    <2>2. InRooms(t)' \ {userRoom'[t]} = {}
        BY <1>2, <1>4
    <2>. QED BY <1>2, <1>3, <1>4, <2>1, <2>2 DEF Place, CalmLabel, Leaving
<1>. QED BY <1>4, <1>5, <1>6

LEMMA CalmInvInit == Init => CalmInv
<1> SUFFICES ASSUME Init PROVE CalmInv
    OBVIOUS
<1>1. \A r \in RoomName : Members(r) = {}
    BY DEF Init, RM!Init, Members
<1>2. \A u \in User : InRooms(u) = {}
    BY <1>1 DEF InRooms
<1>3. \A u \in User : userRoom[u] = None /\ thread[u].at = "offline"
    BY DEF Init, Rest
<1>. QED BY <1>2, <1>3, LastingInvInit DEF CalmInv, Place, CalmLabel, Leaving

LEMMA StepPlaces ==
    ASSUME CalmInv, LastingInv', NEW t \in User, Continue(t) \/ Ask(t), Place(t)', Undisturbed(t)
    PROVE  CalmInv'
<1>1. ASSUME NEW u \in User \ {t} PROVE Place(u)'
    BY OthersStay, OthersKeepPlace, CalmFacts
<1>. QED BY <1>1 DEF CalmInv

LEMMA CalmInvStep ==
    ASSUME Roomy, Calm, CalmInv, [Next]_vars
    PROVE  CalmInv'
<1>1. LastingInv'
    <2>1. Lasting
        BY DEF Calm, Lasting
    <2>. QED BY <2>1, LastingInvStep DEF CalmInv
<1>2. CASE Crash
    BY <1>2 DEF Calm, Crash
<1>3. CASE UNCHANGED vars
    <2>1. \A u \in User : InRooms(u)' = InRooms(u)
        BY <1>3, SameRoomsMove DEF vars, roomVars
    <2>. QED BY <1>1, <1>3, <2>1 DEF vars, roomVars, CalmInv, Place
<1>4. ASSUME NEW t \in User, Continue(t) \/ Ask(t) PROVE CalmInv'
    <2>1. thread[t].at \in CalmLabel
        BY DEF CalmInv, Place
    <2>2. CASE Continue(t)
        <3>1. /\ ~Rejoin(t) /\ ~KickRemove(t) /\ ~KickWhere(t) /\ ~DeleteLocked(t) /\ ~DeleteDb(t)
              /\ ~MatchCreate(t) /\ ~MatchFinish(t) /\ ~MatchInvite(t) /\ ~MatchDbInvite(t)
              /\ ~MatchPrevious(t) /\ ~MatchEnter(t) /\ ~MatchSet(t)
            BY <2>1 DEF CalmLabel, At, Rejoin, KickRemove, KickWhere, DeleteLocked, DeleteDb,
                 MatchCreate, MatchFinish, MatchInvite, MatchDbInvite, MatchPrevious, MatchEnter,
                 MatchSet
        <3>2. Place(t)' /\ Undisturbed(t)
            BY <2>2, <3>1, ConnectPlace, LeavePlace, HomePlace, JoinPlace, CreatePlace,
               InvitePlace, ByePlace DEF Continue
        <3>. QED BY <1>1, <2>2, <3>2, StepPlaces
    <2>3. CASE Ask(t)
        <3>1. /\ ~Reconnect(t) /\ ~Matchmake(t) /\ \A target \in User : ~KickUser(t, target)
              /\ \A r \in ClientRoom \cup PoolRoom : ~DeleteRoom(t, r)
            BY DEF Calm, Reconnect, Matchmake, KickUser, DeleteRoom, Request
        <3>2. Place(t)' /\ Undisturbed(t)
            BY <2>3, <3>1, ConnectPlace, CreatePlace, InvitePlace, ByePlace, AskPlace DEF Ask
        <3>. QED BY <1>1, <2>3, <3>2, StepPlaces
    <2>. QED BY <1>4, <2>2, <2>3
<1>. QED BY <1>2, <1>3, <1>4 DEF Next

LEMMA CalmAlways == ASSUME Roomy, Calm PROVE Spec => []CalmInv
BY CalmInvInit, CalmInvStep, PTL DEF Spec

\* Where rooms have space for everybody and nobody is kicked, matched or reconnected, a
\* client between requests is a member of the room user_rooms names and of no other, however
\* the statements of join_room, leave_room, create_room and unregister_client of different
\* clients interleave (service.py).
THEOREM SettledWhereRoomy == ASSUME Roomy, Calm PROVE Spec => []SettledInOneRoom
<1>1. CalmInv => SettledInOneRoom
    BY DEF CalmInv, Place, SettledInOneRoom, At
<1>. QED BY <1>1, CalmAlways, PTL

\* A row of room_members belongs to a member of the room's object.
LEMMA RowsNameMembers ==
    ASSUME LastingInv, NEW r \in RoomName
    PROVE  rowMembers[r] \subseteq Members(r)
<1>1. /\ RM!PersistedAreMembers /\ Resident
      /\ rows[r] = None => rowMembers[r] = {}
      /\ creating # None => rowMembers[creating.room] = {}
    BY TableFacts DEF LastingInv, ServiceInv
<1>2. CASE rooms[r] # None
    BY <1>1, <1>2 DEF RM!PersistedAreMembers, Members
<1>3. CASE rooms[r] = None
    BY <1>1, <1>3 DEF Resident
<1>. QED BY <1>2, <1>3

\* Under the same conditions unregister_client leaves nothing of a client that went: no
\* membership in memory or in the table, no key of user_rooms and no place in the queue
\* (service.py, matchmaker.py).
THEOREM NoGhostsLeft == ASSUME Roomy, Calm PROVE Spec => []NoGhosts
<1>1. CalmInv /\ QueueIsOfConnected => NoGhosts
    <2> SUFFICES ASSUME CalmInv, QueueIsOfConnected, NEW u \in User, At(u, "offline")
                 PROVE  /\ userRoom[u] = None
                        /\ \A r \in RoomName : u \notin Members(r) \cup rowMembers[r]
        BY DEF NoGhosts
    <2>1. userRoom[u] = None /\ InRooms(u) = {}
        BY DEF CalmInv, Place, At
    <2>2. \A r \in RoomName : u \notin Members(r)
        BY <2>1 DEF InRooms
    <2>. QED BY <2>1, <2>2, RowsNameMembers DEF CalmInv
<1>. QED BY <1>1, CalmAlways, QueueOfConnected, PTL
------------------------------------------------------------------------------
(* Who takes members out of rooms. *)

\* Rooms are the clients', and stay when they are empty; nobody is matched.
OwnersRooms == Lasting /\ "matchmake" \notin Ops /\ ClientRoom \cap MatchRoom = {}

\* The labels of a thread that runs _finish_match.
Matching == {"match.create", "match.finish", "match.invite", "match.dbinvite",
             "match.previous", "match.enter", "match.set"}

\* A client leaves rooms itself; who kicks owns the room; and no match room is there.
Errand(t) ==
    LET l == thread[t] IN
    /\ l.at \notin Matching /\ l.then # "match.enter"
    /\ l.at \in Leaving => l.who = t
    /\ l.at = "kick.remove" => rooms[l.room] # None /\ rooms[l.room].info.owner = t

NoMatchRooms ==
    /\ \A r \in MatchRoom : rooms[r] = None
    /\ creating # None => creating.room \notin MatchRoom

OwnersInv == LastingInv /\ NoMatchRooms /\ \A t \in User : Errand(t)

\* What a step of the rooms leaves as it was.
RoomsStay ==
    \A r \in RoomName : rooms[r] # None => rooms'[r] # None /\ rooms'[r].info = rooms[r].info

LEMMA OwnersFacts ==
    ASSUME OwnersInv, NEW t \in User
    PROVE  /\ LocalsFit /\ RM!TypeOK /\ Resident /\ ServiceInv /\ NoMatchRooms /\ Errand(t)
           /\ Fit(thread[t], t, userRoom[t], match) /\ thread[t] \in Thread
           /\ thread \in [User -> Thread]
BY TableFacts DEF OwnersInv, LastingInv, ServiceInv, LocalsFit

\* Rooms that are not match rooms stay, with their owners.
LEMMA GentleLasts ==
    ASSUME RM!TypeOK, Resident, NoMatchRooms, [Gentle]_(RM!vars)
    PROVE  /\ RoomsStay
           /\ creating' \in {creating, None} => NoMatchRooms'
<1>1. CASE UNCHANGED RM!vars
    BY <1>1 DEF RM!vars, RoomsStay, NoMatchRooms
<1>2. CASE RM!CreateFinish
    <2>1. creating.room \in RoomName /\ creating # None
        BY <1>2, CreateFinishEffect, RoomTableAssumption DEF RM!Creation
    <2>2. \A r \in RoomName : rooms[r] # None => rooms'[r] = rooms[r]
        BY <1>2, <2>1, CreateFinishEffect
    <2>3. \A r \in MatchRoom : rooms'[r] = rooms[r]
        BY <1>2, <2>1, CreateFinishEffect, ServiceAssumption DEF NoMatchRooms
    <2>. QED BY <2>2, <2>3 DEF RoomsStay, NoMatchRooms
<1>3. ASSUME NEW r \in RoomName,
             RM!Lookup(r) \/ \E u \in User, password \in Password \cup {NoPassword} :
                               RM!JoinRefused(r, u, password)
      PROVE  UNCHANGED RM!vars
    BY <1>3, LookupStays DEF RM!JoinRefused
<1>4. ASSUME NEW r \in RoomName, NEW info \in RM!NewInfo, RM!CreateRow(r, info)
      PROVE  RoomsStay /\ (creating' \in {creating, None} => NoMatchRooms')
    BY <1>4, CreateRowEffect DEF RoomsStay, NoMatchRooms
<1>5. ASSUME NEW r \in RoomName, rooms[r] # None, rooms' [r] # None,
             rooms'[r].info = rooms[r].info, \A s \in RoomName \ {r} : rooms'[s] = rooms[s]
      PROVE  RoomsStay /\ (creating' \in {creating, None} => NoMatchRooms')
    BY <1>5, ServiceAssumption DEF RoomsStay, NoMatchRooms
<1>6. ASSUME NEW r \in RoomName, NEW u \in User,
             \/ RM!Leave(r, u) \/ RM!Invite(r, u) \/ RM!Kick(r, u)
             \/ \E password \in Password \cup {NoPassword} : RM!Join(r, u, password)
      PROVE  RoomsStay /\ (creating' \in {creating, None} => NoMatchRooms')
    <2>1. CASE rooms'[r] # None
        <3>1. /\ rooms[r] \in RM!Room
              /\ \/ rooms'[r] = [rooms[r] EXCEPT !.members = @ \ {u}]
                 \/ rooms'[r] = [rooms[r] EXCEPT !.invites = @ \cup {u}]
                 \/ rooms'[r] = [rooms[r] EXCEPT !.members = @ \cup {u}]
              /\ \A s \in RoomName \ {r} : rooms'[s] = rooms[s]
            BY <1>6, <2>1, LeaveEffect, InviteEffect, KickEffect, JoinEffect
        <3>2. rooms'[r].info = rooms[r].info
            BY <3>1 DEF RM!Room
        <3>. QED BY <1>5, <2>1, <3>1, <3>2, RoomTableAssumption
    <2>2. CASE rooms'[r] = None
        <3>1. RM!Leave(r, u)
            <4>1. rooms[r] \in RM!Room =>
                    /\ [rooms[r] EXCEPT !.invites = @ \cup {u}] \in RM!Room
                    /\ [rooms[r] EXCEPT !.members = @ \cup {u}] \in RM!Room
                    /\ [rooms[r] EXCEPT !.members = @ \ {u}] \in RM!Room
                BY DEF RM!Room
            <4>. QED BY <1>6, <2>2, <4>1, InviteEffect, KickEffect, JoinEffect, RoomTableAssumption
        <3>2. rooms[r] = None
            <4>1. SUFFICES ASSUME rooms[r] # None PROVE FALSE
                OBVIOUS
            <4>2. r \notin MatchRoom /\ RM!Unlocked
                BY <3>1, <4>1 DEF NoMatchRooms, RM!Leave
            <4>3. RM!Put(r, [rooms[r] EXCEPT !.members = @ \ {u}])
                BY <3>1, <4>1, <4>2, GetResident DEF RM!Leave
            <4>4. rooms'[r] = [rooms[r] EXCEPT !.members = @ \ {u}] /\ rooms[r] \in RM!Room
                BY <4>1, <4>3 DEF RM!Put, RM!TypeOK
            <4>5. [rooms[r] EXCEPT !.members = @ \ {u}] \in RM!Room
                BY <4>4 DEF RM!Room
            <4>. QED BY <2>2, <4>4, <4>5, RoomTableAssumption
        <3>3. \A s \in RoomName \ {r} : rooms'[s] = rooms[s]
            BY <3>1, LeaveEffect
        <3>. QED BY <2>2, <3>2, <3>3, ServiceAssumption DEF RoomsStay, NoMatchRooms
    <2>. QED BY <2>1, <2>2
<1>7. ASSUME NEW r \in RoomName, NEW u \in User, RM!DbRemoveMember(r, u) \/ RM!DbInvite(r, u)
      PROVE  RoomsStay /\ (creating' \in {creating, None} => NoMatchRooms')
    BY <1>7, TablesOnlyEffect DEF RoomsStay, NoMatchRooms
<1>. QED BY <1>1, <1>2, <1>3, <1>4, <1>6, <1>7 DEF Gentle

\* Nobody is taken out of a room.
NobodyRemoved == \A r \in RoomName : Members(r) \subseteq Members(r)'

LEMMA MethodsKeepMembers ==
    ASSUME RM!TypeOK, Resident,
           \/ RM!CreateFinish \/ UNCHANGED roomVars
           \/ \E r \in RoomName :
                \/ RM!Lookup(r)
                \/ \E info \in RM!NewInfo : RM!CreateRow(r, info)
                \/ \E u \in User :
                     \/ RM!Invite(r, u) \/ RM!DbRemoveMember(r, u) \/ RM!DbInvite(r, u)
                     \/ \E password \in Password \cup {NoPassword} :
                          RM!Join(r, u, password) \/ RM!JoinRefused(r, u, password)
    PROVE  NobodyRemoved
<1>1. CASE UNCHANGED roomVars
    BY <1>1 DEF roomVars, NobodyRemoved, Members
<1>2. CASE RM!CreateFinish
    <2>1. creating.room \in RoomName
        BY <1>2, CreateFinishEffect DEF RM!Creation
    <2>2. \A r \in RoomName : rooms[r] # None => rooms'[r] = rooms[r]
        BY <1>2, <2>1, CreateFinishEffect
    <2>. QED BY <2>2 DEF NobodyRemoved, Members
<1>3. ASSUME NEW r \in RoomName,
             RM!Lookup(r) \/ \E u \in User, password \in Password \cup {NoPassword} :
                               RM!JoinRefused(r, u, password)
      PROVE  rooms' = rooms
    BY <1>3, LookupStays DEF RM!JoinRefused, RM!vars
<1>4. ASSUME NEW r \in RoomName, NEW info \in RM!NewInfo, RM!CreateRow(r, info)
      PROVE  rooms' = rooms
    BY <1>4, CreateRowEffect
<1>5. ASSUME NEW r \in RoomName, NEW u \in User, RM!DbRemoveMember(r, u) \/ RM!DbInvite(r, u)
      PROVE  rooms' = rooms
    BY <1>5, TablesOnlyEffect
<1>6. ASSUME NEW r \in RoomName, NEW u \in User, NEW password \in Password \cup {NoPassword},
             RM!Invite(r, u) \/ RM!Join(r, u, password)
      PROVE  NobodyRemoved
    <2>1. /\ rooms[r] \in RM!Room
          /\ \/ rooms'[r] = [rooms[r] EXCEPT !.invites = @ \cup {u}]
             \/ rooms'[r] = [rooms[r] EXCEPT !.members = @ \cup {u}]
          /\ \A s \in RoomName \ {r} : rooms'[s] = rooms[s]
        BY <1>6, InviteEffect, JoinEffect
    <2>2. rooms'[r] \in RM!Room /\ rooms[r].members \subseteq rooms'[r].members
        BY <2>1 DEF RM!Room
    <2>. QED BY <2>1, <2>2, RoomTableAssumption DEF NobodyRemoved, Members
<1>7. rooms' = rooms => NobodyRemoved
    BY DEF NobodyRemoved, Members
<1>8. ASSUME NEW r \in RoomName, NEW u \in User, RM!Invite(r, u) PROVE NobodyRemoved
    <2>1. NoPassword \in Password \cup {NoPassword}
        OBVIOUS
    <2>. QED BY <1>6, <1>8, <2>1
<1>. QED BY <1>1, <1>2, <1>3, <1>4, <1>5, <1>6, <1>7, <1>8

\* Only leave_room and kick_user take anybody out, and only whom they are called for.
LEMMA WhoIsRemoved ==
    ASSUME OwnersInv, NEW t \in User, Continue(t) \/ Ask(t),
           NEW r \in RoomName, NEW u \in User, u \in Members(r), u \notin Members(r)'
    PROVE  thread'[t] # thread[t] /\ (u = t \/ rooms[r].info.owner = t)
<1>1. /\ LocalsFit /\ RM!TypeOK /\ Resident /\ Errand(t) /\ thread[t] \in Thread
      /\ Fit(thread[t], t, userRoom[t], match)
    BY OwnersFacts
<1>2. ~NobodyRemoved
    BY DEF NobodyRemoved
<1>3. NoPassword \in Password \cup {NoPassword} /\ Global \in RoomName /\ RoomOf(t) \in RoomName
    BY <1>1, ServiceAssumption, RoomOfType
<1>4. /\ ~DeleteLocked(t) /\ ~DeleteDb(t) /\ ~MatchCreate(t) /\ ~MatchFinish(t)
      /\ ~MatchInvite(t) /\ ~MatchDbInvite(t) /\ ~MatchPrevious(t) /\ ~MatchEnter(t) /\ ~MatchSet(t)
    BY <1>1 DEF OwnersInv, LastingInv, NobodyDeletes, DeleteLocked, DeleteDb, Errand, Matching, At,
         MatchCreate, MatchFinish, MatchInvite, MatchDbInvite, MatchPrevious, MatchEnter, MatchSet
<1>5. CASE LeaveLocked(t) \/ ByeLeave(t)
    <2>1. /\ RM!Leave(thread[t].old, t) /\ thread[t].old \in RoomName /\ thread[t] # thread'[t]
        <3>1. CASE LeaveLocked(t)
            BY <1>1, <3>1, Lands DEF LeaveLocked, At, Errand, Leaving, Fit, NeedsOld
        <3>2. CASE ByeLeave(t)
            BY <1>1, <3>2, Lands DEF ByeLeave, At, Fit, NeedsOld
        <3>. QED BY <1>5, <3>1, <3>2
    <2>2. r = thread[t].old
        <3>1. \A s \in RoomName \ {thread[t].old} : rooms'[s] = rooms[s]
            BY <1>1, <2>1, LeaveEffect
        <3>. QED BY <3>1 DEF Members
    <2>3. CASE rooms'[r] = None
        <3>1. rooms[r] = None \/ rooms[r].members \subseteq {t}
            BY <1>1, <2>1, <2>2, <2>3, LeaveEffect
        <3>. QED BY <2>1, <3>1 DEF Members
    <2>4. CASE rooms'[r] # None
        <3>1. rooms[r] \in RM!Room /\ rooms'[r] = [rooms[r] EXCEPT !.members = @ \ {t}]
            BY <1>1, <2>1, <2>2, <2>4, LeaveEffect
        <3>2. rooms'[r].members = rooms[r].members \ {t} /\ rooms[r] # None
            BY <3>1, RoomTableAssumption DEF RM!Room
        <3>. QED BY <2>1, <2>4, <3>2 DEF Members
    <2>. QED BY <2>3, <2>4
<1>6. CASE KickRemove(t)
    <2>1. thread[t].room \in RoomName /\ thread[t].who \in User /\ rooms[thread[t].room].info.owner = t
        BY <1>1, <1>6 DEF KickRemove, At, Errand, Fit, NeedsRoom, NeedsWho
    <2>2. ~RM!Lookup(thread[t].room)
        BY <1>1, <1>2, <2>1, MethodsKeepMembers
    <2>3. RM!Kick(thread[t].room, thread[t].who) /\ thread'[t] # thread[t]
        BY <1>1, <1>6, <2>2, Lands DEF KickRemove, At
    <2>4. r = thread[t].room
        BY <1>1, <2>1, <2>3, KickEffect DEF Members
    <2>. QED BY <2>1, <2>3, <2>4
<1>7. CASE Continue(t) /\ ~LeaveLocked(t) /\ ~ByeLeave(t) /\ ~KickRemove(t)
    <2>1. CASE Register(t) \/ Rejoin(t)
        <3>1. userRoom[t] \in RoomName
            BY <1>1, <2>1 DEF Register, Rejoin, At, Fit
        <3>. QED BY <1>1, <1>2, <1>3, <2>1, <3>1, MethodsKeepMembers DEF Register, Rejoin
    <2>2. CASE LeaveCheck(t) \/ LeaveDb(t)
        <3>1. thread[t].old \in RoomName /\ thread[t].who \in User
            BY <1>1, <2>2 DEF LeaveCheck, LeaveDb, At, Fit, NeedsOld, NeedsWho
        <3>. QED BY <1>1, <1>2, <2>2, <3>1, MethodsKeepMembers DEF LeaveCheck, LeaveDb
    <2>3. CASE HomeEnter(t)
        <3>1. thread[t].who \in User
            BY <1>1, <2>3 DEF HomeEnter, At, Fit, NeedsWho
        <3>. QED BY <1>1, <1>2, <1>3, <2>3, <3>1, MethodsKeepMembers DEF HomeEnter
    <2>4. CASE JoinEnter(t) \/ CreateFinish(t)
        <3>1. /\ JoinEnter(t) => thread[t].room \in RoomName
              /\ thread[t].password \in Password \cup {NoPassword}
            BY <1>1 DEF JoinEnter, At, Fit, NeedsRoom, Thread
        <3>. QED BY <1>1, <1>2, <2>4, <3>1, MethodsKeepMembers DEF JoinEnter, CreateFinish
    <2>5. CASE InviteMemory(t) \/ InviteDb(t)
        <3>1. thread[t].room \in RoomName /\ thread[t].who \in User
            BY <1>1, <2>5 DEF InviteMemory, InviteDb, At, Fit, NeedsRoom, NeedsWho
        <3>. QED BY <1>1, <1>2, <2>5, <3>1, MethodsKeepMembers DEF InviteMemory, InviteDb
    <2>6. CASE ByeDb(t)
        <3>1. thread[t].old \in RoomName
            BY <1>1, <2>6 DEF ByeDb, At, Fit, NeedsOld
        <3>. QED BY <1>1, <1>2, <2>6, <3>1, MethodsKeepMembers DEF ByeDb
    <2>7. CASE \/ LeaveReset(t) \/ HomeSet(t) \/ JoinSet(t) \/ KickWhere(t) \/ ByeQueue(t)
               \/ ByeForget(t)
        BY <1>1, <1>2, <2>7, MethodsKeepMembers
           DEF LeaveReset, HomeSet, JoinSet, KickWhere, ByeQueue, ByeForget
    <2>. QED BY <1>4, <1>7, <2>1, <2>2, <2>3, <2>4, <2>5, <2>6, <2>7 DEF Continue
<1>8. CASE Ask(t)
    <2>1. CASE \/ Login(t) \/ Reconnect(t) \/ LeaveRoom(t) \/ Matchmake(t) \/ Disconnect(t)
               \/ \E s \in RoomName, password \in Password \cup {NoPassword} :
                    JoinRoom(t, s, password)
        BY <1>1, <1>2, <2>1, MethodsKeepMembers
           DEF Login, Reconnect, LeaveRoom, Matchmake, Disconnect, JoinRoom
    <2>2. CASE \E target \in User : InviteUser(t, target) \/ KickUser(t, target)
        BY <1>1, <1>2, <1>3, <2>2, MethodsKeepMembers DEF InviteUser, KickUser
    <2>3. CASE \E s \in ClientRoom \cup PoolRoom : DeleteRoom(t, s)
        BY <1>1, <1>2, <2>3, ServiceAssumption, MethodsKeepMembers DEF DeleteRoom
    <2>4. CASE \E s \in ClientRoom, info \in RM!NewInfo : CreateRoom(t, s, info)
        BY <1>1, <1>2, <2>4, ServiceAssumption, MethodsKeepMembers DEF CreateRoom
    <2>. QED BY <1>8, <2>1, <2>2, <2>3, <2>4 DEF Ask
<1>. QED BY <1>5, <1>6, <1>7, <1>8

\* What create_room is under way for was asked by a client.
LEMMA CreationStep ==
    ASSUME NEW t \in User, Continue(t) \/ Ask(t), ~MatchCreate(t)
    PROVE  creating' \in {creating, None} \/ creating'.room \in ClientRoom
<1>1. \A r, u, password :
        /\ RM!Join(r, u, password) \/ RM!JoinRefused(r, u, password) => creating' = creating
        /\ \/ RM!Lookup(r) \/ RM!Leave(r, u) \/ RM!Invite(r, u) \/ RM!Kick(r, u) \/ RM!Delete(r)
           \/ RM!DbRemoveMember(r, u) \/ RM!DbInvite(r, u) \/ RM!DbDeleteRoom(r)
           => creating' = creating
    BY DEF RM!Join, RM!JoinRefused, RM!Lookup, RM!Leave, RM!Invite, RM!Kick, RM!Delete,
           RM!DbRemoveMember, RM!DbInvite, RM!DbDeleteRoom
<1>2. RM!CreateFinish => creating' = None
    BY DEF RM!CreateFinish
<1>3. UNCHANGED roomVars => creating' = creating
    BY DEF roomVars
<1>4. CASE Continue(t)
    <2>1. CASE \/ Register(t) \/ Rejoin(t) \/ LeaveCheck(t) \/ LeaveLocked(t) \/ LeaveDb(t)
               \/ LeaveReset(t) \/ HomeEnter(t) \/ HomeSet(t) \/ JoinEnter(t) \/ JoinSet(t)
        BY <1>1, <1>3, <2>1 DEF Register, Rejoin, LeaveCheck, LeaveLocked, LeaveDb, LeaveReset,
             HomeEnter, HomeSet, JoinEnter, JoinSet
    <2>2. CASE \/ InviteMemory(t) \/ InviteDb(t) \/ KickRemove(t) \/ KickWhere(t)
               \/ DeleteLocked(t) \/ DeleteDb(t)
               \/ ByeQueue(t) \/ ByeLeave(t) \/ ByeDb(t) \/ ByeForget(t)
        BY <1>1, <1>3, <2>2 DEF InviteMemory, InviteDb, KickRemove, KickWhere, DeleteLocked,
             DeleteDb, ByeQueue, ByeLeave, ByeDb, ByeForget
    <2>3. CASE CreateFinish(t) \/ MatchFinish(t)
        BY <1>2, <2>3 DEF CreateFinish, MatchFinish
    <2>4. CASE \/ MatchInvite(t) \/ MatchDbInvite(t) \/ MatchPrevious(t) \/ MatchEnter(t)
               \/ MatchSet(t)
        BY <1>1, <1>3, <2>4 DEF MatchInvite, MatchDbInvite, MatchPrevious, MatchEnter, MatchSet
    <2>. QED BY <1>4, <2>1, <2>2, <2>3, <2>4 DEF Continue
<1>5. CASE Ask(t)
    <2>1. CASE \/ Login(t) \/ Reconnect(t) \/ LeaveRoom(t) \/ Matchmake(t) \/ Disconnect(t)
               \/ \E r \in RoomName, password \in Password \cup {NoPassword} :
                    JoinRoom(t, r, password)
        BY <1>3, <2>1 DEF Login, Reconnect, LeaveRoom, Matchmake, Disconnect, JoinRoom
    <2>2. CASE \/ \E target \in User : InviteUser(t, target) \/ KickUser(t, target)
               \/ \E r \in ClientRoom \cup PoolRoom : DeleteRoom(t, r)
        BY <1>1, <2>2 DEF InviteUser, KickUser, DeleteRoom
    <2>3. ASSUME NEW r \in ClientRoom, NEW info \in RM!NewInfo, CreateRoom(t, r, info)
          PROVE  creating'.room \in ClientRoom
        BY <2>3 DEF CreateRoom, RM!CreateRow
    <2>. QED BY <1>5, <2>1, <2>2, <2>3 DEF Ask
<1>. QED BY <1>4, <1>5

\* A creation begins with the row only.
LEMMA NewCreation ==
    ASSUME RM!TypeOK, Resident, [Gentle]_(RM!vars), creating' \notin {creating, None}
    PROVE  rooms' = rooms
<1>1. PICK r \in RoomName, info \in RM!NewInfo : RM!CreateRow(r, info)
    BY DEF Gentle, RM!vars, RM!CreateFinish, RM!Join, RM!JoinRefused, RM!Lookup, RM!Leave,
           RM!Invite, RM!Kick, RM!DbRemoveMember, RM!DbInvite
<1>. QED BY <1>1, CreateRowEffect

\* The errand a step sends its thread on.
LEMMA ErrandStep ==
    ASSUME OwnersRooms, OwnersInv, NEW t \in User, Continue(t) \/ Ask(t), RoomsStay
    PROVE  Errand(t)'
<1>1. /\ LocalsFit /\ RM!TypeOK /\ Resident /\ Errand(t) /\ thread[t] \in Thread
      /\ Fit(thread[t], t, userRoom[t], match) /\ thread \in [User -> Thread]
    BY OwnersFacts
<1>2. RoomOf(t) \in RoomName
    BY <1>1, RoomOfType
<1> DEFINE Plain == Label \ (Matching \cup Leaving \cup {"kick.remove"})
<1>3. ASSUME thread'[t].at \in Plain, thread'[t].then # "match.enter" PROVE Errand(t)'
    BY <1>3 DEF Errand
<1>4. ASSUME NEW label, Goto(t, label) PROVE thread'[t].then = thread[t].then
    <2>1. thread'[t] = [thread[t] EXCEPT !.at = label]
        BY <1>1, <1>4, Lands
    <2>. QED BY <1>1, <2>1 DEF Thread
<1>5. ASSUME NEW label \in Plain, Goto(t, label) \/ Become(t, Rest(label)) PROVE Errand(t)'
    <2>1. thread'[t].at = label /\ thread'[t].then # "match.enter"
        BY <1>1, <1>4, <1>5, Lands DEF Errand, Rest
    <2>. QED BY <1>3, <2>1
<1>6. ASSUME NEW label \in {"leave.locked", "leave.db", "leave.reset"}, Goto(t, label),
             thread[t].at \in Leaving
      PROVE  Errand(t)'
    <2>1. thread'[t].at = label /\ thread'[t].who = t /\ thread'[t].then # "match.enter"
        BY <1>1, <1>4, <1>6, Lands DEF Errand, Thread
    <2>. QED BY <2>1 DEF Errand, Matching, Leaving
<1>7. ASSUME Return(t) PROVE Errand(t)'
    <2>1. CASE thread[t].then = "idle"
        BY <1>5, <1>7, <2>1 DEF Return, Finish, Label, Matching, Leaving
    <2>2. CASE thread[t].then = "home.enter"
        <3>1. thread'[t] = [Rest("home.enter") EXCEPT !.who = thread[t].who]
            BY <1>1, <1>7, <2>2, Lands DEF Return
        <3>2. thread'[t].at = "home.enter" /\ thread'[t].then = "idle"
            BY <3>1 DEF Rest
        <3>. QED BY <1>3, <3>2 DEF Label, Matching, Leaving
    <2>. QED BY <1>1, <2>1, <2>2 DEF Thread, Errand
<1>8. ASSUME NEW old, NEW then \in {"idle", "home.enter"}, CallLeave(t, t, old, then)
      PROVE  Errand(t)'
    <2>1. thread'[t] = [Rest("leave.check") EXCEPT !.who = t, !.old = old, !.then = then]
        BY <1>1, <1>8, Lands DEF CallLeave
    <2>2. thread'[t].at = "leave.check" /\ thread'[t].who = t /\ thread'[t].then = then
        BY <2>1 DEF Rest
    <2>. QED BY <2>2 DEF Errand, Matching, Leaving
<1>9. ASSUME NEW r, NEW password, CallJoin(t, r, password) PROVE Errand(t)'
    <2>1. thread'[t] = [Rest("join.enter") EXCEPT !.room = r, !.old = RoomOf(t),
                                                  !.password = password]
        BY <1>1, <1>9, Lands DEF CallJoin
    <2>2. thread'[t].at = "join.enter" /\ thread'[t].then = "idle"
        BY <2>1 DEF Rest
    <2>. QED BY <1>3, <2>2 DEF Label, Matching, Leaving
<1>10. CASE \/ Register(t) \/ Rejoin(t) \/ HomeEnter(t) \/ HomeSet(t) \/ Login(t) \/ Reconnect(t)
            \/ Disconnect(t) \/ ByeLeave(t) \/ ByeDb(t) \/ ByeForget(t)
    BY <1>5, <1>10 DEF Register, Rejoin, HomeEnter, HomeSet, Login, Reconnect, Disconnect,
         ByeLeave, ByeDb, ByeForget, Finish, Label, Matching, Leaving
<1>11. CASE LeaveCheck(t) \/ LeaveLocked(t) \/ LeaveDb(t) \/ LeaveReset(t)
    BY <1>6, <1>7, <1>11 DEF LeaveCheck, LeaveLocked, LeaveDb, LeaveReset, At, Leaving
<1>12. CASE \/ JoinEnter(t) \/ InviteMemory(t) \/ InviteDb(t) \/ KickRemove(t) \/ KickWhere(t)
    BY <1>5, <1>12 DEF JoinEnter, InviteMemory, InviteDb, KickRemove, KickWhere,
         Finish, Label, Matching, Leaving
<1>13. CASE JoinSet(t) \/ CreateFinish(t) \/ LeaveRoom(t)
            \/ \E r \in RoomName, password \in Password \cup {NoPassword} : JoinRoom(t, r, password)
    BY <1>5, <1>8, <1>9, <1>13 DEF JoinSet, CreateFinish, LeaveRoom, JoinRoom,
         Finish, Label, Matching, Leaving
<1>14. CASE ByeQueue(t)
    <2>1. thread'[t] = [Rest("bye.leave") EXCEPT !.old = RoomOf(t)]
        BY <1>1, <1>14, Lands DEF ByeQueue
    <2>2. thread'[t].at = "bye.leave" /\ thread'[t].then = "idle"
        BY <2>1 DEF Rest
    <2>. QED BY <1>3, <2>2 DEF Label, Matching, Leaving
<1>15. ASSUME NEW r \in ClientRoom, NEW info \in RM!NewInfo, CreateRoom(t, r, info)
       PROVE  Errand(t)'
    <2>1. thread'[t] = [Rest("create.finish") EXCEPT !.room = r, !.password = info.password]
        BY <1>1, <1>15, Lands DEF CreateRoom
    <2>2. thread'[t].at = "create.finish" /\ thread'[t].then = "idle"
        BY <2>1 DEF Rest
    <2>. QED BY <1>3, <2>2 DEF Label, Matching, Leaving
<1>16. ASSUME NEW target \in User, InviteUser(t, target) PROVE Errand(t)'
    <2>1. thread'[t] = [Rest("invite.memory") EXCEPT !.room = RoomOf(t), !.who = target]
        BY <1>1, <1>16, Lands DEF InviteUser
    <2>2. thread'[t].at = "invite.memory" /\ thread'[t].then = "idle"
        BY <2>1 DEF Rest
    <2>. QED BY <1>3, <2>2 DEF Label, Matching, Leaving
<1>17. ASSUME NEW target \in User, KickUser(t, target) PROVE Errand(t)'
    <2>1. /\ thread'[t] = [Rest("kick.remove") EXCEPT !.room = RoomOf(t), !.who = target]
          /\ IsOwner(RoomOf(t), t) /\ RM!Lookup(RoomOf(t))
        BY <1>1, <1>17, Lands DEF KickUser
    <2>2. /\ thread'[t].at = "kick.remove" /\ thread'[t].then = "idle"
          /\ thread'[t].room = RoomOf(t)
        BY <2>1 DEF Rest
    <2>3. rooms[RoomOf(t)] # None /\ rooms[RoomOf(t)].info.owner = t
        BY <1>1, <1>2, <2>1, GetResident DEF IsOwner, RM!Lookup
    <2>4. rooms'[RoomOf(t)] # None /\ rooms'[RoomOf(t)].info.owner = t
        BY <1>2, <2>3 DEF RoomsStay
    <2>. QED BY <2>2, <2>4 DEF Errand, Matching, Leaving
<1>18. /\ ~DeleteLocked(t) /\ ~DeleteDb(t) /\ ~MatchCreate(t) /\ ~MatchFinish(t)
       /\ ~MatchInvite(t) /\ ~MatchDbInvite(t) /\ ~MatchPrevious(t) /\ ~MatchEnter(t)
       /\ ~MatchSet(t)
    BY <1>1 DEF OwnersInv, LastingInv, NobodyDeletes, DeleteLocked, DeleteDb, Errand, Matching, At,
         MatchCreate, MatchFinish, MatchInvite, MatchDbInvite, MatchPrevious, MatchEnter, MatchSet
<1>19. ~Matchmake(t) /\ \A r : ~DeleteRoom(t, r)
    BY DEF OwnersRooms, Lasting, Matchmake, DeleteRoom, Request
<1>20. CASE Continue(t)
    BY <1>10, <1>11, <1>12, <1>13, <1>14, <1>18, <1>20 DEF Continue
<1>21. CASE Ask(t)
    BY <1>10, <1>13, <1>15, <1>16, <1>17, <1>19, <1>21 DEF Ask
<1>. QED BY <1>20, <1>21

LEMMA OwnersInvInit == Init => OwnersInv
<1> SUFFICES ASSUME Init PROVE OwnersInv
    OBVIOUS
<1>1. NoMatchRooms
    BY ServiceAssumption DEF Init, RM!Init, NoMatchRooms
<1>2. \A t \in User : Errand(t)
    BY DEF Init, Rest, Errand, Matching, Leaving
<1>. QED BY <1>1, <1>2, LastingInvInit DEF OwnersInv

LEMMA OwnersInvStep ==
    ASSUME OwnersRooms, OwnersInv, [Next]_vars
    PROVE  OwnersInv'
<1>1. LastingInv' /\ [Gentle]_(RM!vars) /\ RM!TypeOK /\ Resident /\ NoMatchRooms
    BY LastingInvStep, GentleStep, TableFacts DEF OwnersRooms, OwnersInv, LastingInv, ServiceInv
<1>2. RoomsStay /\ (creating' \in {creating, None} => NoMatchRooms')
    BY <1>1, GentleLasts
<1>3. CASE Crash
    BY <1>3 DEF OwnersRooms, Lasting, Crash
<1>4. CASE UNCHANGED vars
    BY <1>1, <1>4 DEF vars, roomVars, OwnersInv, NoMatchRooms, Errand
<1>5. ASSUME NEW t \in User, Continue(t) \/ Ask(t) PROVE OwnersInv'
    <2>1. ASSUME NEW u \in User \ {t} PROVE Errand(u)'
        <3>1. thread'[u] = thread[u] /\ Errand(u) /\ Fit(thread[u], u, userRoom[u], match)
            BY <1>5, OthersStay, OwnersFacts
        <3>2. thread[u].at = "kick.remove" => thread[u].room \in RoomName
            BY <3>1 DEF Fit, NeedsRoom
        <3>. QED BY <1>2, <3>1, <3>2 DEF RoomsStay, Errand
    <2>2. Errand(t)'
        BY <1>2, <1>5, ErrandStep
    <2>3. ~MatchCreate(t)
        BY DEF OwnersInv, Errand, Matching, MatchCreate, At
    <2>4. NoMatchRooms'
        <3>1. CASE creating' \in {creating, None}
            BY <1>2, <3>1
        <3>2. CASE creating' \notin {creating, None}
            <4>1. creating'.room \notin MatchRoom
                BY <1>5, <2>3, <3>2, CreationStep DEF OwnersRooms
            <4>2. rooms' = rooms
                BY <1>1, <3>2, NewCreation
            <4>. QED BY <1>1, <4>1, <4>2 DEF NoMatchRooms
        <3>. QED BY <3>1, <3>2
    <2>. QED BY <1>1, <2>1, <2>2, <2>4 DEF OwnersInv
<1>. QED BY <1>3, <1>4, <1>5 DEF Next

\* Where rooms stay and nobody is matched, a member is taken out of a room by a step of its
\* own thread or of the thread of the room's owner, however leave_room and kick_user
\* interleave with everything else (service.py, room_manager.py).
THEOREM OwnersRemove == ASSUME OwnersRooms PROVE Spec => OnlyOwnerRemoves
<1>1. ASSUME OwnersInv, [Next]_vars
      PROVE  [\A r \in RoomName, u \in User :
                u \in Members(r) /\ u \notin Members(r)' =>
                   \/ thread'[u] # thread[u]
                   \/ \E t \in User : thread'[t] # thread[t] /\ rooms[r].info.owner = t]_vars
    <2>1. ASSUME NEW t \in User, Continue(t) \/ Ask(t), NEW r \in RoomName, NEW u \in User,
                 u \in Members(r), u \notin Members(r)'
          PROVE  \/ thread'[u] # thread[u]
                 \/ \E s \in User : thread'[s] # thread[s] /\ rooms[r].info.owner = s
        BY <1>1, <2>1, WhoIsRemoved
    <2>2. ~Crash
        BY DEF OwnersRooms, Lasting, Crash
    <2>. QED BY <1>1, <2>1, <2>2 DEF Next
<1>. QED BY <1>1, OwnersInvInit, OwnersInvStep, PTL DEF Spec, OnlyOwnerRemoves
------------------------------------------------------------------------------
(* The matchmaker. *)

\* Nobody moves but by a match or a disconnection, and a match room holds two.
Pairing == Ops \subseteq {"matchmake", "disconnect", "invite"} /\ MatchCapacity > 1

PairLabel == {"offline", "registering", "leaked", "idle", "invite.memory", "invite.db",
              "leave.check", "leave.locked", "leave.db", "leave.reset",
              "match.create", "match.finish", "match.invite", "match.dbinvite",
              "match.previous", "match.enter", "match.set",
              "bye.queue", "bye.leave", "bye.db", "bye.forget"}

\* Where a client and its thread are, whoever is matched.
Waits(u) ==
    LET l == thread[u] IN
    /\ l.at \in PairLabel
    /\ l.at \in Leaving => l.then = "match.enter"
    /\ l.at = "registering" => userRoom[u] = Global
    /\ match # None /\ l.at = "bye.leave" => l.old # match.room

\* The labels of the first player while the second one's thread matches them.
PlayerWaits == {"idle", "invite.memory", "invite.db", "bye.queue"}

First == match.pair[1]

\* _finish_match: the first player waits at most to be unregistered; the match room has
\* the first player from the start, and the second after its turn.
Stage ==
    LET b == match.by  r == match.room  l == thread[match.by] IN
    /\ match.pair[2] = b /\ First # b
    /\ thread[First].at \in PlayerWaits
    /\ l.at \in Matching \cup Leaving
    /\ l.at \in Leaving => l.who = Player /\ l.old # r
    /\ l.at \in {"match.create", "match.finish"} => match.i = 1
    /\ l.at = "match.finish" => creating = [room |-> r, info |-> MatchInfo]
    /\ l.at \notin {"match.create", "match.finish"} =>
         /\ rooms[r] # None /\ rooms[r].info = MatchInfo
         /\ rooms[r].members = IF l.at = "match.set" /\ match.i = 2 THEN {First, b} ELSE {First}
         /\ \/ l.at = "match.invite" \/ (l.at = "match.dbinvite" /\ match.i = 1)
            \/ b \in rooms[r].invites
    /\ match.i = 2 /\ l.at \notin {"match.invite", "match.dbinvite"} => userRoom[First] = r

MatchStage ==
    /\ creating # None => match # None /\ thread[match.by].at = "match.finish"
    /\ match # None => Stage

PairInv == LastingInv /\ QueueIsOfConnected /\ (\A u \in User : Waits(u)) /\ MatchStage

\* A room that keeps what _finish_match relies on.
SameRoom(r) ==
    rooms[r] # None =>
        /\ rooms'[r] # None /\ rooms'[r].info = rooms[r].info
        /\ rooms'[r].members = rooms[r].members /\ rooms[r].invites \subseteq rooms'[r].invites

\* A step that is none of the match's.
Steady(t) ==
    /\ match' = match /\ creating' = creating
    /\ match # None =>
         /\ t # match.by
         /\ thread'[First].at \in PlayerWaits
         /\ userRoom'[First] = userRoom[First]
         /\ SameRoom(match.room)

LEMMA PairFacts ==
    ASSUME PairInv, NEW t \in User
    PROVE  /\ LocalsFit /\ RM!TypeOK /\ Resident /\ Waits(t) /\ MatchStage
           /\ Fit(thread[t], t, userRoom[t], match) /\ thread[t] \in Thread
           /\ thread \in [User -> Thread] /\ userRoom \in [User -> RoomName \cup {None}]
           /\ match # None => /\ match \in Match /\ match.by \in User /\ First \in User
                              /\ match.room \in RoomName \ {Global} /\ match.room \in MatchRoom
                              /\ match.i \in {1, 2} /\ match.pair[2] \in User
<1>1. LocalsFit /\ RM!TypeOK /\ Resident /\ Waits(t) /\ MatchStage
    BY TableFacts DEF PairInv, LastingInv, ServiceInv
<1>2. /\ Fit(thread[t], t, userRoom[t], match) /\ thread[t] \in Thread
      /\ thread \in [User -> Thread] /\ userRoom \in [User -> RoomName \cup {None}]
      /\ match # None => match \in Match
    BY <1>1 DEF LocalsFit
<1>. QED BY <1>1, <1>2, ServiceAssumption DEF Match, First

\* A room other than the one a method is about, and any room one looks at or invites to.
LEMMA RoomsStayTheSame ==
    ASSUME RM!TypeOK, Resident, NEW r \in RoomName,
           \/ UNCHANGED roomVars
           \/ \E s \in RoomName, u \in User :
                \/ RM!Lookup(s) \/ RM!DbRemoveMember(s, u) \/ RM!DbInvite(s, u) \/ RM!Invite(s, u)
                \/ \E password : RM!JoinRefused(s, u, password)
                \/ s # r /\ RM!Leave(s, u)
                \/ s # r /\ \E password : RM!Join(s, u, password)
    PROVE  SameRoom(r)
<1>1. rooms'[r] = rooms[r] => SameRoom(r)
    BY DEF SameRoom
<1>2. CASE UNCHANGED roomVars
    BY <1>1, <1>2 DEF roomVars
<1>3. ASSUME NEW s \in RoomName, NEW u \in User,
             \/ RM!Lookup(s) \/ \E password : RM!JoinRefused(s, u, password)
      PROVE  rooms'[r] = rooms[r]
    BY <1>3, LookupStays DEF RM!JoinRefused, RM!vars
<1>4. ASSUME NEW s \in RoomName, NEW u \in User, RM!DbRemoveMember(s, u) \/ RM!DbInvite(s, u)
      PROVE  rooms'[r] = rooms[r]
    BY <1>4, TablesOnlyEffect
<1>5. ASSUME NEW s \in RoomName, NEW u \in User, s # r, NEW password,
             RM!Leave(s, u) \/ RM!Join(s, u, password)
      PROVE  rooms'[r] = rooms[r]
    <2>1. CASE RM!Leave(s, u)
        BY <1>5, <2>1, LeaveEffect
    <2>2. CASE RM!Join(s, u, password)
        BY <1>5, <2>2, JoinEffect
    <2>. QED BY <1>5, <2>1, <2>2
<1>6. ASSUME NEW s \in RoomName, NEW u \in User, RM!Invite(s, u) PROVE SameRoom(r)
    <2>1. CASE s # r
        BY <1>1, <1>6, <2>1, InviteEffect
    <2>2. CASE s = r
        <3>1. rooms[r] \in RM!Room /\ rooms'[r] = [rooms[r] EXCEPT !.invites = @ \cup {u}]
            BY <1>6, <2>2, InviteEffect
        <3>2. /\ rooms'[r] \in RM!Room /\ rooms'[r].info = rooms[r].info
              /\ rooms'[r].members = rooms[r].members /\ rooms[r].invites \subseteq rooms'[r].invites
            BY <3>1 DEF RM!Room
        <3>. QED BY <3>2, RoomTableAssumption DEF SameRoom
    <2>. QED BY <2>1, <2>2
<1>. QED BY <1>1, <1>2, <1>3, <1>4, <1>5, <1>6

LEMMA OthersWait ==
    ASSUME NEW u \in User, Waits(u), thread'[u] = thread[u],
           thread[u].at = "registering" => userRoom'[u] = userRoom[u],
           match' # None /\ thread[u].at = "bye.leave" => thread[u].old # match'.room
    PROVE  Waits(u)'
BY DEF Waits

LEMMA StageIsSteady ==
    ASSUME MatchStage, NEW t \in User, Steady(t), match # None => thread'[match.by] = thread[match.by]
    PROVE  MatchStage'
<1>1. CASE match = None
    BY <1>1 DEF MatchStage, Steady
<1>2. CASE match # None
    <2>1. Stage'
        BY <1>2 DEF MatchStage, Steady, SameRoom, Stage, First, Player, MatchInfo
    <2>. QED BY <1>2, <2>1 DEF MatchStage, Steady
<1>. QED BY <1>1, <1>2

\* A step of a thread that does not match.
LEMMA OtherStep ==
    ASSUME Pairing, PairInv, NEW t \in User, Continue(t) \/ Ask(t),
           thread[t].at \notin Matching \cup Leaving, ~Matchmake(t)
    PROVE  Waits(t)' /\ Steady(t)
<1>1. /\ LocalsFit /\ RM!TypeOK /\ Resident /\ Waits(t) /\ MatchStage
      /\ Fit(thread[t], t, userRoom[t], match) /\ thread[t] \in Thread
      /\ userRoom \in [User -> RoomName \cup {None}]
      /\ match # None => /\ match.by \in User /\ First \in User
                         /\ match.room \in RoomName \ {Global}
    BY PairFacts
<1>2. match # None => t # match.by /\ thread[First].at \in PlayerWaits
    BY <1>1 DEF MatchStage, Stage
<1>3. Global \in RoomName /\ RoomOf(t) \in RoomName
    BY <1>1, ServiceAssumption, RoomOfType
<1>4. ASSUME NEW u \in User \ {t} PROVE thread'[u] = thread[u]
    BY <1>1, <1>4, OthersStay
<1>5. ASSUME match' = match, creating' = creating, match # None => SameRoom(match.room),
             t = First /\ match # None => thread'[t].at \in PlayerWaits /\ userRoom'[t] = userRoom[t],
             \A u \in User \ {t} : userRoom'[u] = userRoom[u]
      PROVE  Steady(t)
    BY <1>1, <1>2, <1>4, <1>5 DEF Steady
<1>6. CASE Login(t)
    <2>1. /\ match' = match /\ UNCHANGED roomVars /\ thread[t].at = "offline"
          /\ thread'[t].at = "registering" /\ userRoom' = [userRoom EXCEPT ![t] = Global]
        BY <1>1, <1>6, Lands DEF Login, At
    <2>2. Steady(t)
        BY <1>1, <1>2, <1>5, <2>1, RoomsStayTheSame DEF PlayerWaits, roomVars
    <2>. QED BY <1>1, <2>1, <2>2 DEF Waits, PairLabel, Leaving
<1>7. CASE Register(t)
    <2>1. /\ match' = match /\ userRoom' = userRoom /\ thread[t].at = "registering"
          /\ thread'[t].at \in {"idle", "leaked"} /\ userRoom[t] = Global
          /\ RM!Join(Global, t, NoPassword) \/ RM!JoinRefused(Global, t, NoPassword)
        BY <1>1, <1>7, Lands DEF Register, At, Waits
    <2>2. creating' = creating
        BY <2>1 DEF RM!Join, RM!JoinRefused, RM!Lookup
    <2>3. match # None => SameRoom(match.room)
        BY <1>1, <1>3, <2>1, RoomsStayTheSame
    <2>4. Steady(t)
        BY <1>2, <1>5, <2>1, <2>2, <2>3 DEF PlayerWaits
    <2>. QED BY <2>1, <2>4 DEF Waits, PairLabel, Leaving
<1>8. CASE Disconnect(t)
    <2>1. /\ match' = match /\ UNCHANGED roomVars /\ userRoom' = userRoom
          /\ thread'[t].at = "bye.queue"
        BY <1>1, <1>8, Lands DEF Disconnect
    <2>2. Steady(t)
        BY <1>1, <1>2, <1>5, <2>1, RoomsStayTheSame DEF PlayerWaits, roomVars
    <2>. QED BY <2>1, <2>2 DEF Waits, PairLabel, Leaving
<1>9. CASE ByeQueue(t)
    <2>1. /\ match' = match /\ match = None /\ UNCHANGED roomVars
          /\ thread'[t] = [Rest("bye.leave") EXCEPT !.old = RoomOf(t)]
        BY <1>1, <1>9, Lands DEF ByeQueue
    <2>2. thread'[t].at = "bye.leave"
        BY <2>1 DEF Rest
    <2>. QED BY <2>1, <2>2 DEF Steady, roomVars, Waits, PairLabel, Leaving
<1>10. CASE ByeLeave(t)
    <2>1. /\ match' = match /\ userRoom' = userRoom /\ thread[t].at = "bye.leave"
          /\ thread'[t].at = "bye.db" /\ thread[t].old \in RoomName
          /\ RM!Leave(thread[t].old, t) /\ (match # None => thread[t].old # match.room)
        BY <1>1, <1>10, Lands DEF ByeLeave, At, Waits, Fit, NeedsOld
    <2>2. creating' = creating
        BY <2>1 DEF RM!Leave
    <2>3. match # None => SameRoom(match.room)
        BY <1>1, <2>1, RoomsStayTheSame
    <2>4. Steady(t)
        BY <1>2, <1>5, <2>1, <2>2, <2>3 DEF PlayerWaits
    <2>. QED BY <2>1, <2>4 DEF Waits, PairLabel, Leaving
<1>11. CASE ByeDb(t)
    <2>1. /\ match' = match /\ userRoom' = userRoom /\ thread[t].at = "bye.db"
          /\ thread'[t].at = "bye.forget" /\ thread[t].old \in RoomName
          /\ RM!DbRemoveMember(thread[t].old, t)
        BY <1>1, <1>11, Lands DEF ByeDb, At, Fit, NeedsOld
    <2>2. creating' = creating
        BY <2>1 DEF RM!DbRemoveMember
    <2>3. match # None => SameRoom(match.room)
        BY <1>1, <2>1, RoomsStayTheSame
    <2>4. Steady(t)
        BY <1>2, <1>5, <2>1, <2>2, <2>3 DEF PlayerWaits
    <2>. QED BY <2>1, <2>4 DEF Waits, PairLabel, Leaving
<1>12. CASE ByeForget(t)
    <2>1. /\ match' = match /\ UNCHANGED roomVars /\ thread[t].at = "bye.forget"
          /\ thread'[t].at = "offline" /\ userRoom' = [userRoom EXCEPT ![t] = None]
        BY <1>1, <1>12, Lands DEF ByeForget, At
    <2>2. Steady(t)
        BY <1>1, <1>2, <1>5, <2>1, RoomsStayTheSame DEF PlayerWaits, roomVars
    <2>. QED BY <2>1, <2>2 DEF Waits, PairLabel, Leaving
<1>13. ASSUME NEW target \in User, InviteUser(t, target) PROVE Waits(t)' /\ Steady(t)
    <2>1. /\ match' = match /\ userRoom' = userRoom /\ RM!Lookup(RoomOf(t))
          /\ thread'[t] = [Rest("invite.memory") EXCEPT !.room = RoomOf(t), !.who = target]
        BY <1>1, <1>13, Lands DEF InviteUser
    <2>2. thread'[t].at = "invite.memory"
        BY <2>1 DEF Rest
    <2>3. creating' = creating
        BY <2>1 DEF RM!Lookup
    <2>4. match # None => SameRoom(match.room)
        BY <1>1, <1>3, <2>1, RoomsStayTheSame
    <2>5. Steady(t)
        BY <1>2, <1>5, <2>1, <2>2, <2>3, <2>4 DEF PlayerWaits
    <2>. QED BY <2>2, <2>5 DEF Waits, PairLabel, Leaving
<1>14. CASE InviteMemory(t)
    <2>1. /\ match' = match /\ userRoom' = userRoom /\ thread[t].room \in RoomName
          /\ thread[t].who \in User /\ thread'[t].at \in {"invite.db", "idle"}
          /\ RM!Invite(thread[t].room, thread[t].who) \/ RM!Lookup(thread[t].room)
        BY <1>1, <1>14, Lands DEF InviteMemory, At, Fit, NeedsRoom, NeedsWho
    <2>2. creating' = creating
        BY <2>1 DEF RM!Lookup, RM!Invite
    <2>3. match # None => SameRoom(match.room)
        BY <1>1, <2>1, RoomsStayTheSame
    <2>4. Steady(t)
        BY <1>2, <1>5, <2>1, <2>2, <2>3 DEF PlayerWaits
    <2>. QED BY <2>1, <2>4 DEF Waits, PairLabel, Leaving
<1>15. CASE InviteDb(t)
    <2>1. /\ match' = match /\ userRoom' = userRoom /\ thread[t].room \in RoomName
          /\ thread[t].who \in User /\ thread'[t].at = "idle"
          /\ RM!DbInvite(thread[t].room, thread[t].who) \/ UNCHANGED roomVars
        BY <1>1, <1>15, Lands DEF InviteDb, At, Fit, NeedsRoom, NeedsWho
    <2>2. creating' = creating
        BY <2>1 DEF RM!DbInvite, roomVars
    <2>3. match # None => SameRoom(match.room)
        BY <1>1, <2>1, RoomsStayTheSame
    <2>4. Steady(t)
        BY <1>2, <1>5, <2>1, <2>2, <2>3 DEF PlayerWaits
    <2>. QED BY <2>1, <2>4 DEF Waits, PairLabel, Leaving
<1>16. CASE Continue(t)
    BY <1>1, <1>7, <1>9, <1>10, <1>11, <1>12, <1>14, <1>15, <1>16
       DEF Continue, Waits, PairLabel, Matching, Leaving, At, Register, Rejoin, LeaveCheck,
           LeaveLocked, LeaveDb, LeaveReset, HomeEnter, HomeSet, JoinEnter, JoinSet, CreateFinish,
           KickRemove, KickWhere, DeleteLocked, DeleteDb, MatchCreate, MatchFinish, MatchInvite,
           MatchDbInvite, MatchPrevious, MatchEnter, MatchSet
<1>17. CASE Ask(t)
    <2>1. /\ ~Reconnect(t) /\ ~LeaveRoom(t) /\ \A target \in User : ~KickUser(t, target)
          /\ \A r \in ClientRoom \cup PoolRoom : ~DeleteRoom(t, r)
          /\ \A r \in RoomName, password \in Password \cup {NoPassword} : ~JoinRoom(t, r, password)
          /\ \A r \in ClientRoom, info \in RM!NewInfo : ~CreateRoom(t, r, info)
        BY DEF Pairing, Reconnect, LeaveRoom, KickUser, DeleteRoom, JoinRoom, CreateRoom, Request
    <2>. QED BY <1>6, <1>8, <1>13, <1>17, <2>1 DEF Ask
<1>. QED BY <1>16, <1>17

\* Such a step changes no other client's entry in user_rooms.
LEMMA OtherStaysHome ==
    ASSUME LocalsFit, NEW t \in User, Continue(t) \/ Ask(t), Pairing, Waits(t),
           thread[t].at \notin Matching \cup Leaving
    PROVE  \A u \in User \ {t} : userRoom'[u] = userRoom[u]
<1>1. userRoom \in [User -> RoomName \cup {None}]
    BY DEF LocalsFit
<1>2. CASE Continue(t)
    BY <1>1, <1>2
       DEF Continue, Waits, PairLabel, Matching, Leaving, At, Register, Rejoin, LeaveCheck,
           LeaveLocked, LeaveDb, LeaveReset, HomeEnter, HomeSet, JoinEnter, JoinSet, CreateFinish,
           InviteMemory, InviteDb, KickRemove, KickWhere, DeleteLocked, DeleteDb, MatchCreate,
           MatchFinish, MatchInvite, MatchDbInvite, MatchPrevious, MatchEnter, MatchSet, ByeQueue,
           ByeLeave, ByeDb, ByeForget
<1>3. CASE Ask(t)
    BY <1>1, <1>3 DEF Ask, Login, Reconnect, LeaveRoom, Matchmake, Disconnect, InviteUser,
         KickUser, DeleteRoom, JoinRoom, CreateRoom
<1>. QED BY <1>2, <1>3

\* In the match room there is one player when the next one enters, who was invited.
LEMMA PlayerMayEnter ==
    ASSUME Pairing, PairInv, match # None, thread[match.by].at = "match.enter", RM!Unlocked
    PROVE  RM!MayEnter(match.room, Player, NoPassword)
<1>1. /\ RM!TypeOK /\ Resident /\ Stage /\ match \in Match /\ First \in User
      /\ match.room \in RoomName
    BY PairFacts DEF MatchStage, PairInv, LastingInv, ServiceInv, LocalsFit, Match
<1>2. /\ rooms[match.room] # None /\ rooms[match.room].info = MatchInfo
      /\ rooms[match.room].members = {First} /\ match.by \in rooms[match.room].invites
      /\ match.pair[2] = match.by
    BY <1>1 DEF Stage, Matching, Leaving
<1>3. RM!GetRoom(match.room) = rooms[match.room]
    BY <1>1, GetResident
<1>4. Player \in rooms[match.room].invites \cup {rooms[match.room].info.owner}
    BY <1>1, <1>2 DEF Player, Match, MatchInfo, First
<1>5. RM!Cardinality({First}) = 1 /\ 1 < rooms[match.room].info.capacity
    <2>1. Cardinality({First}) = 1
        BY FS_Singleton
    <2>. QED BY <1>2, <2>1 DEF RM!Cardinality, Cardinality, Pairing, MatchInfo
<1>6. rooms[match.room].info.password = NoPassword
    BY <1>2 DEF MatchInfo
<1>7. RM!Cardinality(rooms[match.room].members) < rooms[match.room].info.capacity
    BY <1>2, <1>5
<1>. QED BY <1>2, <1>3, <1>4, <1>6, <1>7 DEF RM!MayEnter

\* What a step of the match leads to.
Onward ==
    /\ MatchStage'
    /\ match' # None => match'.room = match.room
    /\ \A u \in User : userRoom'[u] = userRoom[u] \/ u = First \/ u = match.by
    /\ match' = None => \A u \in {First, match.by} :
                          u \in Members(match.room) /\ userRoom'[u] = match.room

LEMMA MatchStep ==
    ASSUME Pairing, PairInv, NEW t \in User, Continue(t), thread[t].at \in Matching \cup Leaving
    PROVE  match # None /\ t = match.by /\ Waits(t)' /\ Onward
<1>1. /\ LocalsFit /\ RM!TypeOK /\ Resident /\ Waits(t) /\ MatchStage
      /\ Fit(thread[t], t, userRoom[t], match) /\ thread[t] \in Thread
      /\ userRoom \in [User -> RoomName \cup {None}]
    BY PairFacts
<1>2. match # None /\ t = match.by
    BY <1>1 DEF Fit, InMatch, Waits, Matching
<1>3. /\ Stage /\ match \in Match /\ First \in User
      /\ match.room \in RoomName \ {Global} /\ match.i \in {1, 2}
      /\ t # First /\ thread'[First] = thread[First] /\ thread[First].at \in PlayerWaits
      /\ match.pair[2] = t
    <2>1. Stage /\ match \in Match /\ First \in User /\ match.room \in RoomName \ {Global}
          /\ match.i \in {1, 2}
        BY <1>1, <1>2, PairFacts DEF MatchStage
    <2>2. t # First /\ thread[First].at \in PlayerWaits /\ match.pair[2] = t
        BY <1>2, <2>1 DEF Stage
    <2>. QED BY <1>1, <2>1, <2>2, OthersStay
<1>4. creating # None => thread[t].at = "match.finish"
    BY <1>1, <1>2 DEF MatchStage
<1>5. Player \in User /\ (match.i = 1 => Player = First) /\ (match.i = 2 => Player = t)
    BY <1>3 DEF Player, First, Match
<1>6. MatchInfo \in RM!NewInfo /\ MatchInfo.owner = First
    BY <1>3, ServiceAssumption DEF MatchInfo, RM!NewInfo, RM!Info, First
<1>7. ASSUME match' = match, creating' = None, UNCHANGED userRoom, SameRoom(match.room),
             thread[t].at \notin {"match.create", "match.finish", "match.set"},
             thread'[t].at \in {"match.enter"} \cup Leaving,
             thread[t].at \in {"match.invite", "match.dbinvite"} => FALSE,
             thread'[t].at \in Leaving =>
               thread'[t].who = Player /\ thread'[t].old # match.room
      PROVE  Onward
    <2>1. Stage'
        BY <1>2, <1>3, <1>5, <1>7 DEF Stage, First, Player, SameRoom, MatchInfo, Matching, Leaving
    <2>. QED BY <1>2, <1>7, <2>1 DEF Onward, MatchStage
<1>8. CASE MatchCreate(t)
    <2>1. /\ thread[t].at = "match.create" /\ thread'[t].at = "match.finish" /\ match' = match
          /\ userRoom' = userRoom /\ creating' = [room |-> match.room, info |-> MatchInfo]
        BY <1>1, <1>8, Lands DEF MatchCreate, At, RM!CreateRow
    <2>2. Stage'
        BY <1>2, <1>3, <2>1 DEF Stage, First, Player, MatchInfo, Matching, Leaving
    <2>. QED BY <1>2, <2>1, <2>2 DEF Onward, MatchStage, Waits, PairLabel, Leaving
<1>9. CASE MatchFinish(t)
    <2>1. /\ thread[t].at = "match.finish" /\ thread'[t].at = "match.invite" /\ match' = match
          /\ userRoom' = userRoom /\ creating' = None /\ RM!CreateFinish
        BY <1>1, <1>9, Lands DEF MatchFinish, At, RM!CreateFinish
    <2>2. creating.room = match.room /\ creating.info = MatchInfo /\ match.i = 1
        BY <1>2, <1>3, <2>1 DEF Stage
    <2>3. rooms'[match.room] = [info |-> MatchInfo, members |-> {First}, invites |-> {}]
        BY <1>1, <1>6, <2>1, <2>2, CreateFinishEffect
    <2>4. [info |-> MatchInfo, members |-> {First}, invites |-> {}] \in RM!Room
        BY <1>3, <1>6 DEF RM!Room, RM!NewInfo
    <2>5. /\ rooms'[match.room] # None /\ rooms'[match.room].info = MatchInfo
          /\ rooms'[match.room].members = {First}
        BY <2>3, <2>4, RoomTableAssumption
    <2>6. Stage'
        BY <1>2, <1>3, <2>1, <2>2, <2>5 DEF Stage, First, Player, MatchInfo, Matching, Leaving
    <2>. QED BY <1>2, <2>1, <2>6 DEF Onward, MatchStage, Waits, PairLabel, Leaving
<1>10. CASE MatchInvite(t)
    <2>1. /\ thread[t].at = "match.invite" /\ thread'[t].at = "match.dbinvite" /\ match' = match
          /\ userRoom' = userRoom /\ RM!Invite(match.room, Player)
        BY <1>1, <1>10, Lands DEF MatchInvite, At
    <2>2. /\ rooms[match.room] \in RM!Room /\ creating' = creating
          /\ rooms'[match.room] = [rooms[match.room] EXCEPT !.invites = @ \cup {Player}]
        BY <1>1, <1>3, <1>5, <2>1, InviteEffect
    <2>3. /\ rooms'[match.room] \in RM!Room /\ rooms'[match.room].info = rooms[match.room].info
          /\ rooms'[match.room].members = rooms[match.room].members
          /\ Player \in rooms'[match.room].invites
        BY <1>5, <2>2 DEF RM!Room
    <2>4. rooms'[match.room] # None
        BY <2>3, RoomTableAssumption
    <2>5. Stage'
        BY <1>2, <1>3, <1>5, <2>1, <2>3, <2>4 DEF Stage, First, Player, MatchInfo, Matching, Leaving
    <2>. QED BY <1>2, <1>4, <2>1, <2>2, <2>5 DEF Onward, MatchStage, Waits, PairLabel, Leaving
<1>11. CASE MatchDbInvite(t)
    <2>1. /\ thread[t].at = "match.dbinvite" /\ match' = [match EXCEPT !.i = 3 - @]
          /\ thread'[t].at = IF match.i = 1 THEN "match.invite" ELSE "match.previous"
          /\ userRoom' = userRoom /\ rooms' = rooms /\ creating' = creating
        BY <1>1, <1>11, Lands DEF MatchDbInvite, At, RM!DbInvite
    <2>2. /\ match' # None /\ match'.by = t /\ match'.pair = match.pair
          /\ match'.room = match.room /\ match'.i = 3 - match.i
        <3>1. [match EXCEPT !.i = 3 - @] \in Match
            BY <1>3 DEF Match
        <3>. QED BY <1>2, <1>3, <2>1, <3>1, NoMatchAssumption DEF Match
    <2>3. CASE match.i = 1
        <3>1. thread'[t].at = "match.invite" /\ match'.i = 2
            BY <2>1, <2>2, <2>3
        <3>2. /\ rooms[match.room] # None /\ rooms[match.room].info = MatchInfo
              /\ rooms[match.room].members = {First}
            BY <1>2, <1>3, <2>1, <2>3 DEF Stage
        <3>3. /\ match'.by = t /\ match'.pair = match.pair /\ match'.room = match.room
              /\ rooms' = rooms
            BY <2>1, <2>2
        <3>4. First' = First /\ MatchInfo' = MatchInfo
            BY <3>3 DEF First, MatchInfo
        <3>5. Stage'
            BY <1>3, <3>1, <3>2, <3>3, <3>4 DEF Stage, Matching, Leaving
        <3>. QED BY <1>2, <1>4, <2>1, <2>2, <3>1, <3>5 DEF Onward, MatchStage, Waits, PairLabel, Leaving
    <2>4. CASE match.i = 2
        <3>1. thread'[t].at = "match.previous" /\ match'.i = 1
            BY <2>1, <2>2, <2>4
        <3>2. /\ rooms[match.room] # None /\ rooms[match.room].info = MatchInfo
              /\ rooms[match.room].members = {First} /\ t \in rooms[match.room].invites
            BY <1>2, <1>3, <2>1, <2>4 DEF Stage
        <3>3. Stage'
            BY <1>2, <1>3, <2>1, <2>2, <3>1, <3>2 DEF Stage, First, MatchInfo, Matching, Leaving
        <3>. QED BY <1>2, <1>4, <2>1, <2>2, <3>1, <3>3 DEF Onward, MatchStage, Waits, PairLabel, Leaving
    <2>. QED BY <1>3, <2>3, <2>4
<1>12. CASE MatchPrevious(t)
    <2>1. /\ thread[t].at = "match.previous" /\ match' = match /\ UNCHANGED roomVars
          /\ userRoom' = userRoom
        BY <1>12 DEF MatchPrevious, At
    <2>2. \/ thread'[t].at = "match.enter"
          \/ /\ thread'[t].at = "leave.check" /\ thread'[t].then = "match.enter"
             /\ thread'[t].who = Player /\ thread'[t].old # match.room
        <3>1. \/ thread'[t].at = "match.enter"
              \/ /\ RoomOf(Player) # match.room
                 /\ thread'[t] = [Rest("leave.check") EXCEPT !.who = Player,
                                    !.old = RoomOf(Player), !.then = "match.enter"]
            BY <1>1, <1>12, Lands DEF MatchPrevious, CallLeave
        <3>. QED BY <3>1 DEF Rest
    <2>3. creating' = None /\ SameRoom(match.room)
        BY <1>1, <1>3, <1>4, <2>1, RoomsStayTheSame DEF roomVars
    <2>4. Onward
        BY <1>7, <2>1, <2>2, <2>3 DEF Leaving
    <2>. QED BY <1>2, <2>1, <2>2, <2>4 DEF Waits, PairLabel, Leaving
<1>13. ASSUME Return(t), thread[t].at \in Leaving
       PROVE  thread'[t].at = "match.enter"
    <2>1. thread'[t] = [Rest("match.enter") EXCEPT !.who = thread[t].who]
        BY <1>1, <1>13, Lands DEF Return, Waits
    <2>. QED BY <2>1 DEF Rest
<1>14. ASSUME NEW label \in Leaving, Goto(t, label), thread[t].at \in Leaving
       PROVE  /\ thread'[t].at = label /\ thread'[t].then = "match.enter"
              /\ thread'[t].who = Player /\ thread'[t].old # match.room
    <2>1. thread'[t] = [thread[t] EXCEPT !.at = label]
        BY <1>1, <1>14, Lands
    <2>2. /\ thread[t].then = "match.enter" /\ thread[t].who = Player
          /\ thread[t].old # match.room
        BY <1>1, <1>2, <1>3, <1>14 DEF Waits, Stage
    <2>. QED BY <1>1, <2>1, <2>2 DEF Thread
<1>15. CASE LeaveCheck(t) \/ LeaveLocked(t) \/ LeaveDb(t)
    <2>1. /\ thread[t].at \in Leaving /\ match' = match /\ userRoom' = userRoom
          /\ thread[t].old \in RoomName \ {match.room} /\ thread[t].who \in User
          /\ \/ RM!Lookup(thread[t].old) \/ RM!Leave(thread[t].old, thread[t].who)
             \/ RM!DbRemoveMember(thread[t].old, thread[t].who)
        BY <1>1, <1>2, <1>3, <1>15 DEF LeaveCheck, LeaveLocked, LeaveDb, At, Leaving, Stage,
             Fit, NeedsOld, NeedsWho
    <2>2. \/ thread'[t].at = "match.enter"
          \/ /\ thread'[t].at \in Leaving /\ thread'[t].then = "match.enter"
             /\ thread'[t].who = Player /\ thread'[t].old # match.room
        BY <1>13, <1>14, <1>15, <2>1 DEF LeaveCheck, LeaveLocked, LeaveDb, Leaving
    <2>3. creating' = None
        BY <1>4, <2>1 DEF RM!Lookup, RM!Leave, RM!DbRemoveMember, Leaving
    <2>4. SameRoom(match.room)
        BY <1>1, <1>3, <2>1, RoomsStayTheSame
    <2>5. Onward
        BY <1>7, <2>1, <2>2, <2>3, <2>4 DEF Leaving
    <2>. QED BY <1>2, <2>1, <2>2, <2>5 DEF Waits, PairLabel, Leaving
<1>16. CASE LeaveReset(t)
    <2>1. /\ thread[t].at = "leave.reset" /\ match' = match /\ UNCHANGED roomVars
          /\ thread[t].who = Player /\ thread'[t].at = "match.enter"
          /\ \A u \in User \ {Player} : userRoom'[u] = userRoom[u]
        BY <1>1, <1>2, <1>3, <1>13, <1>16 DEF LeaveReset, At, Leaving, Stage
    <2>2. rooms' = rooms /\ creating' = None
        BY <1>4, <2>1 DEF roomVars
    <2>3. Stage'
        BY <1>2, <1>3, <1>5, <2>1, <2>2 DEF Stage, First, Player, MatchInfo, Matching, Leaving
    <2>4. \A u \in User : userRoom'[u] = userRoom[u] \/ u = First \/ u = match.by
        BY <1>2, <1>3, <1>5, <2>1
    <2>. QED BY <1>2, <2>1, <2>2, <2>3, <2>4 DEF Onward, MatchStage, Waits, PairLabel, Leaving
<1>17. CASE MatchEnter(t)
    <2>1. thread[t].at = "match.enter" /\ ~RM!JoinRefused(match.room, Player, NoPassword)
        BY <1>2, <1>17, PlayerMayEnter DEF MatchEnter, At, RM!JoinRefused, RM!Lookup
    <2>2. /\ thread'[t].at = "match.set" /\ match' = match /\ userRoom' = userRoom
          /\ RM!Join(match.room, Player, NoPassword)
        BY <1>1, <1>17, <2>1, Lands DEF MatchEnter
    <2>3. /\ rooms[match.room] \in RM!Room /\ creating' = creating
          /\ rooms'[match.room] = [rooms[match.room] EXCEPT !.members = @ \cup {Player}]
        BY <1>1, <1>3, <1>5, <2>2, JoinEffect
    <2>4. /\ rooms'[match.room] \in RM!Room /\ rooms'[match.room].info = rooms[match.room].info
          /\ rooms'[match.room].members = rooms[match.room].members \cup {Player}
          /\ rooms'[match.room].invites = rooms[match.room].invites
        BY <1>5, <2>3 DEF RM!Room
    <2>5. rooms'[match.room] # None
        BY <2>4, RoomTableAssumption
    <2>6. rooms[match.room].members = {First}
        BY <1>2, <1>3, <2>1 DEF Stage
    <2>7. rooms'[match.room].members = IF match.i = 2 THEN {First, t} ELSE {First}
        BY <1>3, <1>5, <2>4, <2>6
    <2>8. Stage'
        BY <1>2, <1>3, <2>1, <2>2, <2>4, <2>5, <2>7
           DEF Stage, First, Player, MatchInfo, Matching, Leaving
    <2>. QED BY <1>2, <1>4, <2>1, <2>2, <2>3, <2>8 DEF Onward, MatchStage, Waits, PairLabel, Leaving
<1>18. CASE MatchSet(t)
    <2>1. /\ thread[t].at = "match.set" /\ UNCHANGED roomVars /\ NextPlayer(t)
          /\ userRoom' = [userRoom EXCEPT ![Player] = match.room]
        BY <1>18 DEF MatchSet, At
    <2>2. /\ rooms' = rooms /\ creating' = None /\ userRoom'[Player] = match.room
          /\ \A u \in User \ {Player} : userRoom'[u] = userRoom[u]
        BY <1>1, <1>4, <1>5, <2>1 DEF roomVars
    <2>3. CASE match.i = 1
        <3>1. match' = [match EXCEPT !.i = 2] /\ thread'[t].at = "match.previous"
            BY <1>1, <2>1, <2>3, Lands DEF NextPlayer
        <3>2. /\ match' # None /\ match'.by = t /\ match'.pair = match.pair
              /\ match'.room = match.room /\ match'.i = 2
            <4>1. [match EXCEPT !.i = 2] \in Match
                BY <1>3 DEF Match
            <4>. QED BY <1>2, <1>3, <3>1, <4>1, NoMatchAssumption DEF Match
        <3>3. Stage'
            BY <1>2, <1>3, <1>5, <2>1, <2>2, <2>3, <3>1, <3>2
               DEF Stage, First, Player, MatchInfo, Matching, Leaving
        <3>. QED BY <1>2, <1>5, <2>2, <2>3, <3>1, <3>2, <3>3
                 DEF Onward, MatchStage, Waits, PairLabel, Leaving
    <2>4. CASE match.i = 2
        <3>1. match' = None /\ thread'[t].at = "idle"
            BY <1>1, <2>1, <2>4, Lands DEF NextPlayer
        <3>2. /\ rooms[match.room] # None /\ rooms[match.room].members = {First, t}
              /\ userRoom[First] = match.room
            BY <1>2, <1>3, <2>1, <2>4 DEF Stage
        <3>. QED BY <1>2, <1>3, <1>5, <2>2, <2>4, <3>1, <3>2
                 DEF Onward, MatchStage, Waits, PairLabel, Leaving, Members
    <2>. QED BY <1>3, <2>3, <2>4
<1>. QED
    BY <1>2, <1>8, <1>9, <1>10, <1>11, <1>12, <1>15, <1>16, <1>17, <1>18
       DEF Continue, Matching, Leaving, At, Register, Rejoin, HomeEnter, HomeSet, JoinEnter, JoinSet,
           CreateFinish, InviteMemory, InviteDb, KickRemove, KickWhere, DeleteLocked, DeleteDb,
           ByeQueue, ByeLeave, ByeDb, ByeForget

\* A match begins with a player who waits in the queue and a name nobody has.
LEMMA MatchBegins ==
    ASSUME PairInv, NEW t \in User, Matchmake(t)
    PROVE  (\A u \in User : Waits(u)') /\ MatchStage'
<1>1. /\ LocalsFit /\ MatchStage /\ queue \in Seq(User) /\ \A u \in User : Waits(u)
      /\ match = None /\ creating = None /\ UNCHANGED roomVars /\ userRoom' = userRoom
      /\ thread[t].at = "idle" /\ t \notin Range(queue)
    BY PairFacts DEF Matchmake, Request, At, MatchStage, LocalsFit, PairInv
<1>2. CASE queue = <<>>
    <2>1. match' = match /\ thread' = thread
        BY <1>2 DEF Matchmake
    <2>. QED BY <1>1, <2>1 DEF roomVars, Waits, MatchStage
<1>3. CASE queue # <<>>
    <2>1. PICK r \in PoolRoom :
            /\ Fresh(r)
            /\ match' = [by |-> t, pair |-> <<Head(queue), t>>, room |-> r, i |-> 1]
        BY <1>3 DEF Matchmake
    <2>2. /\ thread'[t].at = "match.create" /\ thread'[t].then = thread[t].then
          /\ \A u \in User \ {t} : thread'[u] = thread[u]
        <3>1. Goto(t, "match.create")
            BY <1>3 DEF Matchmake
        <3>2. thread'[t] = [thread[t] EXCEPT !.at = "match.create"] /\ thread[t] \in Thread
            BY <1>1, <3>1, Lands, PairFacts
        <3>. QED BY <1>1, <3>1, <3>2 DEF Goto, LocalsFit, Thread
    <2>3. Head(queue) \in Range(queue) /\ Head(queue) \in User
        <3>1. Head(queue) = queue[1] /\ 1 \in DOMAIN queue
            BY <1>1, <1>3, EmptySeq
        <3>. QED BY <1>1, <3>1 DEF Range
    <2>4. thread[Head(queue)].at \notin Away
        BY <2>3 DEF PairInv, QueueIsOfConnected, Away
    <2>5. thread[Head(queue)].at \in PlayerWaits
        <3>1. Fit(thread[Head(queue)], Head(queue), userRoom[Head(queue)], match)
              /\ Waits(Head(queue))
            BY <2>3, PairFacts
        <3>. QED BY <1>1, <2>4, <3>1
                 DEF Fit, InMatch, Waits, PairLabel, PlayerWaits, Away, Leaving
    <2>6. \A u \in User : thread[u].old # r
        BY <2>1 DEF Fresh
    <2>7. ASSUME NEW u \in User PROVE Waits(u)'
        <3>1. CASE u = t
            BY <2>2, <3>1 DEF Waits, PairLabel, Leaving
        <3>2. CASE u # t
            <4>1. Waits(u) /\ thread'[u] = thread[u]
                BY <1>1, <2>2, <3>2
            <4>. QED BY <1>1, <2>1, <2>6, <4>1, OthersWait
        <3>. QED BY <3>1, <3>2
    <2>8. /\ match'.by = t /\ match'.pair[1] = Head(queue) /\ match'.pair[2] = t
          /\ match'.room = r /\ match'.i = 1
        BY <2>1
    <2>9. Stage'
        BY <1>1, <2>2, <2>3, <2>5, <2>8 DEF Stage, First, Matching, Leaving
    <2>10. creating' = None
        BY <1>1 DEF roomVars
    <2>. QED BY <2>7, <2>9, <2>10 DEF MatchStage
<1>. QED BY <1>2, <1>3

LEMMA PairInvInit == Init => PairInv
<1> SUFFICES ASSUME Init PROVE PairInv
    OBVIOUS
<1>1. QueueIsOfConnected
    BY DEF Init, QueueIsOfConnected, Range
<1>2. \A u \in User : Waits(u)
    BY DEF Init, Rest, Waits, PairLabel, Leaving
<1>3. MatchStage
    BY DEF Init, RM!Init, MatchStage
<1>. QED BY <1>1, <1>2, <1>3, LastingInvInit DEF PairInv

LEMMA PairInvStep ==
    ASSUME Pairing, PairInv, [Next]_vars
    PROVE  /\ PairInv'
           /\ match # None /\ match' = None =>
                \A u \in {First, match.by} : u \in Members(match.room) /\ userRoom'[u] = match.room
<1>1. LastingInv' /\ QueueIsOfConnected'
    <2>1. Lasting
        BY DEF Pairing, Lasting
    <2>. QED BY <2>1, LastingInvStep, QueueStep DEF PairInv, LastingInv, ServiceInv
<1>2. CASE Crash
    BY <1>2 DEF Pairing, Crash
<1>3. CASE UNCHANGED vars
    <2>1. /\ rooms' = rooms /\ creating' = creating /\ thread' = thread /\ match' = match
          /\ userRoom' = userRoom
        BY <1>3 DEF vars, roomVars
    <2>2. \A u \in User : Waits(u)'
        BY <2>1 DEF PairInv, Waits
    <2>3. MatchStage'
        <3>1. Stage <=> Stage'
            BY <2>1 DEF Stage, First, Player, MatchInfo
        <3>. QED BY <2>1, <3>1 DEF PairInv, MatchStage
    <2>. QED BY <1>1, <2>1, <2>2, <2>3 DEF PairInv
<1>4. ASSUME NEW t \in User, Continue(t) \/ Ask(t)
      PROVE  /\ (\A u \in User : Waits(u)') /\ MatchStage'
             /\ match # None /\ match' = None =>
                  \A u \in {First, match.by} :
                     u \in Members(match.room) /\ userRoom'[u] = match.room
    <2>1. LocalsFit /\ MatchStage /\ \A u \in User : Waits(u)
        BY PairFacts, <1>4 DEF PairInv
    <2>2. \A u \in User \ {t} : thread'[u] = thread[u]
        BY <1>4, <2>1, OthersStay
    <2>3. CASE Matchmake(t)
        BY <2>3, MatchBegins DEF Matchmake
    <2>4. CASE ~Matchmake(t) /\ thread[t].at \notin Matching \cup Leaving
        <3>1. Waits(t)' /\ Steady(t)
            BY <1>4, <2>4, OtherStep
        <3>2. \A u \in User \ {t} : userRoom'[u] = userRoom[u]
            BY <1>4, <2>1, <2>4, OtherStaysHome
        <3>3. ASSUME NEW u \in User \ {t} PROVE Waits(u)'
            BY <2>1, <2>2, <3>1, <3>2, OthersWait DEF Steady, Waits
        <3>4. MatchStage'
            BY <2>1, <2>2, <3>1, StageIsSteady, PairFacts DEF Steady
        <3>. QED BY <3>1, <3>3, <3>4 DEF Steady
    <2>5. CASE thread[t].at \in Matching \cup Leaving
        <3>1. Continue(t)
            BY <1>4, <2>5 DEF Ask, Login, Reconnect, LeaveRoom, Matchmake, Disconnect, InviteUser,
                 KickUser, DeleteRoom, JoinRoom, CreateRoom, Request, At, Matching, Leaving
        <3>2. match # None /\ t = match.by /\ Waits(t)' /\ Onward
            BY <2>5, <3>1, MatchStep
        <3>3. thread[First].at \in PlayerWaits
            BY <2>1, <3>2 DEF MatchStage, Stage
        <3>4. ASSUME NEW u \in User \ {t} PROVE Waits(u)'
            <4>1. Waits(u) /\ thread'[u] = thread[u]
                BY <2>1, <2>2
            <4>2. thread[u].at = "registering" => userRoom'[u] = userRoom[u]
                BY <3>2, <3>3 DEF Onward, PlayerWaits
            <4>3. match' # None /\ thread[u].at = "bye.leave" => thread[u].old # match'.room
                BY <3>2, <4>1 DEF Onward, Waits
            <4>. QED BY <4>1, <4>2, <4>3, OthersWait
        <3>. QED BY <3>2, <3>4 DEF Onward
    <2>. QED BY <2>3, <2>4, <2>5
<1>5. CASE \E t \in User : Continue(t) \/ Ask(t)
    BY <1>1, <1>4, <1>5 DEF PairInv
<1>. QED BY <1>2, <1>3, <1>5 DEF Next

\* Where clients do nothing but ask for a match, invite and disconnect, _finish_match ends
\* with both players in the match room and user_rooms saying so, though it releases the
\* room manager's lock between its steps and the first player may be going (matchmaker.py).
THEOREM MatchesEndTogether == ASSUME Pairing PROVE Spec => MatchEndsTogether
<1>1. ASSUME PairInv, [Next]_vars
      PROVE  [match # None /\ match' = None =>
                \A u \in Range(match.pair) :
                   u \in Members(match.room) /\ userRoom'[u] = match.room]_vars
    <2>1. match # None => Range(match.pair) = {First, match.by}
        <3>1. ASSUME match # None PROVE match \in Match /\ match.pair[2] = match.by
            BY <1>1, <3>1 DEF PairInv, LastingInv, ServiceInv, LocalsFit, MatchStage, Stage
        <3>2. ASSUME match # None PROVE DOMAIN match.pair = {1, 2}
            BY <3>1, <3>2 DEF Match
        <3>. QED BY <3>1, <3>2 DEF Range, First
    <2>. QED BY <1>1, <2>1, PairInvStep
<1>. QED BY <1>1, PairInvInit, PairInvStep, PTL DEF Spec, MatchEndsTogether
------------------------------------------------------------------------------
(* Who is where, when clients are moved by matches. *)

Inviting == {"match.invite", "match.dbinvite"}
BeforeLeave == {"match.previous", "leave.check", "leave.locked"}
AfterLeave == {"leave.db", "leave.reset", "match.enter"}

Plays(u) == match # None /\ u \in {First, match.by}

\* A client that is not being matched is in the room of user_rooms from the end of
\* register_client to unregister_client, and in no other.  A client whom a full global room
\* refuses has no thread, and is neither between requests nor gone.
Stays(u) ==
    LET l == thread[u]  here == InRooms(u)  home == userRoom[u] IN
    /\ l.at = "offline" => here = {} /\ home = None
    /\ l.at = "registering" => here = {} /\ home = Global
    /\ l.at \in PlayerWaits /\ ~Plays(u) => here = {home}
    /\ l.at = "bye.leave" => here = {home} /\ l.old = home
    /\ l.at \in {"bye.db", "bye.forget"} => here = {}

\* The first player p is in the match room, too, from its creation until it leaves its own;
\* the second, t, is in none between the two.
FirstPlace(p, t) ==
    LET at == thread[t].at  here == InRooms(p)  home == userRoom[p] IN
    /\ at \in {"match.create", "match.finish"} \/ (match.i = 2 /\ at \notin Inviting) =>
         here = {home}
    /\ at \in Inviting \/ (match.i = 1 /\ at \in BeforeLeave) => here = {home, match.room}
    /\ match.i = 1 /\ at \in AfterLeave \cup {"match.set"} => here = {match.room}

SecondPlace(t) ==
    LET at == thread[t].at  here == InRooms(t)  home == userRoom[t] IN
    /\ match.i = 1 \/ at \in Inviting \cup BeforeLeave => here = {home}
    /\ match.i = 2 /\ at \in AfterLeave => here = {}
    /\ match.i = 2 /\ at = "match.set" => here = {match.room}

\* What a player leaves is the room it is in.
LeavesHome(p, t) ==
    thread[t].at \in {"leave.check", "leave.locked"} =>
        thread[t].old = userRoom[IF match.i = 1 THEN p ELSE t]

MatchPlaces ==
    match # None =>
        \A p, t \in User : p = First /\ t = match.by =>
            FirstPlace(p, t) /\ SecondPlace(t) /\ LeavesHome(p, t)

PlacesInv == PairInv /\ (\A u \in User : Stays(u)) /\ MatchPlaces

\* Where a step leaves a client as it was.
Keeps(u) == InRooms(u)' = InRooms(u) /\ userRoom'[u] = userRoom[u]

LEMMA PlacesFacts ==
    ASSUME PlacesInv, NEW t \in User
    PROVE  /\ PairInv /\ LocalsFit /\ RM!TypeOK /\ Resident /\ ServiceInv /\ Waits(t) /\ Stays(t)
           /\ Fit(thread[t], t, userRoom[t], match) /\ thread[t] \in Thread
           /\ userRoom \in [User -> RoomName \cup {None}]
           /\ (match # None => Stage) /\ MatchPlaces
BY PairFacts DEF PlacesInv, PairInv, LastingInv, MatchStage

\* RoomOf is the entry of user_rooms of a client that is in the room it names.
LEMMA HomeOfMember ==
    ASSUME NEW u \in User, userRoom[u] \in InRooms(u)
    PROVE  RoomOf(u) = userRoom[u] /\ userRoom[u] \in RoomName
BY RoomTableAssumption DEF RoomOf, InRooms

\* unregister_client, where clients are matched.
LEMMA ByeStays ==
    ASSUME PlacesInv, NEW t \in User,
           Disconnect(t) \/ ByeQueue(t) \/ ByeLeave(t) \/ ByeDb(t) \/ ByeForget(t)
    PROVE  /\ Stays(t)' /\ (Plays(t) /\ t # match.by => Keeps(t))
           /\ \A v \in User \ {t} : InRooms(v)' = InRooms(v)
<1>1. /\ LocalsFit /\ RM!TypeOK /\ Resident /\ Stays(t) /\ thread[t] \in Thread
      /\ Fit(thread[t], t, userRoom[t], match)
      /\ userRoom \in [User -> RoomName \cup {None}]
      /\ match # None => Stage
    BY PlacesFacts
<1>2. CASE Disconnect(t)
    <2>1. /\ rooms' = rooms /\ userRoom' = userRoom /\ match' = match
          /\ thread[t].at = "idle" /\ thread'[t].at = "bye.queue"
        BY <1>1, <1>2, Lands DEF Disconnect, Request, At, roomVars
    <2>2. \A v \in User : InRooms(v)' = InRooms(v)
        BY <2>1, SameRoomsMove
    <2>. QED BY <1>1, <2>1, <2>2 DEF Stays, Plays, First, PlayerWaits, Keeps
<1>3. CASE ByeQueue(t)
    <2>1. /\ rooms' = rooms /\ userRoom' = userRoom /\ match = None
          /\ thread[t].at = "bye.queue"
          /\ thread'[t] = [Rest("bye.leave") EXCEPT !.old = RoomOf(t)]
        BY <1>1, <1>3, Lands DEF ByeQueue, At, roomVars
    <2>2. thread'[t].at = "bye.leave" /\ thread'[t].old = RoomOf(t)
        BY <2>1 DEF Rest
    <2>3. InRooms(t) = {userRoom[t]} /\ RoomOf(t) = userRoom[t]
        BY <1>1, <2>1, HomeOfMember DEF Stays, Plays, PlayerWaits
    <2>4. \A v \in User : InRooms(v)' = InRooms(v)
        BY <2>1, SameRoomsMove
    <2>. QED BY <2>1, <2>2, <2>3, <2>4 DEF Stays, Plays, PlayerWaits, Keeps
<1>4. CASE ByeLeave(t)
    <2>1. /\ thread[t].at = "bye.leave" /\ thread[t].old \in RoomName
          /\ RM!Leave(thread[t].old, t) /\ userRoom' = userRoom /\ thread'[t].at = "bye.db"
        BY <1>1, <1>4, Lands DEF ByeLeave, At, Fit, NeedsOld
    <2>2. Moves(t, InRooms(t) \ {thread[t].old})
        BY <1>1, <2>1, LeaveMoves
    <2>3. InRooms(t) = {thread[t].old}
        BY <1>1, <2>1 DEF Stays
    <2>4. InRooms(t)' = {}
        BY <2>2, <2>3 DEF Moves
    <2>5. ~(Plays(t) /\ t # match.by)
        BY <1>1, <2>1 DEF Plays, Stage, PlayerWaits
    <2>. QED BY <2>1, <2>2, <2>4, <2>5 DEF Moves, Stays, PlayerWaits
<1>5. CASE ByeDb(t)
    <2>1. /\ rooms' = rooms /\ userRoom' = userRoom
          /\ thread[t].at = "bye.db" /\ thread'[t].at = "bye.forget"
        BY <1>1, <1>5, Lands DEF ByeDb, RM!DbRemoveMember, At
    <2>2. \A v \in User : InRooms(v)' = InRooms(v)
        BY <2>1, SameRoomsMove
    <2>. QED BY <1>1, <2>1, <2>2 DEF Stays, PlayerWaits, Keeps
<1>6. CASE ByeForget(t)
    <2>1. /\ rooms' = rooms /\ userRoom' = [userRoom EXCEPT ![t] = None]
          /\ thread[t].at = "bye.forget" /\ thread'[t].at = "offline"
        BY <1>1, <1>6, Lands DEF ByeForget, At, roomVars
    <2>2. /\ \A v \in User : InRooms(v)' = InRooms(v)
          /\ userRoom'[t] = None
        BY <1>1, <2>1, SameRoomsMove
    <2>3. ~(Plays(t) /\ t # match.by)
        BY <1>1, <2>1 DEF Plays, Stage, PlayerWaits
    <2>. QED BY <1>1, <2>1, <2>2, <2>3 DEF Stays, PlayerWaits
<1>. QED BY <1>2, <1>3, <1>4, <1>5, <1>6

\* Connecting and inviting.
LEMMA ConnectStays ==
    ASSUME PlacesInv, NEW t \in User, Login(t) \/ Register(t)
    PROVE  /\ Stays(t)' /\ (Plays(t) /\ t # match.by => Keeps(t))
           /\ \A v \in User \ {t} : InRooms(v)' = InRooms(v)
<1>1. /\ LocalsFit /\ RM!TypeOK /\ Resident /\ ServiceInv /\ Stays(t)
      /\ userRoom \in [User -> RoomName \cup {None}]
      /\ match # None => Stage
    BY PlacesFacts
<1>2. CASE Login(t)
    <2>1. /\ thread[t].at = "offline" /\ thread'[t].at = "registering"
          /\ userRoom' = [userRoom EXCEPT ![t] = Global] /\ rooms' = rooms
        BY <1>1, <1>2, Lands DEF Login, At, roomVars
    <2>2. /\ \A v \in User : InRooms(v)' = InRooms(v)
          /\ userRoom'[t] = Global
        BY <1>1, <2>1, SameRoomsMove
    <2>3. ~(Plays(t) /\ t # match.by)
        BY <1>1, <2>1 DEF Plays, Stage, PlayerWaits
    <2>. QED BY <1>1, <2>1, <2>2, <2>3 DEF Stays, PlayerWaits
<1>3. CASE Register(t)
    <2>1. thread[t].at = "registering" /\ InRooms(t) = {} /\ userRoom[t] = Global
        BY <1>1, <1>3 DEF Register, At, Stays
    <2>2. userRoom' = userRoom /\ ~(Plays(t) /\ t # match.by)
        BY <1>1, <1>3, <2>1 DEF Register, Plays, Stage, PlayerWaits
    <2>3. CASE RM!Join(Global, t, NoPassword) /\ Finish(t)
        <3>1. Moves(t, InRooms(t) \cup {Global}) /\ thread'[t].at = "idle"
            BY <1>1, <2>3, JoinMoves, ServiceAssumption, Lands
        <3>2. InRooms(t)' = {Global} /\ \A v \in User \ {t} : InRooms(v)' = InRooms(v)
            BY <2>1, <3>1 DEF Moves
        <3>. QED BY <2>1, <2>2, <3>1, <3>2 DEF Stays, PlayerWaits
    <2>4. CASE RM!JoinRefused(Global, t, NoPassword) /\ Become(t, Rest("leaked"))
        <3>1. thread'[t].at = "leaked" /\ rooms' = rooms
            BY <1>1, <2>4, LookupStays, ServiceAssumption, Lands DEF RM!JoinRefused, RM!vars
        <3>2. \A v \in User : InRooms(v)' = InRooms(v)
            BY <3>1, SameRoomsMove
        <3>. QED BY <2>2, <3>1, <3>2 DEF Stays, PlayerWaits
    <2>. QED BY <1>3, <2>1, <2>3, <2>4 DEF Register
<1>. QED BY <1>2, <1>3

LEMMA AsksToInvite ==
    ASSUME PlacesInv, NEW t \in User, NEW target \in User, InviteUser(t, target)
    PROVE  /\ Stays(t)' /\ (Plays(t) => Keeps(t))
           /\ \A v \in User \ {t} : InRooms(v)' = InRooms(v)
<1>1. /\ LocalsFit /\ RM!TypeOK /\ Resident /\ Stays(t) /\ RoomOf(t) \in RoomName
    BY PlacesFacts, RoomOfType
<1>2. /\ userRoom' = userRoom /\ match' = match /\ thread[t].at = "idle"
      /\ thread'[t] = [Rest("invite.memory") EXCEPT !.room = RoomOf(t), !.who = target]
    BY <1>1, Lands DEF InviteUser, Request, At
<1>3. thread'[t].at = "invite.memory"
    BY <1>2 DEF Rest
<1>4. rooms' = rooms
    BY <1>1, LookupStays DEF InviteUser, RM!vars
<1>5. \A v \in User : InRooms(v)' = InRooms(v)
    BY <1>4, SameRoomsMove
<1>. QED BY <1>1, <1>2, <1>3, <1>5 DEF Stays, Plays, First, PlayerWaits, Keeps

LEMMA InviteStays ==
    ASSUME PlacesInv, NEW t \in User, InviteMemory(t) \/ InviteDb(t)
    PROVE  /\ Stays(t)' /\ (Plays(t) => Keeps(t))
           /\ \A v \in User \ {t} : InRooms(v)' = InRooms(v)
<1>1. /\ LocalsFit /\ RM!TypeOK /\ Resident /\ Stays(t)
      /\ Fit(thread[t], t, userRoom[t], match)
    BY PlacesFacts
<1>2. /\ userRoom' = userRoom /\ match' = match
      /\ thread[t].at \in {"invite.memory", "invite.db"}
    BY DEF InviteMemory, InviteDb, At
<1>3. thread'[t].at \in {"idle", "invite.db"}
    BY <1>1, Lands DEF InviteMemory, InviteDb
<1>4. CASE InviteMemory(t)
    <2>1. /\ thread[t].room \in RoomName /\ thread[t].who \in User
        BY <1>1, <1>4 DEF InviteMemory, At, Fit, NeedsRoom, NeedsWho
    <2>2. RM!Invite(thread[t].room, thread[t].who) \/ RM!Lookup(thread[t].room)
        BY <1>4 DEF InviteMemory
    <2>3. CASE RM!Invite(thread[t].room, thread[t].who)
        <3>1. \A v \in User : InRooms(v)' = InRooms(v)
            BY <1>1, <2>1, <2>3, InviteMoves
        <3>. QED BY <1>1, <1>2, <1>3, <3>1 DEF Stays, Plays, First, PlayerWaits, Keeps
    <2>4. CASE RM!Lookup(thread[t].room)
        <3>1. \A v \in User : InRooms(v)' = InRooms(v)
            BY <1>1, <2>1, <2>4, LookupStays, SameRoomsMove DEF RM!vars
        <3>. QED BY <1>1, <1>2, <1>3, <3>1 DEF Stays, Plays, First, PlayerWaits, Keeps
    <2>. QED BY <2>2, <2>3, <2>4
<1>5. CASE InviteDb(t)
    <2>1. rooms' = rooms
        BY <1>5 DEF InviteDb, RM!DbInvite, roomVars
    <2>2. \A v \in User : InRooms(v)' = InRooms(v)
        BY <2>1, SameRoomsMove
    <2>. QED BY <1>1, <1>2, <1>3, <2>2 DEF Stays, Plays, First, PlayerWaits, Keeps
<1>. QED BY <1>4, <1>5

\* Clients no step is about.
LEMMA KeptStays ==
    ASSUME NEW u \in User, Stays(u), Keeps(u), thread'[u] = thread[u],
           Plays(u)' <=> Plays(u)
    PROVE  Stays(u)'
BY DEF Stays, Keeps

LEMMA PlacesKept ==
    ASSUME NEW p \in User, NEW t \in User, match' = match, Keeps(p), Keeps(t),
           thread'[t] = thread[t], FirstPlace(p, t), SecondPlace(t), LeavesHome(p, t)
    PROVE  FirstPlace(p, t)' /\ SecondPlace(t)' /\ LeavesHome(p, t)'
BY DEF Keeps, FirstPlace, SecondPlace, LeavesHome

\* What a client asks for besides a match.
LEMMA PairingAsks ==
    ASSUME Pairing, NEW t \in User, Ask(t), ~Matchmake(t)
    PROVE  Login(t) \/ Disconnect(t) \/ \E target \in User : InviteUser(t, target)
<1>1. /\ "reconnect" \notin Ops /\ "leave" \notin Ops /\ "kick" \notin Ops
      /\ "delete" \notin Ops /\ "join" \notin Ops /\ "create" \notin Ops
    BY DEF Pairing
<1>2. ~Reconnect(t) /\ ~LeaveRoom(t) /\ \A target : ~KickUser(t, target)
    BY <1>1, Zenon DEF Reconnect, LeaveRoom, KickUser, Request
<1>3. /\ \A r : ~DeleteRoom(t, r)
      /\ \A r, password : ~JoinRoom(t, r, password)
      /\ \A r, info : ~CreateRoom(t, r, info)
    BY <1>1, Zenon DEF DeleteRoom, JoinRoom, CreateRoom, Request
<1>. QED BY <1>2, <1>3 DEF Ask

\* A step of a thread that does not match.
LEMMA OtherPlaces ==
    ASSUME Pairing, PlacesInv, NEW t \in User,
           Continue(t) \/ Ask(t), thread[t].at \notin Matching \cup Leaving, ~Matchmake(t)
    PROVE  (\A u \in User : Stays(u)') /\ MatchPlaces'
<1>1. PairInv /\ LocalsFit /\ Waits(t) /\ MatchPlaces
    BY PlacesFacts
<1>2. Steady(t) /\ (match # None => t # match.by) /\ match' = match
    BY <1>1, OtherStep DEF Steady
<1>3. \A u \in User \ {t} : userRoom'[u] = userRoom[u] /\ thread'[u] = thread[u]
    BY <1>1, OtherStaysHome, OthersStay
<1>4. /\ Stays(t)' /\ (Plays(t) => Keeps(t))
      /\ \A v \in User \ {t} : InRooms(v)' = InRooms(v)
    <2>1. CASE Continue(t)
        <3>1. \/ Register(t) \/ InviteMemory(t) \/ InviteDb(t)
              \/ ByeQueue(t) \/ ByeLeave(t) \/ ByeDb(t) \/ ByeForget(t)
            BY <1>1, <2>1
               DEF Continue, Waits, PairLabel, Matching, Leaving, At, Rejoin, LeaveCheck,
                   LeaveLocked, LeaveDb, LeaveReset, HomeEnter, HomeSet, JoinEnter, JoinSet,
                   CreateFinish, KickRemove, KickWhere, DeleteLocked, DeleteDb, MatchCreate,
                   MatchFinish, MatchInvite, MatchDbInvite, MatchPrevious, MatchEnter, MatchSet
        <3>. QED BY <1>2, <3>1, ConnectStays, InviteStays, ByeStays DEF Plays
    <2>2. CASE Ask(t)
        <3>2. Login(t) \/ Disconnect(t) \/ \E target \in User : InviteUser(t, target)
            BY <2>2, PairingAsks
        <3>. QED BY <1>2, <3>2, ConnectStays, AsksToInvite, ByeStays DEF Plays
    <2>. QED BY <2>1, <2>2
<1>5. \A u \in User : Plays(u)' <=> Plays(u)
    BY <1>2 DEF Plays, First
<1>6. \A u \in User \ {t} : Keeps(u)
    BY <1>3, <1>4 DEF Keeps
<1>7. \A u \in User : Stays(u)'
    BY <1>3, <1>4, <1>5, <1>6, KeptStays DEF PlacesInv
<1>8. MatchPlaces'
    <2> SUFFICES ASSUME match # None, NEW p \in User, NEW q \in User, p = First, q = match.by
                 PROVE  FirstPlace(p, q)' /\ SecondPlace(q)' /\ LeavesHome(p, q)'
        BY <1>2 DEF MatchPlaces, First
    <2>1. Keeps(p) /\ Keeps(q) /\ thread'[q] = thread[q]
        BY <1>2, <1>3, <1>4, <1>6 DEF Plays
    <2>. QED BY <1>1, <1>2, <2>1, PlacesKept DEF MatchPlaces
<1>. QED BY <1>7, <1>8

\* What a step of the match by t does to its players, p and t.
Led(p, t) ==
    /\ \A u \in User \ {p, t} : Keeps(u)
    /\ match' # None => /\ match'.by = t /\ match'.pair[1] = p
                        /\ FirstPlace(p, t)' /\ SecondPlace(t)' /\ LeavesHome(p, t)'
    /\ match' = None => /\ thread'[t].at = "idle"
                        /\ \A u \in {p, t} : InRooms(u)' = {userRoom'[u]}

LEMMA MatchFacts ==
    ASSUME PlacesInv, match # None, NEW p \in User, NEW t \in User, p = First, t = match.by
    PROVE  /\ FirstPlace(p, t) /\ SecondPlace(t) /\ LeavesHome(p, t)
           /\ p # t /\ match.pair[1] = p /\ match.pair[2] = t
           /\ match \in Match /\ match.i \in {1, 2} /\ match.room \in RoomName
           /\ Player \in User /\ (match.i = 1 => Player = p) /\ (match.i = 2 => Player = t)
           /\ thread[t] \in Thread /\ LocalsFit /\ RM!TypeOK /\ Resident /\ PairInv /\ Stage
           /\ thread[t].at \in Leaving => /\ thread[t].who = Player /\ thread[t].old # match.room
                                         /\ thread[t].then = "match.enter"
                                         /\ thread[t].old \in RoomName
<1>1. /\ PairInv /\ LocalsFit /\ RM!TypeOK /\ Resident /\ MatchPlaces /\ Stage /\ thread[t] \in Thread
      /\ Fit(thread[t], t, userRoom[t], match) /\ Waits(t)
      /\ match \in Match /\ match.i \in {1, 2} /\ match.room \in RoomName
    BY PlacesFacts, PairFacts
<1>2. p # t /\ match.pair[1] = p /\ match.pair[2] = t
    BY <1>1 DEF Stage, First
<1>3. Player \in User /\ (match.i = 1 => Player = p) /\ (match.i = 2 => Player = t)
    BY <1>1, <1>2 DEF Player
<1>4. thread[t].at \in Leaving => /\ thread[t].who = Player /\ thread[t].old # match.room
                                /\ thread[t].then = "match.enter"
                                /\ thread[t].old \in RoomName
    BY <1>1 DEF Stage, Waits, Fit, NeedsOld, Leaving
<1>. QED BY <1>1, <1>2, <1>3, <1>4 DEF MatchPlaces

\* create_room and the two invitations.
LEMMA MatchInvites ==
    ASSUME PlacesInv, match # None, NEW p \in User, NEW t \in User, p = First, t = match.by,
           MatchCreate(t) \/ MatchFinish(t) \/ MatchInvite(t) \/ MatchDbInvite(t)
    PROVE  Led(p, t)
<1>1. /\ FirstPlace(p, t) /\ SecondPlace(t) /\ LocalsFit /\ RM!TypeOK /\ Resident /\ Stage
      /\ p # t /\ match.pair[1] = p /\ match \in Match /\ match.i \in {1, 2}
      /\ match.room \in RoomName /\ Player \in User
    BY MatchFacts
<1>2. userRoom' = userRoom
    BY DEF MatchCreate, MatchFinish, MatchInvite, MatchDbInvite
<1>3. CASE MatchCreate(t)
    <2>1. /\ thread[t].at = "match.create" /\ thread'[t].at = "match.finish" /\ match' = match
          /\ rooms' = rooms /\ match.i = 1
        BY <1>1, <1>3, Lands DEF MatchCreate, At, RM!CreateRow, Stage
    <2>2. \A u \in User : InRooms(u)' = InRooms(u)
        BY <2>1, SameRoomsMove
    <2>. QED BY <1>1, <1>2, <2>1, <2>2
             DEF Led, Keeps, FirstPlace, SecondPlace, LeavesHome, Inviting, BeforeLeave, AfterLeave
<1>4. CASE MatchFinish(t)
    <2>1. /\ thread[t].at = "match.finish" /\ thread'[t].at = "match.invite" /\ match' = match
          /\ RM!CreateFinish /\ match.i = 1 /\ creating = [room |-> match.room, info |-> MatchInfo]
        BY <1>1, <1>4, Lands DEF MatchFinish, At, Stage
    <2>2. creating.room = match.room /\ creating.info.owner = p
        BY <1>1, <2>1 DEF MatchInfo
    <2>3. Moves(p, InRooms(p) \cup {match.room})
        BY <1>1, <2>1, <2>2, CreateMoves
    <2>4. InRooms(p)' = {userRoom[p], match.room} /\ \A u \in User \ {p} : InRooms(u)' = InRooms(u)
        BY <1>1, <2>1, <2>3 DEF Moves, FirstPlace
    <2>. QED BY <1>1, <1>2, <2>1, <2>4
             DEF Led, Keeps, FirstPlace, SecondPlace, LeavesHome, Inviting, BeforeLeave, AfterLeave
<1>5. CASE MatchInvite(t)
    <2>1. /\ thread[t].at = "match.invite" /\ thread'[t].at = "match.dbinvite" /\ match' = match
          /\ RM!Invite(match.room, Player)
        BY <1>1, <1>5, Lands DEF MatchInvite, At
    <2>2. \A u \in User : InRooms(u)' = InRooms(u)
        BY <1>1, <2>1, InviteMoves
    <2>. QED BY <1>1, <1>2, <2>1, <2>2
             DEF Led, Keeps, FirstPlace, SecondPlace, LeavesHome, Inviting, BeforeLeave, AfterLeave
<1>6. CASE MatchDbInvite(t)
    <2>1. /\ thread[t].at = "match.dbinvite" /\ match' = [match EXCEPT !.i = 3 - @]
          /\ thread'[t].at = IF match.i = 1 THEN "match.invite" ELSE "match.previous"
          /\ rooms' = rooms
        BY <1>1, <1>6, Lands DEF MatchDbInvite, At, RM!DbInvite
    <2>2. /\ match'.by = t /\ match'.pair[1] = p /\ match'.room = match.room
          /\ match'.i = 3 - match.i /\ match' # None
        <3>1. [match EXCEPT !.i = 3 - @] \in Match
            BY <1>1 DEF Match
        <3>. QED BY <1>1, <2>1, <3>1, NoMatchAssumption DEF Match
    <2>3. \A u \in User : InRooms(u)' = InRooms(u)
        BY <2>1, SameRoomsMove
    <2>4. InRooms(p) = {userRoom[p], match.room} /\ InRooms(t) = {userRoom[t]}
        BY <1>1, <2>1 DEF FirstPlace, SecondPlace, Inviting
    <2>. QED BY <1>1, <1>2, <2>1, <2>2, <2>3, <2>4
             DEF Led, Keeps, FirstPlace, SecondPlace, LeavesHome, Inviting, BeforeLeave, AfterLeave
<1>. QED BY <1>3, <1>4, <1>5, <1>6

\* leave_room for the player whose turn it is.
LEMMA MatchLeaves ==
    ASSUME PlacesInv, match # None, NEW p \in User, NEW t \in User, p = First, t = match.by,
           \/ MatchPrevious(t)
           \/ LeaveCheck(t) \/ LeaveLocked(t) \/ LeaveDb(t) \/ LeaveReset(t)
    PROVE  Led(p, t)
<1>1. /\ FirstPlace(p, t) /\ SecondPlace(t) /\ LeavesHome(p, t)
      /\ LocalsFit /\ RM!TypeOK /\ Resident /\ Stage /\ thread[t] \in Thread
      /\ p # t /\ match.pair[1] = p /\ match.i \in {1, 2}
      /\ match.room \in RoomName /\ Player \in User
      /\ (match.i = 1 => Player = p) /\ (match.i = 2 => Player = t)
      /\ thread[t].at \in Leaving => /\ thread[t].who = Player /\ thread[t].old # match.room
                                    /\ thread[t].then = "match.enter"
                                    /\ thread[t].old \in RoomName
    BY MatchFacts
<1>2. match' = match
    BY DEF MatchPrevious, LeaveCheck, LeaveLocked, LeaveDb, LeaveReset
<1>3. CASE MatchPrevious(t)
    <2>1. /\ thread[t].at = "match.previous" /\ rooms' = rooms /\ userRoom' = userRoom
        BY <1>3 DEF MatchPrevious, At, roomVars
    <2>2. \A u \in User : InRooms(u)' = InRooms(u)
        BY <2>1, SameRoomsMove
    <2>3. match.room \notin InRooms(t)
        <3>1. rooms[match.room].members = {p}
            BY <1>1, <2>1 DEF Stage
        <3>. QED BY <1>1, <3>1, Membership
    <2>4. userRoom[Player] \in InRooms(Player)
        BY <1>1, <2>1 DEF FirstPlace, SecondPlace, Inviting, BeforeLeave
    <2>5. RoomOf(Player) = userRoom[Player]
        BY <1>1, <2>4, HomeOfMember
    <2>6. \/ /\ thread'[t].at = "match.enter" /\ RoomOf(Player) = match.room
          \/ /\ thread'[t].at = "leave.check" /\ thread'[t].old = userRoom[Player]
        <3>1. \/ thread'[t].at = "match.enter" /\ RoomOf(Player) = match.room
              \/ thread'[t] = [Rest("leave.check") EXCEPT !.who = Player,
                                 !.old = RoomOf(Player), !.then = "match.enter"]
            <4>1. CASE RoomOf(Player) # match.room
                <5>1. CallLeave(t, Player, RoomOf(Player), "match.enter")
                    BY <1>3, <4>1 DEF MatchPrevious
                <5>2. \A local : Become(t, local) => thread'[t] = local
                    BY <1>1, Lands
                <5>. QED BY <5>1, <5>2, Zenon DEF CallLeave
            <4>2. CASE RoomOf(Player) = match.room
                <5>1. Goto(t, "match.enter")
                    BY <1>3, <4>2 DEF MatchPrevious
                <5>. QED BY <1>1, <4>2, <5>1, Lands
            <4>. QED BY <4>1, <4>2
        <3>. QED BY <2>5, <3>1 DEF Rest
    <2>7. CASE match.i = 1
        <3>1. /\ InRooms(p)' = {userRoom[p], match.room} /\ InRooms(t)' = {userRoom[t]}
            BY <1>1, <2>1, <2>2, <2>7 DEF FirstPlace, SecondPlace, Inviting, BeforeLeave
        <3>. QED BY <1>1, <1>2, <2>1, <2>2, <2>5, <2>6, <2>7, <3>1
             DEF Led, Keeps, FirstPlace, SecondPlace, LeavesHome, Inviting, BeforeLeave, AfterLeave
    <2>8. CASE match.i = 2
        <3>1. InRooms(p)' = {userRoom[p]} /\ InRooms(t)' = {userRoom[t]}
            BY <1>1, <2>1, <2>2, <2>8 DEF FirstPlace, SecondPlace, Inviting, BeforeLeave
        <3>2. thread'[t].at = "leave.check" /\ thread'[t].old = userRoom[t]
            BY <1>1, <2>3, <2>4, <2>5, <2>6, <2>8
        <3>. QED BY <1>1, <1>2, <2>1, <2>2, <2>8, <3>1, <3>2
             DEF Led, Keeps, FirstPlace, SecondPlace, LeavesHome, Inviting, BeforeLeave, AfterLeave
    <2>. QED BY <1>1, <2>7, <2>8
<1>4. ASSUME NEW label \in Leaving, Goto(t, label), thread[t].at \in Leaving
      PROVE  thread'[t].at = label /\ thread'[t].old = thread[t].old
    <2>1. thread'[t] = [thread[t] EXCEPT !.at = label]
        BY <1>1, <1>4, Lands
    <2>. QED BY <1>1, <2>1 DEF Thread
<1>5. CASE LeaveCheck(t)
    <2>1. /\ thread[t].at = "leave.check" /\ userRoom' = userRoom
          /\ RM!Lookup(thread[t].old) /\ thread[t].who = Player /\ thread[t].old \in RoomName
          /\ thread[t].old = userRoom[Player]
        BY <1>1, <1>5 DEF LeaveCheck, At, Leaving, LeavesHome
    <2>2. thread[t].old \in InRooms(Player)
        BY <1>1, <2>1 DEF FirstPlace, SecondPlace, Inviting, BeforeLeave
    <2>3. IsMember(thread[t].old, thread[t].who)
        <3>1. RM!GetRoom(thread[t].old) = rooms[thread[t].old]
            BY <1>1, <2>1, GetResident DEF RM!Lookup
        <3>. QED BY <2>1, <2>2, <3>1, Membership DEF IsMember
    <2>4. thread'[t].at = "leave.locked" /\ thread'[t].old = thread[t].old
        BY <1>4, <1>5, <2>1, <2>3 DEF LeaveCheck, Leaving
    <2>5. rooms' = rooms
        BY <1>1, <2>1, LookupStays DEF RM!vars
    <2>6. \A u \in User : InRooms(u)' = InRooms(u)
        BY <2>5, SameRoomsMove
    <2>. QED BY <1>1, <1>2, <2>1, <2>4, <2>6
             DEF Led, Keeps, FirstPlace, SecondPlace, LeavesHome, Inviting, BeforeLeave, AfterLeave
<1>6. CASE LeaveLocked(t)
    <2>1. /\ thread[t].at = "leave.locked" /\ userRoom' = userRoom
          /\ RM!Leave(thread[t].old, Player) /\ thread[t].old \in RoomName
          /\ thread[t].old = userRoom[Player] /\ userRoom[Player] # match.room
          /\ thread'[t].at = "leave.db"
        BY <1>1, <1>4, <1>6 DEF LeaveLocked, At, Leaving, LeavesHome
    <2>2. PICK u \in User : u = Player
        BY <1>1
    <2>5. Moves(u, InRooms(u) \ {thread[t].old})
        BY <1>1, <2>1, <2>2, LeaveMoves
    <2>3. CASE match.i = 1
        <3>1. InRooms(p) = {userRoom[p], match.room} /\ InRooms(t) = {userRoom[t]}
            BY <1>1, <2>1, <2>3 DEF FirstPlace, SecondPlace, BeforeLeave
        <3>2. /\ InRooms(p)' = InRooms(p) \ {userRoom[p]}
              /\ \A v \in User \ {p} : InRooms(v)' = InRooms(v)
            BY <1>1, <2>1, <2>2, <2>3, <2>5 DEF Moves
        <3>3. InRooms(p)' = {match.room}
            BY <1>1, <2>1, <2>3, <3>1, <3>2
        <3>. QED BY <1>1, <1>2, <2>1, <2>3, <3>1, <3>2, <3>3
             DEF Led, Keeps, FirstPlace, SecondPlace, LeavesHome, Inviting, BeforeLeave, AfterLeave
    <2>4. CASE match.i = 2
        <3>1. InRooms(p) = {userRoom[p]} /\ InRooms(t) = {userRoom[t]}
            BY <1>1, <2>1, <2>4 DEF FirstPlace, SecondPlace, Inviting, BeforeLeave
        <3>2. /\ InRooms(t)' = InRooms(t) \ {userRoom[t]}
              /\ \A v \in User \ {t} : InRooms(v)' = InRooms(v)
            BY <1>1, <2>1, <2>2, <2>4, <2>5 DEF Moves
        <3>3. InRooms(t)' = {}
            BY <3>1, <3>2
        <3>. QED BY <1>1, <1>2, <2>1, <2>4, <3>1, <3>2, <3>3
             DEF Led, Keeps, FirstPlace, SecondPlace, LeavesHome, Inviting, BeforeLeave, AfterLeave
    <2>. QED BY <1>1, <2>3, <2>4
<1>7. CASE LeaveDb(t)
    <2>1. /\ thread[t].at = "leave.db" /\ thread'[t].at = "leave.reset" /\ userRoom' = userRoom
          /\ rooms' = rooms
        BY <1>1, <1>7, Lands DEF LeaveDb, At, RM!DbRemoveMember
    <2>2. \A u \in User : InRooms(u)' = InRooms(u)
        BY <2>1, SameRoomsMove
    <2>. QED BY <1>1, <1>2, <2>1, <2>2
             DEF Led, Keeps, FirstPlace, SecondPlace, LeavesHome, Inviting, BeforeLeave, AfterLeave
<1>8. CASE LeaveReset(t)
    <2>1. /\ thread[t].at = "leave.reset" /\ rooms' = rooms
          /\ \A u \in User \ {Player} : userRoom'[u] = userRoom[u]
        BY <1>1, <1>8 DEF LeaveReset, At, Leaving, roomVars, LocalsFit
    <2>2. thread'[t].at = "match.enter"
        <3>1. thread'[t] = [Rest("match.enter") EXCEPT !.who = thread[t].who]
            BY <1>1, <1>8, <2>1, Lands DEF LeaveReset, Return, Leaving
        <3>. QED BY <3>1 DEF Rest
    <2>3. \A u \in User : InRooms(u)' = InRooms(u)
        BY <2>1, SameRoomsMove
    <2>. QED BY <1>1, <1>2, <2>1, <2>2, <2>3
             DEF Led, Keeps, FirstPlace, SecondPlace, LeavesHome, Inviting, BeforeLeave, AfterLeave
<1>. QED BY <1>3, <1>5, <1>6, <1>7, <1>8

\* join_room for the player, and on to the next.
LEMMA MatchEnters ==
    ASSUME Pairing, PlacesInv, match # None, NEW p \in User, NEW t \in User, p = First,
           t = match.by, MatchEnter(t) \/ MatchSet(t)
    PROVE  Led(p, t)
<1>1. /\ FirstPlace(p, t) /\ SecondPlace(t)
      /\ LocalsFit /\ RM!TypeOK /\ Resident /\ PairInv
      /\ p # t /\ match.pair[1] = p /\ match \in Match /\ match.i \in {1, 2}
      /\ match.room \in RoomName /\ Player \in User
      /\ (match.i = 1 => Player = p) /\ (match.i = 2 => Player = t)
    BY MatchFacts
<1>2. CASE MatchEnter(t)
    <2>1. thread[t].at = "match.enter" /\ ~RM!JoinRefused(match.room, Player, NoPassword)
        BY <1>1, <1>2, PlayerMayEnter DEF MatchEnter, At, RM!JoinRefused, RM!Lookup
    <2>2. /\ thread'[t].at = "match.set" /\ match' = match /\ userRoom' = userRoom
          /\ RM!Join(match.room, Player, NoPassword)
        BY <1>1, <1>2, <2>1, Lands DEF MatchEnter
    <2>3. PICK u \in User : u = Player
        BY <1>1
    <2>6. Moves(u, InRooms(u) \cup {match.room})
        BY <1>1, <2>2, <2>3, JoinMoves
    <2>4. CASE match.i = 1
        <3>1. InRooms(p)' = {match.room} /\ \A v \in User \ {p} : InRooms(v)' = InRooms(v)
            BY <1>1, <2>1, <2>3, <2>6, <2>4 DEF Moves, FirstPlace, AfterLeave
        <3>. QED BY <1>1, <2>1, <2>2, <2>4, <3>1
             DEF Led, Keeps, FirstPlace, SecondPlace, LeavesHome, Inviting, BeforeLeave, AfterLeave
    <2>5. CASE match.i = 2
        <3>1. InRooms(t)' = {match.room} /\ \A v \in User \ {t} : InRooms(v)' = InRooms(v)
            BY <1>1, <2>1, <2>3, <2>6, <2>5 DEF Moves, SecondPlace, AfterLeave
        <3>. QED BY <1>1, <2>1, <2>2, <2>5, <3>1
             DEF Led, Keeps, FirstPlace, SecondPlace, LeavesHome, Inviting, BeforeLeave, AfterLeave
    <2>. QED BY <1>1, <2>4, <2>5
<1>3. CASE MatchSet(t)
    <2>1. /\ thread[t].at = "match.set" /\ rooms' = rooms /\ NextPlayer(t)
          /\ userRoom' = [userRoom EXCEPT ![Player] = match.room]
        BY <1>3 DEF MatchSet, At, roomVars
    <2>2. /\ userRoom'[Player] = match.room
          /\ \A u \in User \ {Player} : userRoom'[u] = userRoom[u]
        BY <1>1, <2>1 DEF LocalsFit
    <2>3. \A u \in User : InRooms(u)' = InRooms(u)
        BY <2>1, SameRoomsMove
    <2>4. CASE match.i = 1
        <3>1. match' = [match EXCEPT !.i = 2] /\ thread'[t].at = "match.previous"
            BY <1>1, <2>1, <2>4, Lands DEF NextPlayer
        <3>2. /\ match' # None /\ match'.by = t /\ match'.pair[1] = p
              /\ match'.room = match.room /\ match'.i = 2
            <4>1. [match EXCEPT !.i = 2] \in Match
                BY <1>1 DEF Match
            <4>. QED BY <1>1, <3>1, <4>1, NoMatchAssumption DEF Match
        <3>3. InRooms(p)' = {userRoom'[p]} /\ InRooms(t)' = {userRoom'[t]}
            BY <1>1, <2>1, <2>2, <2>3, <2>4 DEF FirstPlace, SecondPlace
        <3>. QED BY <1>1, <2>2, <2>3, <2>4, <3>1, <3>2, <3>3
             DEF Led, Keeps, FirstPlace, SecondPlace, LeavesHome, Inviting, BeforeLeave, AfterLeave
    <2>5. CASE match.i = 2
        <3>1. match' = None /\ thread'[t].at = "idle"
            BY <1>1, <2>1, <2>5, Lands DEF NextPlayer
        <3>2. InRooms(p)' = {userRoom'[p]} /\ InRooms(t)' = {userRoom'[t]}
            BY <1>1, <2>1, <2>2, <2>3, <2>5 DEF FirstPlace, SecondPlace, Inviting
        <3>. QED BY <1>1, <2>2, <2>3, <2>5, <3>1, <3>2 DEF Led, Keeps
    <2>. QED BY <1>1, <2>4, <2>5
<1>. QED BY <1>2, <1>3

LEMMA MatchPlacesStep ==
    ASSUME Pairing, PlacesInv, NEW t \in User, Continue(t), thread[t].at \in Matching \cup Leaving
    PROVE  (\A u \in User : Stays(u)') /\ MatchPlaces'
<1>1. /\ PairInv /\ LocalsFit /\ match # None /\ t = match.by /\ Waits(t)' /\ MatchStage'
      /\ First \in User
    <2>1. PairInv
        BY PlacesFacts
    <2>. QED BY <2>1, MatchStep, PairFacts DEF Onward
<1>2. PICK p \in User : p = First
    BY <1>1
<1>3. Led(p, t)
    BY <1>1, <1>2, MatchInvites, MatchLeaves, MatchEnters
       DEF Continue, Matching, Leaving, At, Register, Rejoin, HomeEnter, HomeSet, JoinEnter, JoinSet,
           CreateFinish, InviteMemory, InviteDb, KickRemove, KickWhere, DeleteLocked, DeleteDb,
           ByeQueue, ByeLeave, ByeDb, ByeForget
<1>4. \A u \in User \ {t} : thread'[u] = thread[u]
    BY <1>1, OthersStay
<1>5. thread[p].at \in PlayerWaits /\ p # t
    BY <1>1, <1>2, MatchFacts DEF Stage
<1>6. match' # None => /\ match'.by = t /\ match'.pair[1] = p
                       /\ thread'[t].at \in Matching \cup Leaving
    BY <1>1, <1>3 DEF Led, MatchStage, Stage
<1>7. ASSUME NEW u \in User \ {p, t} PROVE Stays(u)'
    <2>1. Stays(u) /\ Keeps(u) /\ thread'[u] = thread[u]
        BY <1>3, <1>4 DEF PlacesInv, Led
    <2>2. ~Plays(u) /\ ~Plays(u)'
        BY <1>1, <1>2, <1>6 DEF Plays, First
    <2>. QED BY <2>1, <2>2, KeptStays
<1>8. Stays(p)'
    <2>1. thread'[p].at \in PlayerWaits
        BY <1>4, <1>5
    <2>2. CASE match' = None
        BY <1>3, <2>1, <2>2 DEF Led, Stays, PlayerWaits
    <2>3. CASE match' # None
        BY <1>6, <2>1, <2>3 DEF Stays, Plays, First, PlayerWaits
    <2>. QED BY <2>2, <2>3
<1>9. Stays(t)'
    <2>1. CASE match' = None
        BY <1>3, <2>1 DEF Led, Stays
    <2>2. CASE match' # None
        BY <1>6, <2>2 DEF Stays, Matching, Leaving, PlayerWaits
    <2>. QED BY <2>1, <2>2
<1>10. MatchPlaces'
    <2>1. CASE match' # None
        BY <1>3, <1>6, <2>1 DEF MatchPlaces, First, Led
    <2>2. CASE match' = None
        BY <2>2 DEF MatchPlaces
    <2>. QED BY <2>1, <2>2
<1>. QED BY <1>7, <1>8, <1>9, <1>10

\* A match begins where both players are at home.
LEMMA MatchBeginsAtHome ==
    ASSUME PlacesInv, NEW t \in User, Matchmake(t)
    PROVE  (\A u \in User : Stays(u)') /\ MatchPlaces'
<1>1. /\ PairInv /\ LocalsFit /\ MatchPlaces /\ queue \in Seq(User)
      /\ match = None /\ rooms' = rooms /\ userRoom' = userRoom
      /\ thread[t].at = "idle" /\ t \notin Range(queue)
      /\ \A u \in User : Stays(u)
    BY PlacesFacts DEF Matchmake, Request, At, LocalsFit, roomVars, PlacesInv
<1>2. \A u \in User : InRooms(u)' = InRooms(u) /\ userRoom'[u] = userRoom[u]
    BY <1>1, SameRoomsMove
<1>3. CASE queue = <<>>
    <2>1. match' = match /\ thread' = thread
        BY <1>3 DEF Matchmake
    <2>. QED BY <1>1, <1>2, <2>1 DEF Stays, Plays, MatchPlaces
<1>4. CASE queue # <<>>
    <2>1. PICK r \in PoolRoom : match' = [by |-> t, pair |-> <<Head(queue), t>>, room |-> r, i |-> 1]
        BY <1>4 DEF Matchmake
    <2>2. match'.by = t /\ match'.pair[1] = Head(queue) /\ match'.i = 1 /\ match'.room = r
        BY <2>1
    <2>3. thread'[t].at = "match.create" /\ \A u \in User \ {t} : thread'[u] = thread[u]
        <3>1. Goto(t, "match.create")
            BY <1>4 DEF Matchmake
        <3>. QED BY <1>1, <3>1, Lands DEF Goto, LocalsFit
    <2>4. Head(queue) \in User /\ Head(queue) # t /\ thread[Head(queue)].at \in PlayerWaits
        <3>1. Head(queue) = queue[1] /\ 1 \in DOMAIN queue
            BY <1>1, <1>4, EmptySeq
        <3>2. Head(queue) \in Range(queue) /\ Head(queue) \in User
            BY <1>1, <3>1 DEF Range
        <3>3. thread[Head(queue)].at \notin Away
            BY <1>1, <3>2 DEF PairInv, QueueIsOfConnected, Away
        <3>4. Fit(thread[Head(queue)], Head(queue), userRoom[Head(queue)], match)
              /\ Waits(Head(queue))
            BY <3>2, PlacesFacts
        <3>. QED BY <1>1, <3>2, <3>3, <3>4
                 DEF Fit, InMatch, Waits, PairLabel, PlayerWaits, Away, Leaving
    <2>5. PICK p \in User : p = Head(queue)
        BY <2>4
    <2>6. InRooms(p) = {userRoom[p]} /\ InRooms(t) = {userRoom[t]}
        BY <1>1, <2>4, <2>5 DEF Stays, Plays, PlayerWaits
    <2>7. ASSUME NEW u \in User PROVE Stays(u)'
        <3>1. CASE u = t
            BY <2>3, <3>1 DEF Stays, PlayerWaits
        <3>2. CASE u # t
            BY <1>1, <1>2, <2>3, <3>2 DEF Stays, Plays
        <3>. QED BY <3>1, <3>2
    <2>8. FirstPlace(p, t)' /\ SecondPlace(t)' /\ LeavesHome(p, t)'
        BY <1>2, <2>2, <2>3, <2>6
           DEF FirstPlace, SecondPlace, LeavesHome, Inviting, BeforeLeave, AfterLeave
    <2>. QED BY <2>2, <2>5, <2>7, <2>8 DEF MatchPlaces, First
<1>. QED BY <1>3, <1>4

LEMMA PlacesInvInit == Init => PlacesInv
<1> SUFFICES ASSUME Init PROVE PlacesInv
    OBVIOUS
<1>1. \A r \in RoomName : Members(r) = {}
    BY DEF Init, RM!Init, Members
<1>2. \A u \in User : InRooms(u) = {}
    BY <1>1 DEF InRooms
<1>3. match = None /\ \A u \in User : userRoom[u] = None /\ thread[u].at = "offline"
    BY DEF Init, Rest
<1>. QED BY <1>2, <1>3, PairInvInit DEF PlacesInv, Stays, MatchPlaces, PlayerWaits

LEMMA PlacesInvStep ==
    ASSUME Pairing, PlacesInv, [Next]_vars
    PROVE  PlacesInv'
<1>1. PairInv'
    BY PairInvStep DEF PlacesInv
<1>2. CASE Crash
    BY <1>2 DEF Pairing, Crash
<1>3. CASE UNCHANGED vars
    <2>1. rooms' = rooms /\ userRoom' = userRoom /\ thread' = thread /\ match' = match
        BY <1>3 DEF vars, roomVars
    <2>2. \A u \in User : Keeps(u)
        BY <2>1, SameRoomsMove DEF Keeps
    <2>3. \A u \in User : Stays(u)'
        BY <2>1, <2>2, KeptStays DEF PlacesInv, Plays, First
    <2>4. MatchPlaces'
        BY <2>1, <2>2, PlacesKept DEF PlacesInv, MatchPlaces, First
    <2>. QED BY <1>1, <2>3, <2>4 DEF PlacesInv
<1>4. ASSUME NEW t \in User, Continue(t) \/ Ask(t) PROVE PlacesInv'
    <2>1. CASE Matchmake(t)
        BY <1>1, <2>1, MatchBeginsAtHome DEF PlacesInv
    <2>2. CASE ~Matchmake(t) /\ thread[t].at \notin Matching \cup Leaving
        BY <1>1, <1>4, <2>2, OtherPlaces DEF PlacesInv
    <2>3. CASE thread[t].at \in Matching \cup Leaving
        <3>1. Ask(t) => At(t, "idle") \/ At(t, "offline")
            BY Zenon DEF Ask, Login, Reconnect, LeaveRoom, Matchmake, Disconnect, InviteUser,
               KickUser, DeleteRoom, JoinRoom, CreateRoom, Request
        <3>2. Continue(t)
            BY <1>4, <2>3, <3>1 DEF At, Matching, Leaving
        <3>. QED BY <1>1, <2>3, <3>2, MatchPlacesStep DEF PlacesInv
    <2>. QED BY <2>1, <2>2, <2>3
<1>. QED BY <1>2, <1>3, <1>4 DEF Next

\* Under the same conditions a client between requests whom no match is moving is in the room user_rooms names and in no other: the
\* join, the write and the leave of _finish_match, made by another client's thread, leave
\* nobody in two rooms or in none (matchmaker.py, service.py).
THEOREM SettledAfterMatches == ASSUME Pairing PROVE Spec => []SettledInOneRoom
<1>1. PlacesInv => SettledInOneRoom
    <2> SUFFICES ASSUME PlacesInv, NEW u \in User, At(u, "idle"), Unmoved(u)
                 PROVE  InRooms(u) = {userRoom[u]}
        BY DEF SettledInOneRoom
    <2>1. ~Plays(u)
        <3>1. match # None => /\ match.by = match.pair[2] /\ match \in Match
            BY PlacesFacts, PairFacts DEF Stage
        <3>2. match # None => DOMAIN match.pair = {1, 2}
            BY <3>1 DEF Match
        <3>. QED BY <3>1, <3>2 DEF Plays, First, Unmoved, Range
    <2>. QED BY <2>1 DEF PlacesInv, Stays, PlayerWaits, At
<1>. QED BY <1>1, PlacesInvInit, PlacesInvStep, PTL DEF Spec

\* And unregister_client leaves nothing of a client that went, though a match may have moved
\* it while it waited for the matchmaker's lock.
THEOREM NoGhostsAfterMatches == ASSUME Pairing PROVE Spec => []NoGhosts
<1>1. PlacesInv => NoGhosts
    <2> SUFFICES ASSUME PlacesInv, NEW u \in User, At(u, "offline")
                 PROVE  /\ userRoom[u] = None
                        /\ \A r \in RoomName : u \notin Members(r) \cup rowMembers[r]
        BY DEF NoGhosts, PlacesInv, PairInv
    <2>1. userRoom[u] = None /\ InRooms(u) = {}
        BY DEF PlacesInv, Stays, At
    <2>2. \A r \in RoomName : u \notin Members(r)
        BY <2>1 DEF InRooms
    <2>. QED BY <2>1, <2>2, RowsNameMembers DEF PlacesInv, PairInv
<1>. QED BY <1>1, PlacesInvInit, PlacesInvStep, PTL DEF Spec
==============================================================================
