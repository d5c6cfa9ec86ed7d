-------------------------------- MODULE Friends --------------------------------
(***************************************************************************)
(* Friend requests and friends: friends/request_handler.py and             *)
(* friends/friend_list.py over the tables friend_requests and friends.     *)
(*                                                                         *)
(* The handlers take no lock and Database.execute commits each statement,  *)
(* so a handler is a sequence of reads and writes and every other client's *)
(* thread may run between two of them.  The look-up of ids is left out:    *)
(* a row of users is never deleted.                                        *)
(***************************************************************************)
EXTENDS FiniteSets

CONSTANTS
    User,
    None,
    Ops    \* requests and events of this instance

Status == {"PENDING", "ACCEPTED", "REJECTED"}

ASSUME FriendsAssumption ==
    /\ None \notin User \cup Status
    /\ Ops \subseteq {"remove", "crash"}

VARIABLES
    request, \* friend_requests.status by sender and receiver, None for no row
    friends, \* the rows of friends: user, friend
    thread

vars == <<request, friends, thread>>

------------------------------------------------------------------------------
Label == {"idle", "add.exists", "add.select", "add.insert", "add.update",
          "accept.update", "accept.first", "accept.second",
          "reject.update", "remove.delete"}

Thread == [at : Label, other : User \cup {None}]

Idle == [at |-> "idle", other |-> None]
At(u, label) == thread[u].at = label
Become(u, local) == thread' = [thread EXCEPT ![u] = local]
Goto(u, label) == thread' = [thread EXCEPT ![u].at = label]
Other(u) == thread[u].other

AreFriends(u, v) == <<u, v>> \in friends
Pending(sender, receiver) == request[sender][receiver] = "PENDING"
SetRequest(sender, receiver, status) ==
    request' = [request EXCEPT ![sender][receiver] = status]

------------------------------------------------------------------------------
(* ADD_FRIEND: send_request and create_friend_request. *)

AddFriend(u, v) ==
    /\ At(u, "idle")
    /\ u # v /\ ~AreFriends(u, v)
    /\ Become(u, [at |-> "add.exists", other |-> v])
    /\ UNCHANGED <<request, friends>>

AddExists(u) ==
    /\ At(u, "add.exists")
    /\ IF Pending(u, Other(u)) THEN Become(u, Idle) ELSE Goto(u, "add.select")
    /\ UNCHANGED <<request, friends>>

AddSelect(u) ==
    /\ At(u, "add.select")
    /\ IF Pending(u, Other(u)) THEN Become(u, Idle)
       ELSE Goto(u, IF request[u][Other(u)] = None THEN "add.insert" ELSE "add.update")
    /\ UNCHANGED <<request, friends>>

AddWrite(u) ==
    /\ At(u, "add.insert") \/ At(u, "add.update")
    /\ SetRequest(u, Other(u), "PENDING")
    /\ Become(u, Idle)
    /\ UNCHANGED friends

------------------------------------------------------------------------------
(* ACCEPT_FRIEND and REJECT_FRIEND: respond_friend_request. *)

\* Mutant of Respond: the request is not looked for.
RespondUnasked(v, u) ==
    /\ At(v, "idle")
    /\ \/ Become(v, [at |-> "accept.update", other |-> u])
       \/ Become(v, [at |-> "reject.update", other |-> u])
    /\ UNCHANGED <<request, friends>>

Respond(v, u) ==
    /\ At(v, "idle")
    /\ Pending(u, v)
    /\ \/ Become(v, [at |-> "accept.update", other |-> u])
       \/ Become(v, [at |-> "reject.update", other |-> u])
    /\ UNCHANGED <<request, friends>>

\* The UPDATE is of a pending row; the friends are added whatever it found.
AcceptUpdate(v) ==
    /\ At(v, "accept.update")
    /\ IF Pending(Other(v), v) THEN SetRequest(Other(v), v, "ACCEPTED") ELSE UNCHANGED request
    /\ Goto(v, "accept.first")
    /\ UNCHANGED friends

AcceptFirst(v) ==
    /\ At(v, "accept.first")
    /\ friends' = friends \cup {<<Other(v), v>>}
    /\ Goto(v, "accept.second")
    /\ UNCHANGED request

AcceptSecond(v) ==
    /\ At(v, "accept.second")
    /\ friends' = friends \cup {<<v, Other(v)>>}
    /\ Become(v, Idle)
    /\ UNCHANGED request

RejectUpdate(v) ==
    /\ At(v, "reject.update")
    /\ IF Pending(Other(v), v) THEN SetRequest(Other(v), v, "REJECTED") ELSE UNCHANGED request
    /\ Become(v, Idle)
    /\ UNCHANGED friends

------------------------------------------------------------------------------
(* REMOVE_FRIEND. *)

RemoveFriend(u, v) ==
    /\ "remove" \in Ops
    /\ At(u, "idle")
    /\ AreFriends(u, v)
    /\ Become(u, [at |-> "remove.delete", other |-> v])
    /\ UNCHANGED <<request, friends>>

RemoveDelete(u) ==
    /\ At(u, "remove.delete")
    /\ friends' = friends \ {<<u, Other(u)>>, <<Other(u), u>>}
    /\ Become(u, Idle)
    /\ UNCHANGED request

Crash ==
    /\ "crash" \in Ops
    /\ thread' = [u \in User |-> Idle]
    /\ UNCHANGED <<request, friends>>

Init ==
    /\ request = [u \in User |-> [v \in User |-> None]]
    /\ friends = {}
    /\ thread = [u \in User |-> Idle]

Step(u) ==
    \/ AddExists(u) \/ AddSelect(u) \/ AddWrite(u)
    \/ AcceptUpdate(u) \/ AcceptFirst(u) \/ AcceptSecond(u) \/ RejectUpdate(u)
    \/ RemoveDelete(u)

Next ==
    \/ \E u \in User :
          Step(u) \/ \E v \in User : AddFriend(u, v) \/ Respond(u, v) \/ RemoveFriend(u, v)
    \/ Crash

Spec == Init /\ [][Next]_vars

------------------------------------------------------------------------------
(* Properties. *)

\* A request has one of the three statuses of its table, and a handler's locals
\* are of their kind.
TypeOK ==
    /\ request \in [User -> [User -> Status \cup {None}]]
    /\ friends \subseteq User \X User
    /\ thread \in [User -> Thread]

\* Removals, crashes and half-finished handlers included, two are only friends
\* when one of them has asked the other, and nobody is a friend of his own.
FriendsWereAsked ==
    \A u, v \in User : AreFriends(u, v) =>
        u # v /\ (request[u][v] # None \/ request[v][u] # None)
==============================================================================
