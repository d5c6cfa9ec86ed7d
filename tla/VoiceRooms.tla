------------------------------ MODULE VoiceRooms ------------------------------
(***************************************************************************)
(* Voice rooms: voice/voice_room.py under the voice handlers of            *)
(* server/service.py, one thread per client.  VoiceRoomManager.lock guards *)
(* the map of rooms and VoiceRoom.lock each room; a thread that has been   *)
(* given a room uses it after the manager's lock is released, when the     *)
(* room may be in the map no longer.                                       *)
(***************************************************************************)
EXTENDS Naturals, FiniteSets

CONSTANTS
    User, RoomName,
    Object,   \* VoiceRoom objects; one nobody refers to is free to be made again
    None,
    Ops       \* requests and events of this instance

ASSUME VoiceAssumption ==
    /\ None \notin Object \cup RoomName
    /\ Ops \subseteq {"status", "leave"}

VARIABLES
    member,  \* members of the text rooms, which RoomManager keeps
    rooms,   \* VoiceRoomManager.rooms
    voice,   \* the participants of each VoiceRoom
    thread

vars == <<member, rooms, voice, thread>>

------------------------------------------------------------------------------
\* A VoiceParticipant: that it is there, and its flags.  Out: it is not there.
Flag == {"in", "muted", "speaking"}
Out == {}
NewParticipant == {"in"}
NewVoiceRoom == [u \in User |-> Out]

Status == {"muted", "unmuted", "speaking", "idle"}

Label == {"gone", "idle", "start.find", "start.remove", "start.get", "start.add",
          "stop.find", "stop.remove", "status.set", "bye.find", "bye.remove"}

\* room: of the packet; old: what user_voice_room returned; object: the VoiceRoom
\* this thread was given; status: of the packet.
Thread == [at : Label, room : RoomName \cup {None}, old : RoomName \cup {None},
           object : Object \cup {None}, status : Status \cup {None}]

Rest(label) == [at |-> label, room |-> None, old |-> None, object |-> None, status |-> None]
At(u, label) == thread[u].at = label
Become(u, local) == thread' = [thread EXCEPT ![u] = local]

In(u, r) == rooms[r] # None /\ voice[rooms[r]][u] # Out

Referred(o) == (\E r \in RoomName : rooms[r] = o) \/ (\E u \in User : thread[u].object = o)

\* user_voice_room returns the first room that has u, or None.
FoundRoom(u) == IF \E r \in RoomName : In(u, r) THEN {r \in RoomName : In(u, r)} ELSE {None}

\* Mutant of RemoveFromRoom: an emptied room stays in the map.
RemoveFromRoomKeeps(r, u) ==
    IF rooms[r] = None THEN UNCHANGED <<rooms, voice>>
    ELSE voice' = [voice EXCEPT ![rooms[r]][u] = Out] /\ UNCHANGED rooms

\* remove_from_room: an emptied room goes.
RemoveFromRoom(r, u) ==
    IF rooms[r] = None THEN UNCHANGED <<rooms, voice>>
    ELSE LET left == [voice[rooms[r]] EXCEPT ![u] = Out] IN
         /\ voice' = [voice EXCEPT ![rooms[r]] = left]
         /\ rooms' = IF left = NewVoiceRoom THEN [rooms EXCEPT ![r] = None] ELSE rooms

------------------------------------------------------------------------------
(* VOICE_START. *)

Start(u, r) ==
    /\ At(u, "idle")
    /\ u \in member[r]
    /\ Become(u, [Rest("start.find") EXCEPT !.room = r])
    /\ UNCHANGED <<member, rooms, voice>>

\* Mutant of StartFind: whatever room the client was in is not left.
StartFindNothing(u) ==
    /\ At(u, "start.find")
    /\ Become(u, [thread[u] EXCEPT !.at = "start.get"])
    /\ UNCHANGED <<member, rooms, voice>>

StartFind(u) ==
    /\ At(u, "start.find")
    /\ \E old \in FoundRoom(u) :
         Become(u, IF old \in {None, thread[u].room}
                   THEN [thread[u] EXCEPT !.at = "start.get"]
                   ELSE [thread[u] EXCEPT !.at = "start.remove", !.old = old])
    /\ UNCHANGED <<member, rooms, voice>>

StartRemove(u) ==
    /\ At(u, "start.remove")
    /\ RemoveFromRoom(thread[u].old, u)
    /\ Become(u, [thread[u] EXCEPT !.at = "start.get", !.old = None])
    /\ UNCHANGED member

\* create_or_get_room.
StartGet(u) ==
    /\ At(u, "start.get")
    /\ LET r == thread[u].room IN
       \E o \in Object :
          /\ IF rooms[r] # None THEN o = rooms[r] /\ UNCHANGED <<rooms, voice>>
             ELSE /\ ~Referred(o)
                  /\ rooms' = [rooms EXCEPT ![r] = o]
                  /\ voice' = [voice EXCEPT ![o] = NewVoiceRoom]
          /\ Become(u, [thread[u] EXCEPT !.at = "start.add", !.object = o])
    /\ UNCHANGED member

\* add_participant on the room this thread was given.
StartAdd(u) ==
    /\ At(u, "start.add")
    /\ voice' = [voice EXCEPT ![thread[u].object][u] = NewParticipant]
    /\ Become(u, Rest("idle"))
    /\ UNCHANGED <<member, rooms>>

------------------------------------------------------------------------------
(* VOICE_STOP, with or without a room, and VOICE_STATUS. *)

Stop(u) ==
    /\ At(u, "idle")
    /\ \/ Become(u, Rest("stop.find"))
       \/ \E r \in RoomName : Become(u, [Rest("stop.remove") EXCEPT !.room = r])
    /\ UNCHANGED <<member, rooms, voice>>

StopFind(u) ==
    /\ At(u, "stop.find")
    /\ \E r \in FoundRoom(u) :
         Become(u, IF r = None THEN Rest("idle") ELSE [Rest("stop.remove") EXCEPT !.room = r])
    /\ UNCHANGED <<member, rooms, voice>>

StopRemove(u) ==
    /\ At(u, "stop.remove")
    /\ RemoveFromRoom(thread[u].room, u)
    /\ Become(u, Rest("idle"))
    /\ UNCHANGED member

VoiceStatus(u, r, s) ==
    /\ "status" \in Ops
    /\ At(u, "idle")
    /\ rooms[r] # None
    /\ Become(u, [Rest("status.set") EXCEPT !.object = rooms[r], !.status = s])
    /\ UNCHANGED <<member, rooms, voice>>

\* set_muted or set_speaking, for a participant.
With(flags, s) ==
    CASE s \in {"muted", "speaking"} -> flags \cup {s}
      [] s = "unmuted" -> flags \ {"muted"}
      [] s = "idle" -> flags \ {"speaking"}

StatusSet(u) ==
    /\ At(u, "status.set")
    /\ LET o == thread[u].object  s == thread[u].status IN
       voice' = [voice EXCEPT ![o][u] = IF @ = Out THEN Out ELSE With(@, s)]
    /\ Become(u, Rest("idle"))
    /\ UNCHANGED <<member, rooms>>

------------------------------------------------------------------------------
(* unregister_client, and a client that comes back. *)

Disconnect(u) ==
    /\ At(u, "idle")
    /\ Become(u, Rest("bye.find"))
    /\ UNCHANGED <<member, rooms, voice>>

ByeFind(u) ==
    /\ At(u, "bye.find")
    /\ \E r \in FoundRoom(u) :
         Become(u, IF r = None THEN Rest("gone") ELSE [Rest("bye.remove") EXCEPT !.room = r])
    /\ UNCHANGED <<member, rooms, voice>>

ByeRemove(u) ==
    /\ At(u, "bye.remove")
    /\ RemoveFromRoom(thread[u].room, u)
    /\ Become(u, Rest("gone"))
    /\ UNCHANGED member

Connect(u) ==
    /\ At(u, "gone")
    /\ Become(u, Rest("idle"))
    /\ UNCHANGED <<member, rooms, voice>>

\* What the room handlers do to membership: the client joins a room; it is taken
\* out of one, by leaving, by a kick, by a deletion or by its disconnection.
JoinText(u, r) ==
    /\ At(u, "idle")
    /\ member' = [member EXCEPT ![r] = @ \cup {u}]
    /\ UNCHANGED <<rooms, voice, thread>>

LeaveText(u, r) ==
    /\ "leave" \in Ops
    /\ u \in member[r]
    /\ member' = [member EXCEPT ![r] = @ \ {u}]
    /\ UNCHANGED <<rooms, voice, thread>>

Init ==
    /\ member = [r \in RoomName |-> {}]
    /\ rooms = [r \in RoomName |-> None]
    /\ voice = [o \in Object |-> NewVoiceRoom]
    /\ thread = [u \in User |-> Rest("gone")]

Step(u) ==
    \/ StartFind(u) \/ StartRemove(u) \/ StartGet(u) \/ StartAdd(u)
    \/ StopFind(u) \/ StopRemove(u) \/ StatusSet(u) \/ ByeFind(u) \/ ByeRemove(u)

Request(u) ==
    \/ Connect(u) \/ Stop(u) \/ Disconnect(u)
    \/ \E r \in RoomName :
         Start(u, r) \/ JoinText(u, r) \/ \E s \in Status : VoiceStatus(u, r, s)

Next ==
    \E u \in User : Step(u) \/ Request(u) \/ \E r \in RoomName : LeaveText(u, r)

Spec == Init /\ [][Next]_vars

------------------------------------------------------------------------------
(* Properties. *)

\* The maps hold values of their kind: set_status leaves flags only on those who
\* are in the voice room.
TypeOK ==
    /\ member \in [RoomName -> SUBSET User]
    /\ rooms \in [RoomName -> Object \cup {None}]
    /\ voice \in [Object -> [User -> {f \in SUBSET Flag : f # Out => "in" \in f}]]
    /\ thread \in [User -> Thread]

\* However joins, stops and departures of several clients interleave, a client
\* is in one voice room at most, and in none when it has gone: the answer of
\* user_voice_room, on which leaving depends, is unique.
OneVoiceRoom ==
    \A u \in User :
        /\ \A r, s \in RoomName : In(u, r) /\ In(u, s) => r = s
        /\ At(u, "gone") => \A r \in RoomName : ~In(u, r)

\* A voice room in the map is empty only while somebody is about to enter it:
\* emptied rooms are not left behind.
NoEmptyVoiceRoom ==
    \A r \in RoomName :
        rooms[r] # None /\ voice[rooms[r]] = NewVoiceRoom =>
            \E u \in User : At(u, "start.add") /\ thread[u].object = rooms[r]
==============================================================================
