------------------------------- MODULE Dashboard -------------------------------
(***************************************************************************)
(* The main window of the desktop client: DashboardWindow, RoomSidebar and *)
(* VoiceControls over GuiStateManager, ApplicationModel and                *)
(* UDPVoiceController.  All run on the GUI thread; the current room, the   *)
(* voice state and what the window shows are each kept in several places.  *)
(***************************************************************************)
EXTENDS Naturals, Sequences, FiniteSets

CONSTANTS
    Person,          \* the others
    Room, Global,
    NoName,
    MaxMessages    \* bound on the messages of a session

ASSUME DashboardAssumption ==
    Global \in Room /\ NoName \notin Person \cup Room /\ MaxMessages \in Nat

VARIABLES
    model,     \* ApplicationModel: current_room, rooms, messages
    sidebar,   \* RoomSidebar.current_room
    target,    \* DashboardWindow.private_target
    header,    \* what the header and the input field say a text is sent to
    shown,     \* the messages in the chat area, by their place in model.messages
    voice,     \* VoiceControls and UDPVoiceController
    told,      \* what the server was last told of voice, with VOICE_* packets
    seen       \* messages of others that were on the screen, per room

chat == <<model, sidebar, target, header, shown, seen>>
dashVars == <<chat, voice, told>>

------------------------------------------------------------------------------
\* A Message and the room whose list it is in, if any.
Message == [kind : {"normal", "self", "system", "private"}, room : Room, listed : Room \cup {NoName},
            with : Person \cup {NoName}]

Application == [room : Room, rooms : SUBSET Room, messages : Seq(Message), unread : [Room -> 0 .. MaxMessages]]

DashTypeOK ==
    /\ model \in Application
    /\ sidebar \in Room
    /\ target \in Person \cup {NoName}
    /\ header \in Room \cup Person
    /\ shown \subseteq 1 .. MaxMessages
    /\ voice \in [room : Room, in : BOOLEAN, muted : BOOLEAN, connected : BOOLEAN, held : BOOLEAN]
    /\ told \in [room : Room \cup {NoName}, muted : BOOLEAN]
    /\ seen \in [Room -> 0 .. MaxMessages]

\* The window as its constructor leaves it.
DashInit ==
    /\ model = [room |-> Global, rooms |-> {Global}, messages |-> <<>>, unread |-> [r \in Room |-> 0]]
    /\ sidebar = Global /\ target = NoName /\ header = Global /\ shown = {}
    /\ voice = [room |-> Global, in |-> FALSE, muted |-> FALSE, connected |-> FALSE, held |-> FALSE]
    /\ told = [room |-> NoName, muted |-> FALSE]
    /\ seen = [r \in Room |-> 0]

------------------------------------------------------------------------------
(* ApplicationModel *)

\* Mutant of Listed: a message without a room goes to the current one, private or not.
ListedAnyway(m, room, with) == IF room # NoName THEN room ELSE m.room

\* The room whose list add_message appends to.
Listed(m, room, with) ==
    IF room # NoName THEN room ELSE IF with = NoName THEN m.room ELSE NoName

\* add_message: the message remembers the current room if it has none of its own.
Added(m, kind, room, with) ==
    LET list == Listed(m, room, with)
    IN [m EXCEPT !.messages = Append(@, [kind |-> kind, room |-> IF room # NoName THEN room ELSE m.room,
                                         listed |-> list, with |-> with]),
                 !.rooms = IF list = NoName THEN @ ELSE @ \cup {list}]

\* Lists only grow at the end, so the places of its messages say all about one.
RoomMessages(m, room) ==
    {i \in DOMAIN m.messages :
        IF room \in m.rooms THEN m.messages[i].listed = room ELSE m.messages[i].room = room}

Private(m, other) ==
    {i \in DOMAIN m.messages :
        m.messages[i].with = other /\ m.messages[i].kind \in {"private", "self"}}

OthersIn(m, room) ==
    {i \in DOMAIN m.messages : m.messages[i].listed = room /\ m.messages[i].kind = "normal"}
FromOthers(m, room) == Cardinality(OthersIn(m, room))

\* set_current_room
Current(m, room) == [m EXCEPT !.room = room, !.rooms = @ \cup {room}, !.unread[room] = 0]

------------------------------------------------------------------------------
(* DashboardWindow *)

\* _render_room, once the model is m and the sidebar's room is room.
RenderRoom(m, room) ==
    /\ header' = room
    /\ shown' = RoomMessages(m, room)
    /\ model' = IF room \in m.rooms THEN [m EXCEPT !.unread[room] = 0] ELSE m
    /\ seen' = [seen EXCEPT ![room] = FromOthers(m, room)]

\* _render_private leaves the header as it is.
RenderPrivate(m, other) ==
    /\ shown' = Private(m, other)
    /\ model' = m
    /\ UNCHANGED <<header, seen>>

\* Mutant of RoomMessageAdded: not drawn in private mode.
RoomMessageAddedUnlessPrivate(m, room) ==
    IF room = sidebar /\ target = NoName THEN RenderRoom(m, room)
    ELSE model' = m /\ UNCHANGED <<header, shown, seen>>

\* _on_message_added for a room: drawn if the sidebar is on it.
RoomMessageAdded(m, room) ==
    IF room = sidebar THEN RenderRoom(m, room)
    ELSE model' = m /\ UNCHANGED <<header, shown, seen>>

PrivateMessageAdded(m, other) ==
    IF target = other THEN RenderPrivate(m, other)
    ELSE model' = m /\ UNCHANGED <<header, shown, seen>>

More == Len(model.messages) < MaxMessages
Elsewhere == <<voice, told>>

\* _on_message counts what comes for another room than the model's.
Unread(m, room) == IF room # m.room THEN [m EXCEPT !.unread[room] = @ + 1] ELSE m

OnMessage(room) ==
    /\ More
    /\ RoomMessageAdded(Unread(Added(model, "normal", room, NoName), room), room)
    /\ UNCHANGED <<sidebar, target, Elsewhere>>

\* The echo of what this client wrote to the room it was on.
OnEcho(room) ==
    /\ More
    /\ RoomMessageAdded(Added(model, "self", room, NoName), room)
    /\ UNCHANGED <<sidebar, target, Elsewhere>>

OnSystemMessage(room) ==
    /\ More
    /\ RoomMessageAdded(Added(model, "system", room, NoName), room)
    /\ UNCHANGED <<sidebar, target, Elsewhere>>

OnPrivateMessage(sender) ==
    /\ More
    /\ PrivateMessageAdded(Added(model, "private", NoName, sender), sender)
    /\ UNCHANGED <<sidebar, target, Elsewhere>>

\* send_message in private mode: recorded at once, since the server sends no echo.
SendPrivate ==
    /\ More /\ target # NoName
    /\ PrivateMessageAdded(Added(model, "self", NoName, target), target)
    /\ UNCHANGED <<sidebar, target, Elsewhere>>

\* session_restored, in the model and the sidebar; nothing is drawn.
OnSession(room) ==
    /\ model' = Current(model, room)
    /\ sidebar' = room
    /\ UNCHANGED <<target, header, shown, seen, Elsewhere>>

EnterPrivateMode(other) ==
    /\ target' = other /\ header' = other
    /\ shown' = Private(model, other)
    /\ UNCHANGED <<model, sidebar, seen, Elsewhere>>

\* Mutant of ExitPrivateMode: the room is not drawn again.
ExitPrivateModeOnly ==
    /\ target # NoName /\ target' = NoName
    /\ UNCHANGED <<model, sidebar, header, shown, seen, Elsewhere>>

ExitPrivateMode ==
    /\ target # NoName /\ target' = NoName
    /\ RenderRoom(model, sidebar)
    /\ UNCHANGED <<sidebar, Elsewhere>>

------------------------------------------------------------------------------
(* VoiceControls and UDPVoiceController.  held: the controller's _muted. *)

Joined == [voice EXCEPT !.in = TRUE, !.connected = TRUE, !.muted = FALSE, !.held = FALSE]
\* The devices fail: leave() resets the controller, the room is entered all the same.
JoinedSilent == [voice EXCEPT !.in = TRUE, !.connected = FALSE, !.muted = FALSE, !.held = FALSE]
Left(v) == [v EXCEPT !.in = FALSE, !.connected = FALSE, !.muted = FALSE, !.held = FALSE]

\* start_voice; the server's participant starts unmuted.
StartVoice ==
    /\ ~voice.in
    /\ voice' \in {Joined, JoinedSilent}
    /\ told' = [room |-> voice.room, muted |-> FALSE]
    /\ UNCHANGED chat

StopVoice ==
    /\ voice.in
    /\ voice' = Left(voice)
    /\ told' = IF told.room = voice.room THEN [room |-> NoName, muted |-> FALSE] ELSE told
    /\ UNCHANGED chat

\* Mutant of ToggleMute: the controller is told after the flag was read.
ToggleMuteStale ==
    /\ voice.in
    /\ voice' = [voice EXCEPT !.muted = voice.held, !.held = ~@]
    /\ told' = [told EXCEPT !.muted = voice.held]
    /\ UNCHANGED chat

\* toggle_mute: the controller decides, the button and the server follow.
ToggleMute ==
    /\ voice.in
    /\ voice' = [voice EXCEPT !.muted = ~voice.held, !.held = ~@]
    /\ told' = [told EXCEPT !.muted = ~voice.held]
    /\ UNCHANGED chat

PushToTalk(checked) ==
    /\ voice.in
    /\ voice' = [voice EXCEPT !.muted = ~checked, !.held = ~checked]
    /\ told' = [told EXCEPT !.muted = ~checked]
    /\ UNCHANGED chat

\* VoiceControls.set_room: voice stops in the room that is left.
SetRoom(room) ==
    IF voice.in /\ room # voice.room
    THEN /\ voice' = [Left(voice) EXCEPT !.room = room]
         /\ told' = IF told.room = voice.room THEN [room |-> NoName, muted |-> FALSE] ELSE told
    ELSE voice' = [voice EXCEPT !.room = room] /\ UNCHANGED told

\* A click in the sidebar: _on_room_selected and _on_room_changed.
SelectRoom(room) ==
    /\ room # sidebar
    /\ sidebar' = room /\ target' = NoName
    /\ RenderRoom(Current(model, room), room)
    /\ SetRoom(room)

------------------------------------------------------------------------------
DashNext ==
    \/ \E room \in Room : \/ OnMessage(room) \/ OnEcho(room) \/ OnSystemMessage(room)
                          \/ SelectRoom(room)
    \/ \E u \in Person : \/ OnPrivateMessage(u) \/ EnterPrivateMode(u)
    \/ SendPrivate \/ ExitPrivateMode
    \/ StartVoice \/ StopVoice \/ ToggleMute
    \/ \E checked \in BOOLEAN : PushToTalk(checked)

DashSpec == DashInit /\ [][DashNext]_dashVars

------------------------------------------------------------------------------
\* Out of private mode, the window shows the current room and all of it, and the
\* two copies of the current room agree (room_sidebar.py:139, gui_state_manager.py:74).
ShowsTheRoom ==
    /\ sidebar = model.room
    /\ target = NoName => header = sidebar /\ shown = RoomMessages(model, sidebar)

\* A private message is never drawn among a room's, also where the header has gone
\* back to the room under private mode (dashboard_window.py:289, app_model.py:117).
RoomsShowNothingPrivate ==
    header \in Room => \A i \in shown : model.messages[i].with \in {NoName, target}

\* What others wrote in a room was on the screen or is counted as unread.
UnreadIsExact == \A r \in Room : model.unread[r] + seen[r] = FromOthers(model, r)

\* The server knows where this client is in voice, and whether it is muted, as the
\* controls and the controller do, whatever rooms are chosen meanwhile.
VoiceAsTold ==
    /\ told.room = IF voice.in THEN voice.room ELSE NoName
    /\ voice.room = model.room
    /\ voice.in => told.muted = voice.muted /\ voice.muted = voice.held
==============================================================================
