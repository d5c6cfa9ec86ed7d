------------------------------ MODULE VoiceStream ------------------------------
(***************************************************************************)
(* A voice from one microphone to the others of a voice room: per user, a  *)
(* UDPVoiceController on the GUI thread and, for every join, a             *)
(* UDPVoiceClient with a capture, a sender and a receiver thread of its    *)
(* own; the relay thread of UDPVoiceServer; datagrams that are lost,       *)
(* doubled and reordered on the way.  The relay has a VoiceRoomManager of  *)
(* its own, apart from the one of module VoiceRooms.                       *)
(***************************************************************************)
EXTENDS JitterBuffer

CONSTANTS
    Talker,       \* users with voice
    VoiceRoom, Absent,
    Speakers,     \* who says something
    Listener,     \* whose on_frame_received keeps a jitter buffer, too
    MaxClients,   \* bound on joins
    MaxSaid,      \* bound on frames captured
    MaxFaults,    \* bound on datagrams lost or doubled
    MaxAll        \* bound on the three together, a join counting twice

ASSUME StreamAssumption ==
    /\ Speakers \subseteq Talker /\ Listener \in Talker
    /\ Absent \notin VoiceRoom /\ Absent \notin 1 .. MaxClients
    /\ MaxClients \in Nat /\ MaxSaid \in Nat /\ MaxFaults \in Nat /\ MaxAll \in Nat
    /\ MaxSaid <= MaxSequence + 1

VARIABLES
    controller,   \* user -> UDPVoiceController: _client, _muted; leaving: inside leave()
    clients,      \* the UDPVoiceClients so far
    participant,  \* user -> the room and port the server has, or Absent
    relay,        \* what the server's receive_loop is doing
    net,          \* datagrams on their way
    said,         \* frames captured
    overtaken,    \* frames that a capture thread was about to hand over as its user left
    heard,        \* frames handed to on_frame_received
    faults,
    disturbed     \* a frame was lost, dropped or not meant for the listener, or somebody has left

streamVars == <<controller, clients, participant, relay, net, said, overtaken, heard, faults, disturbed,
                jitterVars>>

------------------------------------------------------------------------------
ClientId == 1 .. MaxClients
Server == 0   \* clients are addressed by their number, as by their port

\* A frame remembers who said it and where, and whether muted.
Frame == [id : 1 .. MaxSaid, by : Talker, said : VoiceRoom, muted : BOOLEAN]

\* A VoicePacket; copy: a second one that the network made.
Datagram == [to : ClientId \cup {Server}, sender : Talker, room : VoiceRoom \cup {Absent},
             sequence : Nat, frame : Frame, copy : BOOLEAN]

\* recording: its AudioCapture; captured: the frame between the test of
\* _on_capture_frame and its call of send_frame; hand: the one between the tests of
\* _send_loop and its sendto.
VoiceClient == [user : Talker, room : VoiceRoom \cup {Absent}, running : BOOLEAN, recording : BOOLEAN,
           sequence : Nat, captured : Frame \cup {Absent}, queue : Seq(Frame),
           hand : Frame \cup {Absent}]

Receiving == [packet |-> Absent, todo |-> {}]

StreamTypeOK ==
    /\ controller \in [Talker -> [client : ClientId \cup {Absent}, muted : BOOLEAN, leaving : BOOLEAN]]
    /\ clients \in Seq(VoiceClient) /\ Len(clients) <= MaxClients
    /\ participant \in [Talker -> [room : VoiceRoom, port : ClientId] \cup {Absent}]
    /\ relay \in [packet : Datagram \cup {Absent}, todo : SUBSET Talker]
    /\ net \subseteq Datagram
    /\ said \in 0 .. MaxSaid /\ overtaken \subseteq 1 .. MaxSaid
    /\ heard \subseteq [by : Talker, room : VoiceRoom, frame : Frame]
    /\ faults \in 0 .. MaxFaults /\ disturbed \in BOOLEAN

StreamInit ==
    /\ controller = [u \in Talker |-> [client |-> Absent, muted |-> FALSE, leaving |-> FALSE]]
    /\ clients = <<>>
    /\ participant = [u \in Talker |-> Absent]
    /\ relay = Receiving /\ net = {}
    /\ said = 0 /\ overtaken = {} /\ heard = {}
    /\ faults = 0 /\ disturbed = FALSE
    /\ JitterInit

HasClient(u) == controller[u].client # Absent
RoomOf(u) == IF HasClient(u) THEN clients[controller[u].client].room ELSE Absent

------------------------------------------------------------------------------
(* UDPVoiceController, on the GUI thread *)

Within(cost) == 2 * Len(clients) + said + faults + cost <= MaxAll

\* join.  (One whose capture fails leaves a client behind that leave() does not find;
\* the server never hears of it, so nothing is sent to it.)
Join(u, room) ==
    /\ ~HasClient(u) /\ Len(clients) < MaxClients /\ Within(2)
    /\ clients' = Append(clients, [user |-> u, room |-> room, running |-> TRUE, recording |-> TRUE,
                                 sequence |-> 0, captured |-> Absent, queue |-> <<>>, hand |-> Absent])
    /\ controller' = [controller EXCEPT ![u] =
           [client |-> Len(clients) + 1, muted |-> FALSE, leaving |-> FALSE]]
    /\ UNCHANGED <<participant, relay, net, said, overtaken, heard, faults, disturbed, jitterVars>>

\* leave: the capture stops and the client leaves its room ...
LeaveRoom(u) ==
    /\ HasClient(u) /\ ~controller[u].leaving
    /\ controller' = [controller EXCEPT ![u].leaving = TRUE]
    /\ LET k == controller[u].client
       IN /\ clients' = [clients EXCEPT ![k].recording = FALSE, ![k].room = Absent]
          /\ overtaken' = IF clients[k].captured = Absent THEN overtaken
                          ELSE overtaken \cup {clients[k].captured.id}
    /\ disturbed' = TRUE
    /\ UNCHANGED <<participant, relay, net, said, heard, faults, jitterVars>>

\* ... and is stopped and forgotten.
Leave(u) ==
    /\ controller[u].leaving
    /\ controller' = [controller EXCEPT ![u] = [client |-> Absent, muted |-> FALSE, leaving |-> FALSE]]
    /\ clients' = [clients EXCEPT ![controller[u].client].running = FALSE]
    /\ IF u = Listener THEN Flush ELSE UNCHANGED jitterVars
    /\ UNCHANGED <<participant, relay, net, said, overtaken, heard, faults, disturbed>>

Mute(u) ==
    /\ u \in Speakers /\ HasClient(u) /\ ~controller[u].leaving
    /\ controller' = [controller EXCEPT ![u].muted = ~@]
    /\ UNCHANGED <<clients, participant, relay, net, said, overtaken, heard, faults, disturbed, jitterVars>>

------------------------------------------------------------------------------
(* The threads of client k *)

\* Mutant of MayHandOver: muted is not asked.
MayHandOverMuted(u) == HasClient(u)

\* The test of _on_capture_frame.
MayHandOver(u) == ~controller[u].muted /\ HasClient(u)

\* _capture_loop and _on_capture_frame up to the call; what is not handed over is gone.
CaptureFrame(k) ==
    /\ clients[k].recording /\ clients[k].captured = Absent
    /\ clients[k].user \in Speakers /\ said < MaxSaid /\ Within(1)
    /\ MayHandOver(clients[k].user)
    /\ said' = said + 1
    /\ clients' = [clients EXCEPT ![k].captured =
           [id |-> said + 1, by |-> clients[k].user, said |-> clients[k].room,
            muted |-> controller[clients[k].user].muted]]
    /\ UNCHANGED <<controller, participant, relay, net, overtaken, heard, faults, disturbed, jitterVars>>

\* send_frame of the client the controller has by now; if none, the thread ends.
SendFrame(k) ==
    /\ clients[k].captured # Absent
    /\ LET now == controller[clients[k].user].client
           handed == [clients EXCEPT ![k].captured = Absent]
       IN clients' = IF now = Absent THEN handed
                    ELSE [handed EXCEPT ![now].queue = Append(@, clients[k].captured)]
    /\ UNCHANGED <<controller, participant, relay, net, said, overtaken, heard, faults, disturbed, jitterVars>>

\* _send_loop takes a frame, and drops it if the client has left its room.
TakeFrame(k) ==
    /\ clients[k].running /\ clients[k].hand = Absent /\ clients[k].queue # <<>>
    /\ clients' = [clients EXCEPT
           ![k].queue = Tail(@),
           ![k].hand = IF clients[k].room = Absent THEN Absent ELSE Head(clients[k].queue)]
    /\ UNCHANGED <<controller, participant, relay, net, said, overtaken, heard, faults, disturbed, jitterVars>>

\* The packet, with the room read once more, and sendto, which fails on a closed socket.
SendDatagram(k) ==
    /\ clients[k].hand # Absent
    /\ IF clients[k].running
       THEN /\ net' = net \cup {[to |-> Server, sender |-> clients[k].user, room |-> clients[k].room,
                                 sequence |-> clients[k].sequence, frame |-> clients[k].hand, copy |-> FALSE]}
            /\ clients' = [clients EXCEPT ![k].hand = Absent, ![k].sequence = @ + 1]
       ELSE /\ clients' = [clients EXCEPT ![k].hand = Absent]
            /\ UNCHANGED net
    /\ UNCHANGED <<controller, participant, relay, said, overtaken, heard, faults, disturbed, jitterVars>>

\* _receive_loop: what is not for the client's room is dropped, and so is what comes
\* after stop().  A handler with a jitter buffer adds the frame to it.
ReceiveFrame(k) ==
    \E d \in net :
        /\ d.to = k
        /\ net' = net \ {d}
        /\ IF clients[k].running /\ d.room = clients[k].room
           THEN /\ heard' = heard \cup {[by |-> clients[k].user, room |-> d.room, frame |-> d.frame]}
                /\ IF clients[k].user = Listener
                   THEN /\ AddFrame(d.sequence)
                        /\ disturbed' = (disturbed \/ ~(Held \subseteq {buffer'[i] : i \in DOMAIN buffer'}))
                   ELSE UNCHANGED <<jitterVars, disturbed>>
           ELSE UNCHANGED <<heard, jitterVars, disturbed>>
        /\ UNCHANGED <<controller, clients, participant, relay, said, overtaken, faults>>

\* The listener's playback.
Play ==
    /\ GetFrame
    /\ UNCHANGED <<controller, clients, participant, relay, net, said, overtaken, heard, faults, disturbed>>

------------------------------------------------------------------------------
(* UDPVoiceServer *)

\* register_client and unregister_client, in the order of the user's VOICE packets.
Register(u) ==
    /\ HasClient(u) /\ ~controller[u].leaving /\ participant[u] = Absent
    /\ participant' = [participant EXCEPT ![u] = [room |-> RoomOf(u), port |-> controller[u].client]]
    /\ UNCHANGED <<controller, clients, relay, net, said, overtaken, heard, faults, disturbed, jitterVars>>

Unregister(u) ==
    /\ participant[u] # Absent /\ participant[u].port # controller[u].client
    /\ participant' = [participant EXCEPT ![u] = Absent]
    /\ UNCHANGED <<controller, clients, relay, net, said, overtaken, heard, faults, disturbed, jitterVars>>

RegisteredIn(room) == {u \in Talker : participant[u] # Absent /\ participant[u].room = room}

Listeners(packet) == RegisteredIn(packet.room) \ {packet.sender}

\* receive_loop and the start of relay_packet: the names are copied.
ServerReceive ==
    /\ relay = Receiving
    /\ \E d \in net :
         /\ d.to = Server
         /\ net' = net \ {d}
         /\ relay' = IF Listeners(d) = {} THEN Receiving ELSE [packet |-> d, todo |-> Listeners(d)]
         /\ disturbed' = (disturbed \/ Listener \notin Listeners(d))
    /\ UNCHANGED <<controller, clients, participant, said, overtaken, heard, faults, jitterVars>>

\* One turn of the loop: each name is looked up again.  (A room that has been emptied
\* and filled anew in between is taken for the same.)
RelayTo(u) ==
    /\ u \in relay.todo
    /\ relay' = IF relay.todo = {u} THEN Receiving ELSE [relay EXCEPT !.todo = @ \ {u}]
    /\ net' = IF u \in RegisteredIn(relay.packet.room)
              THEN net \cup {[relay.packet EXCEPT !.to = participant[u].port]} ELSE net
    /\ UNCHANGED <<controller, clients, participant, said, overtaken, heard, faults, disturbed, jitterVars>>

------------------------------------------------------------------------------
(* The network, which keeps no order *)

Lose ==
    /\ faults < MaxFaults /\ Within(1) /\ faults' = faults + 1
    /\ \E d \in net : net' = net \ {d}
    /\ disturbed' = TRUE
    /\ UNCHANGED <<controller, clients, participant, relay, said, overtaken, heard, jitterVars>>

Double ==
    /\ faults < MaxFaults /\ Within(1) /\ faults' = faults + 1
    /\ \E d \in net : net' = net \cup {[d EXCEPT !.copy = TRUE]}
    /\ UNCHANGED <<controller, clients, participant, relay, said, overtaken, heard, disturbed, jitterVars>>

------------------------------------------------------------------------------
\* Nobody says any more, and nothing is on its way.
Quiet ==
    /\ net = {} /\ relay = Receiving
    /\ \A k \in DOMAIN clients : clients[k].captured = Absent /\ clients[k].hand = Absent
    /\ UNCHANGED streamVars

Threads(k) == CaptureFrame(k) \/ SendFrame(k) \/ TakeFrame(k) \/ SendDatagram(k)

StreamNext ==
    \/ \E u \in Talker : \/ \E room \in VoiceRoom : Join(u, room)
                       \/ LeaveRoom(u) \/ Leave(u) \/ Mute(u)
                       \/ Register(u) \/ Unregister(u) \/ RelayTo(u)
    \/ \E k \in DOMAIN clients : Threads(k) \/ ReceiveFrame(k)
    \/ ServerReceive \/ Play
    \/ Lose \/ Double \/ Quiet

\* Threads and sockets go on; people need not.
StreamFairness ==
    /\ WF_streamVars(\E k \in DOMAIN clients : Threads(k))
    /\ WF_streamVars(\E k \in DOMAIN clients : ReceiveFrame(k))
    /\ WF_streamVars(ServerReceive) /\ WF_streamVars(\E u \in Talker : RelayTo(u))
    /\ WF_streamVars(Play)

StreamSpec == StreamInit /\ [][StreamNext]_streamVars /\ StreamFairness

------------------------------------------------------------------------------
\* What is heard was said in that room, by somebody else, who was not muted: also if
\* either has left and joined another room on the way.  The one exception is a frame
\* in the hands of a capture thread as its user leaves: if the next join is quick, it
\* is said in the next room (udp_voice_controller.py:144).
HeardWhereSaid ==
    \A h \in heard :
        /\ h.by # h.frame.by
        /\ ~h.frame.muted
        /\ h.frame.said = h.room \/ h.frame.id \in overtaken

\* Nothing but a lost datagram, a full buffer, somebody coming late or leaving keeps
\* the listener from playing all it is sent, whatever the order it comes in: the
\* buffer never waits for a frame that will not come.
AllIsPlayed ==
    ~disturbed ~> (disturbed \/ ( /\ \A d \in net : d.to = Server
                                 /\ \A n \in Held : n < next))
==============================================================================
