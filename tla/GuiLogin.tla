------------------------------- MODULE GuiLogin -------------------------------
(***************************************************************************)
(* The sign-in of the desktop client: LoginWindow on the GUI thread, a     *)
(* TCPWorker on a thread of its own, and the server's handshake at the     *)
(* other end of the socket.  The worker's signals are posted to the GUI    *)
(* thread; stop() waits for the worker, a message box runs the event loop. *)
(***************************************************************************)
EXTENDS Naturals, Sequences

CONSTANTS
    NoToken,
    MaxPackets   \* packets of a handshake, 5 in the code

ASSUME LoginAssumption == MaxPackets \in Nat \ {0} /\ NoToken \notin {"typed", "granted"}

VARIABLES
    window,   \* LoginWindow: busy, completed, token; what the process shows
    dialogs,  \* open message boxes, the innermost first
    gui,      \* what the GUI thread does
    posted,   \* signals posted to the GUI thread, not delivered yet
    worker,   \* TCPController.worker and its thread
    server    \* the server's side of the worker's connection

loginVars == <<window, dialogs, gui, posted, worker, server>>

------------------------------------------------------------------------------
AuthRequest == {"REGISTER", "LOGIN", "RECONNECT"}
Token == {NoToken, "typed", "granted"}   \* typed into the form, or given by the server

Packet == [type : {"AUTH_SUCCESS", "AUTH_FAILED", "SESSION_ACK"}, token : Token]

Signal == {"login_success", "session_restored", "register_success", "login_failed",
           "connection_error", "disconnected", "thread.quit"}

\* started: run() has not begun; created: there is a socket; ended: run() has
\* returned; quit: so has the thread; deleted: so is the QThread.
WorkerAt == {"none", "started", "created", "connecting", "receive", "ended", "quit", "deleted"}

NoWorker == [at |-> "none", socket |-> FALSE, open |-> FALSE, running |-> FALSE, token |-> NoToken]
NewWorker == [NoWorker EXCEPT !.at = "started"]

\* in: packets it has yet to read; out: packets on their way to the worker; logged:
\* it has let the client in and said so.
NewConnection == [open |-> TRUE, in |-> <<>>, out |-> <<>>, logged |-> FALSE, packets |-> 0]

Window == [busy : BOOLEAN, completed : BOOLEAN, token : Token, timer : 0 .. 2,
           shows : {"form", "dashboard", "nothing", "crashed"}, opened : 0 .. 2]
Worker == [at : WorkerAt, socket : BOOLEAN, open : BOOLEAN, running : BOOLEAN, token : Token]
Connection == [open : BOOLEAN, in : Seq(AuthRequest), out : Seq(Packet), logged : BOOLEAN,
               packets : 0 .. MaxPackets]

LoginTypeOK ==
    /\ window \in Window /\ worker \in Worker /\ server \in Connection
    /\ dialogs \in Seq({"registered", "failed"})
    /\ gui \in {"loop", "stop"} \cup AuthRequest
    /\ posted \in Seq(Signal)

LoginInit ==
    /\ window = [busy |-> FALSE, completed |-> FALSE, token |-> NoToken, timer |-> 0,
                 shows |-> "form", opened |-> 0]
    /\ dialogs = <<>> /\ gui = "loop" /\ posted = <<>>
    /\ worker = NoWorker /\ server = NewConnection

Running == window.shows \in {"form", "dashboard"}
Post(signals) == posted' = posted \o signals

------------------------------------------------------------------------------
(* LoginWindow *)

\* Mutant of Submit: without the guard on _busy.
SubmitAgain(request) ==
    /\ gui = "loop" /\ dialogs = <<>> /\ window.shows = "form"
    /\ gui' = request
    /\ window' = [window EXCEPT !.busy = TRUE,
                                !.token = IF request = "RECONNECT" THEN "typed" ELSE @]
    /\ IF worker = NoWorker THEN worker' = NewWorker /\ server' = NewConnection
       ELSE UNCHANGED <<worker, server>>
    /\ UNCHANGED <<dialogs, posted>>

\* _on_submit and TCPController.start, which leaves a thread it has as it is.
Submit(request) ==
    /\ gui = "loop" /\ dialogs = <<>> /\ window.shows = "form"
    /\ ~window.busy /\ ~window.completed
    /\ gui' = request
    /\ window' = [window EXCEPT !.busy = TRUE,
                                !.token = IF request = "RECONNECT" THEN "typed" ELSE @]
    /\ IF worker = NoWorker THEN worker' = NewWorker /\ server' = NewConnection
       ELSE UNCHANGED <<worker, server>>
    /\ UNCHANGED <<dialogs, posted>>

\* Mutant of ResetAfterFailure: the worker is kept for the next attempt.
ResetAfterFailureKeeps(failed) ==
    /\ window' = [window EXCEPT !.busy = FALSE]
    /\ gui' = "loop" /\ dialogs' = <<"failed">> \o dialogs
    /\ worker' = failed

\* _reset_after_failure: _end_request, and stop() up to the wait for the thread.
\* If the QThread has been deleted, thread.quit() raises, which ends the program.
ResetAfterFailure(failed) ==
    IF failed.at = "deleted"
    THEN /\ window' = [window EXCEPT !.busy = FALSE, !.shows = "crashed"]
         /\ worker' = [failed EXCEPT !.running = FALSE, !.open = FALSE]
         /\ UNCHANGED <<gui, dialogs>>
    ELSE /\ window' = [window EXCEPT !.busy = FALSE]
         /\ gui' = "stop"
         /\ worker' = [failed EXCEPT !.running = FALSE, !.open = FALSE]
         /\ UNCHANGED dialogs

\* What is posted, but to the thread: that is posted last.
ToTheForm ==
    IF posted # <<>> /\ posted[Len(posted)] = "thread.quit"
    THEN SubSeq(posted, 1, Len(posted) - 1) ELSE posted

\* The wait is over; then the message box.  Nothing can be delivered to the thread
\* that is no more.
Stopped ==
    /\ gui = "stop" /\ worker.at \in {"none", "ended", "quit"}
    /\ gui' = "loop" /\ worker' = NoWorker
    /\ posted' = ToTheForm
    /\ dialogs' = <<"failed">> \o dialogs
    /\ server' = [server EXCEPT !.open = FALSE, !.in = <<>>, !.out = <<>>, !.logged = FALSE]
    /\ UNCHANGED window

\* The request the GUI thread is about to send, and the worker's token with it.
Asker == IF gui = "RECONNECT" THEN [worker EXCEPT !.token = "typed"] ELSE worker

\* send_raw: with no socket yet, nothing is sent and nobody is told; on one that
\* is connecting, sendall blocks; a dead one raises, at once or at the next send.
SendDropped ==
    /\ gui \in AuthRequest /\ ~worker.socket
    /\ gui' = "loop" /\ worker' = Asker
    /\ UNCHANGED <<window, dialogs, posted, server>>

SendFails ==
    /\ gui \in AuthRequest /\ worker.socket /\ worker.at # "connecting"
    /\ worker.at # "receive" \/ ~server.open
    /\ ResetAfterFailure(Asker)
    /\ UNCHANGED <<posted, server>>

Send ==
    /\ gui \in AuthRequest /\ worker.at = "receive" /\ worker.open
    /\ gui' = "loop" /\ worker' = Asker
    /\ server' = [server EXCEPT !.in = IF server.open THEN Append(@, gui) ELSE @]
    /\ UNCHANGED <<window, dialogs, posted>>

Take == gui = "loop" /\ Running /\ posted # <<>> /\ posted' = Tail(posted)
Delivered == Head(posted)
Ignored == UNCHANGED <<window, dialogs, gui, worker>>

\* on_login_success and on_session_restored: the dashboard opens 400 ms later.
OnLoginSuccess ==
    /\ Take /\ Delivered = "login_success"
    /\ window' = IF window.completed THEN window
                 ELSE [window EXCEPT !.completed = TRUE, !.timer = @ + 1]
    /\ UNCHANGED <<dialogs, gui, worker, server>>

\* Mutant of OnSessionRestored: without the guard on _completed.
OnSessionRestoredAgain ==
    /\ Take /\ Delivered = "session_restored"
    /\ window' = [window EXCEPT !.completed = TRUE, !.timer = IF @ < 2 THEN @ + 1 ELSE @]
    /\ UNCHANGED <<dialogs, gui, worker, server>>

OnSessionRestored ==
    /\ Take /\ Delivered = "session_restored"
    /\ window' = IF window.completed THEN window
                 ELSE [window EXCEPT !.completed = TRUE, !.timer = @ + 1]
    /\ UNCHANGED <<dialogs, gui, worker, server>>

OnRegisterSuccess ==
    /\ Take /\ Delivered = "register_success"
    /\ window' = [window EXCEPT !.busy = FALSE]
    /\ dialogs' = <<"registered">> \o dialogs
    /\ UNCHANGED <<gui, worker, server>>

\* on_login_failed and on_connection_error.
OnFailure ==
    /\ Take /\ Delivered \in {"login_failed", "connection_error"}
    /\ IF window.completed THEN Ignored ELSE ResetAfterFailure(worker)
    /\ UNCHANGED server

OnDisconnected ==
    /\ Take /\ Delivered = "disconnected"
    /\ window' = [window EXCEPT !.busy = IF window.completed THEN @ ELSE FALSE]
    /\ UNCHANGED <<dialogs, gui, worker, server>>

\* The worker's finished signal, connected to QThread.quit.
OnFinished ==
    /\ Take /\ Delivered = "thread.quit"
    /\ worker' = [worker EXCEPT !.at = "quit"]
    /\ UNCHANGED <<window, dialogs, gui, server>>

\* The thread's finished signal, connected to QThread.deleteLater.
ThreadDeleted ==
    /\ gui = "loop" /\ Running /\ worker.at = "quit"
    /\ worker' = [worker EXCEPT !.at = "deleted"]
    /\ UNCHANGED <<window, dialogs, gui, posted, server>>

\* What is posted is delivered before somebody can press the button of a box.
Dismiss ==
    /\ gui = "loop" /\ Running /\ dialogs # <<>> /\ posted = <<>>
    /\ dialogs' = Tail(dialogs)
    /\ UNCHANGED <<window, gui, posted, worker, server>>

\* open_dashboard: the token it shows is the window's, if there is one.
OpenDashboard ==
    /\ gui = "loop" /\ Running /\ window.timer > 0
    /\ window' = [window EXCEPT !.timer = @ - 1, !.shows = "dashboard", !.opened = @ + 1,
                                !.token = IF @ = NoToken THEN worker.token ELSE @]
    /\ UNCHANGED <<dialogs, gui, posted, worker, server>>

\* closeEvent: the process ends with its last window.
CloseWindow ==
    /\ gui = "loop" /\ dialogs = <<>> /\ window.shows = "form"
    /\ window' = [window EXCEPT !.shows = "nothing"]
    /\ worker' = IF window.completed THEN worker
                 ELSE [worker EXCEPT !.running = FALSE, !.open = FALSE]
    /\ UNCHANGED <<dialogs, gui, posted, server>>

------------------------------------------------------------------------------
(* TCPWorker.run *)

CreateSocket ==
    /\ worker.at = "started"
    /\ worker' = [worker EXCEPT !.at = "created", !.socket = TRUE, !.open = TRUE]
    /\ UNCHANGED <<window, dialogs, gui, posted, server>>

ConnectSocket ==
    /\ worker.at = "created" /\ worker.open
    /\ worker' = [worker EXCEPT !.at = "connecting"]
    /\ UNCHANGED <<window, dialogs, gui, posted, server>>

\* running is set whatever stop() made of it.
Connected ==
    /\ worker.at = "connecting" /\ server.open
    /\ worker' = [worker EXCEPT !.at = "receive", !.running = TRUE]
    /\ UNCHANGED <<window, dialogs, gui, posted, server>>

\* Refused, or the socket was closed by stop().
ConnectFails ==
    /\ worker.at = "connecting" \/ (worker.at = "created" /\ ~worker.open)
    /\ worker' = [worker EXCEPT !.at = "ended"]
    /\ Post(<<"connection_error", "thread.quit">>)
    /\ UNCHANGED <<window, dialogs, gui, server>>

\* Mutant of Ending: the end of the connection is not reported.
EndingSilent == <<"thread.quit">>

\* What disconnect() and run() emit at the end.
Ending == <<"disconnected", "thread.quit">>

DisconnectSocket(signals) ==
    /\ worker' = [worker EXCEPT !.at = "ended", !.running = FALSE, !.open = FALSE]
    /\ Post(signals \o Ending)
    /\ UNCHANGED <<window, dialogs, gui, server>>

\* The end of the stream, or a flag or a shutdown by stop().
ReceiveEnd ==
    /\ worker.at = "receive"
    /\ ~worker.running \/ (worker.open /\ ~server.open /\ server.out = <<>>)
    /\ DisconnectSocket(<<>>)

\* stop() closed the socket before run() had set its flag.
ReceiveFails ==
    /\ worker.at = "receive" /\ worker.running /\ ~worker.open
    /\ DisconnectSocket(<<"connection_error">>)

Learnt(packet) == IF packet.token # NoToken THEN packet.token ELSE worker.token

\* handle_packet.  AUTH_SUCCESS stands for a login or a registration, told apart
\* by the token, the packet's or an earlier one.
Emitted(packet) ==
    CASE packet.type = "AUTH_FAILED" -> <<"login_failed">>
      [] packet.type = "AUTH_SUCCESS" /\ Learnt(packet) = NoToken -> <<"register_success">>
      [] OTHER -> <<"login_success", "session_restored">>

Receive ==
    /\ worker.at = "receive" /\ worker.running /\ worker.open /\ server.out # <<>>
    /\ worker' = [worker EXCEPT !.token = Learnt(Head(server.out))]
    /\ Post(Emitted(Head(server.out)))
    /\ server' = [server EXCEPT !.out = Tail(@)]
    /\ UNCHANGED <<window, dialogs, gui>>

------------------------------------------------------------------------------
(* The server's handshake, as in module Sessions *)

Failed == <<[type |-> "AUTH_FAILED", token |-> NoToken]>>
Registered == <<[type |-> "AUTH_SUCCESS", token |-> NoToken]>>
Welcome(token) == <<[type |-> "AUTH_SUCCESS", token |-> token],
                    [type |-> "SESSION_ACK", token |-> token]>>

Accepted(request) ==
    CASE request = "REGISTER" -> Registered
      [] request = "LOGIN" -> Welcome("granted")
      [] request = "RECONNECT" -> Welcome("typed")

\* Mutant of LastPacket: the limit is never met.
LastPacketNever(packets) == FALSE
LastPacket(packets) == packets + 1 = MaxPackets

\* _authenticate: after MaxPackets packets without a login, it gives up.
Answer ==
    /\ server.open /\ server.in # <<>> /\ ~server.logged
    /\ LET request == Head(server.in)
           last == LastPacket(server.packets)
       IN \E accepted \in BOOLEAN :
            LET enters == accepted /\ request # "REGISTER"
            IN server' = [server EXCEPT
                  !.in = Tail(@), !.logged = enters, !.packets = @ + 1,
                  !.open = enters \/ ~last,
                  !.out = @ \o (IF accepted THEN Accepted(request) ELSE Failed)
                            \o (IF last /\ ~enters THEN Failed ELSE <<>>)]
    /\ UNCHANGED <<window, dialogs, gui, posted, worker>>

\* The server ends, or the network does, and what was on its way is lost or not.
ServerCloses ==
    /\ server.open /\ worker # NoWorker
    /\ \/ server' = [server EXCEPT !.open = FALSE, !.in = <<>>]
       \/ server' = [server EXCEPT !.open = FALSE, !.in = <<>>, !.out = <<>>,
                                   !.logged = @ /\ Len(server.out) < Len(Welcome(NoToken))]
    /\ UNCHANGED <<window, dialogs, gui, posted, worker>>

------------------------------------------------------------------------------
\* The window is closed or gone, or the dashboard has taken over and the
\* connection has ended.
Over ==
    /\ \/ ~Running
       \/ window.shows = "dashboard" /\ worker.at = "deleted" /\ posted = <<>>
    /\ UNCHANGED loginVars

GuiStep ==
    \/ Stopped \/ SendDropped \/ SendFails \/ Send
    \/ OnLoginSuccess \/ OnSessionRestored \/ OnRegisterSuccess \/ OnFailure
    \/ OnDisconnected \/ OnFinished \/ ThreadDeleted \/ OpenDashboard

WorkerStep ==
    \/ CreateSocket \/ ConnectSocket \/ Connected \/ ConnectFails
    \/ ReceiveEnd \/ ReceiveFails \/ Receive

LoginNext ==
    \/ \E request \in AuthRequest : Submit(request)
    \/ GuiStep \/ Dismiss \/ CloseWindow
    \/ WorkerStep
    \/ Answer \/ ServerCloses
    \/ Over

\* The event loop, the worker's thread and the server go on; people need not.
LoginFairness == WF_loginVars(GuiStep) /\ WF_loginVars(WorkerStep) /\ WF_loginVars(Answer)

LoginSpec == LoginInit /\ [][LoginNext]_loginVars /\ LoginFairness

------------------------------------------------------------------------------
\* Two packets of a login, two signals of each, one dashboard: login_success and
\* session_restored are both answers of on_login_success's kind.
OpenedOnce == window.opened + window.timer <= 1

\* What the form asks it asks once, and the client is in only if the server let
\* it in: a registration is not taken for a login because of a token the worker
\* has kept (tcp_controller.py:225), nor a late signal for an answer.
SignsIn == INSTANCE SignIn WITH
    phase <- IF window.completed THEN "in" ELSE IF window.busy THEN "asked" ELSE "form",
    granted <- server.logged
SignsInSpec == SignsIn!Spec

\* While the form is free, nothing asked before is still to be answered: what may be
\* on its way is the refusal that ends a handshake of too many packets.
FormIsFree ==
    (gui = "loop" /\ ~window.busy /\ dialogs = <<>> /\ window.shows = "form")
        => server.in = <<>> /\ (server.out = <<>> \/ server.out = Failed)

\* A request the server has got is answered, or the form is told of its end.
SentIsAnswered ==
    server.in # <<>> ~> (~window.busy \/ window.completed \/ ~Running)
==============================================================================
