----------------------------- MODULE Desktop_proofs -----------------------------
(***************************************************************************)
(* Proofs about the desktop client, for any people, rooms, number of       *)
(* packets of a handshake and number of messages: the sign-in (GuiLogin),  *)
(* its abstract specification (SignIn), and the window after it.           *)
(***************************************************************************)
EXTENDS Desktop, FiniteSetTheorems, SequenceTheorems, TLAPS

------------------------------------------------------------------------------
(* The sign-in: what must hold beside its properties for them to be         *)
(* inductive.                                                              *)

Unconnected == {"started", "created", "connecting"}   \* where nothing can have been sent
Finished == {"ended", "quit", "deleted"}            \* where run() has returned

\* One dashboard; while the GUI thread is sending, or waiting for the worker, nothing
\* has been let in.
WindowFits ==
    /\ window.completed => window.busy /\ server.logged /\ gui = "loop"
    /\ window.opened + window.timer = IF window.completed THEN 1 ELSE 0
    /\ window.shows = "dashboard" => window.completed
    /\ gui # "loop" => ~server.logged /\ server.in = <<>>

\* What the server has been asked, or has let in, the form is waiting for.
BusyAsks ==
    /\ server.in # <<>> => window.busy /\ ~window.completed
    /\ server.logged => window.busy
    /\ server.open /\ ~server.logged => server.packets < MaxPackets

\* Packets with a token are those of a login, and the form has been told of the first of
\* them before it can be done.
TokensAreLogins ==
    /\ Running => \A i \in DOMAIN server.out :
          /\ server.out[i].token # NoToken <=> server.logged
          /\ server.out[i].type = "AUTH_FAILED" => server.out[i].token = NoToken
          /\ server.out[i].type = "SESSION_ACK" => server.out[i].token # NoToken
    /\ window.completed => Len(server.out) < 2

WorkerFits ==
    /\ worker.at = "none" => worker = NoWorker
    /\ gui \in AuthRequest => worker.at # "none"
    /\ gui \in AuthRequest => window.busy \/ (~Running /\ worker.at = "deleted")
    /\ gui = "stop" => ~window.busy
    /\ Running /\ gui # "stop" =>
          /\ worker.at \in {"created", "connecting"} => worker.open
          /\ worker.at = "receive" => worker.running /\ worker.open

\* Where the worker must be for the server to have something for it, or from it.
ServerFits == Running =>
    /\ worker.at \in Unconnected =>
          posted = <<>> /\ server.in = <<>> /\ server.out = <<>> /\ ~server.logged
    /\ worker.at \in {"none"} \cup Finished /\ gui # "stop" => server.out = <<>>
    /\ server.in # <<>> => server.open /\ worker.at = "receive" /\ ~server.logged

\* What may be posted, and where.
SignalsFit == Running =>
    /\ \A i \in DOMAIN posted :
          /\ posted[i] \in {"login_success", "session_restored"} => server.logged
          /\ posted[i] \in {"register_success", "login_failed"} => ~server.logged
          /\ posted[i] = "thread.quit" => i = Len(posted)
          /\ posted[i] \in {"connection_error", "disconnected", "thread.quit"} =>
                worker.at \notin Unconnected \cup {"receive"}
          /\ posted[i] = "register_success" =>
                /\ i = 1 /\ gui = "loop" /\ window.busy
                /\ worker.at = "receive" => worker.token = NoToken
    /\ worker.at = "none" /\ posted # <<>> => dialogs # <<>> \/ gui = "stop"

\* A login the form does not know of yet: both packets are on their way, or the first
\* has been posted.
GrantIsTold == Running /\ server.logged /\ ~window.completed =>
    IF posted = <<>> THEN Len(server.out) = 2
    ELSE posted[1] = "login_success" /\ Len(server.out) < 2

\* One request is answered once, and the last of a handshake by a refusal more.
OneAnswer == Running /\ worker.at = "receive" /\ ~server.logged /\ gui # "stop" =>
    LET waiting == window.busy /\ gui = "loop"
        answers == Len(server.out) + Len(posted)
    IN /\ answers <= IF waiting THEN 2 ELSE 1
       /\ server.open => Len(server.in) + answers <= IF waiting THEN 1 ELSE 0

\* A registration is not taken for a login: when its answer comes, the worker has no
\* token.
RegisterHasNoToken == Running =>
    /\ \A i \in DOMAIN server.out : server.out[i].type = "AUTH_SUCCESS" /\ ~server.logged =>
          /\ i = 1 /\ posted = <<>> /\ gui = "loop" /\ window.busy
          /\ worker.token = NoToken
    /\ worker.at \in Unconnected \cup {"receive"} /\ worker.token # NoToken /\ gui # "stop" =>
          window.busy /\ gui # "REGISTER" /\ server.in # <<"REGISTER">>

LoginInv ==
    /\ LoginTypeOK /\ WindowFits /\ BusyAsks /\ TokensAreLogins /\ WorkerFits
    /\ ServerFits /\ SignalsFit /\ GrantIsTold /\ OneAnswer /\ RegisterHasNoToken

(* Updates of records.                                                     *)

LEMMA WindowCompleted ==
    ASSUME NEW w \in Window, NEW completed \in BOOLEAN, NEW timer \in 0 .. 2
    PROVE  [w EXCEPT !.completed = completed, !.timer = timer] \in Window
  BY DEF Window

LEMMA WorkerHalted ==
    ASSUME NEW w \in Worker, w.open = FALSE, w.running = FALSE
    PROVE  [w EXCEPT !.running = FALSE, !.open = FALSE] = w
  BY DEF Worker

LEMMA WorkerStopped ==
    ASSUME NEW w \in Worker
    PROVE  /\ [w EXCEPT !.running = FALSE, !.open = FALSE] \in Worker
           /\ [w EXCEPT !.running = FALSE, !.open = FALSE].at = w.at
           /\ [w EXCEPT !.running = FALSE, !.open = FALSE].token = w.token
  BY DEF Worker

LEMMA WindowOpened ==
    ASSUME NEW w \in Window, NEW token \in Token, NEW timer \in 0 .. 2, NEW opened \in 0 .. 2
    PROVE  [w EXCEPT !.timer = timer, !.shows = "dashboard", !.opened = opened,
                     !.token = token] \in Window
  BY DEF Window

LEMMA AskerFacts ==
    ASSUME LoginTypeOK
    PROVE  /\ Asker \in Worker
           /\ Asker.at = worker.at /\ Asker.socket = worker.socket
           /\ Asker.open = worker.open /\ Asker.running = worker.running
           /\ Asker.token = IF gui = "RECONNECT" THEN "typed" ELSE worker.token
  BY DEF LoginTypeOK, Asker, Worker, Token

\* What is left of what was posted when the worker is waited for: not what was for its
\* thread.
LEMMA ToTheFormFacts ==
    ASSUME LoginTypeOK
    PROVE  /\ ToTheForm \in Seq(Signal)
           /\ DOMAIN ToTheForm \subseteq DOMAIN posted
           /\ \A i \in DOMAIN ToTheForm : ToTheForm[i] = posted[i]
           /\ ToTheForm # <<>> => posted # <<>>
           /\ (\A i \in DOMAIN posted : posted[i] = "thread.quit" => i = Len(posted))
                 => \A i \in DOMAIN ToTheForm : ToTheForm[i] # "thread.quit"
<1>1. /\ posted \in Seq(Signal) /\ Len(posted) \in Nat /\ DOMAIN posted = 1 .. Len(posted)
  BY DEF LoginTypeOK
<1>2. CASE posted # <<>> /\ posted[Len(posted)] = "thread.quit"
  <2>1. ToTheForm = SubSeq(posted, 1, Len(posted) - 1)
    BY <1>2 DEF ToTheForm
  <2>2. Len(posted) >= 1
    BY <1>1, <1>2
  <2>3. /\ ToTheForm \in Seq(Signal) /\ Len(ToTheForm) = Len(posted) - 1
        /\ \A i \in 1 .. Len(posted) - 1 : ToTheForm[i] = posted[i]
    BY <1>1, <2>1, <2>2
  <2>4. DOMAIN ToTheForm = 1 .. Len(posted) - 1
    BY <2>3
  <2>. QED BY <1>1, <1>2, <2>2, <2>3, <2>4
<1>3. CASE ~(posted # <<>> /\ posted[Len(posted)] = "thread.quit")
  <2>1. ToTheForm = posted
    BY <1>3 DEF ToTheForm
  <2>2. posted # <<>> => Len(posted) \in DOMAIN posted
    BY <1>1
  <2>3. posted = <<>> => DOMAIN posted = {}
    BY <1>1
  <2>. QED BY <1>1, <1>3, <2>1, <2>2, <2>3
<1>. QED BY <1>2, <1>3

LEMMA ConnectionClosed ==
    ASSUME NEW c \in Connection, NEW logged \in BOOLEAN, NEW out \in Seq(Packet)
    PROVE  [c EXCEPT !.open = FALSE, !.in = <<>>, !.out = out, !.logged = logged] \in Connection
<1>1. <<>> \in Seq(AuthRequest) /\ FALSE \in BOOLEAN
  OBVIOUS
<1>. QED BY <1>1 DEF Connection

LEMMA TakeFacts ==
    ASSUME LoginTypeOK, Take
    PROVE  /\ gui = "loop" /\ Running
           /\ Len(posted) \in Nat /\ Len(posted) >= 1 /\ DOMAIN posted = 1 .. Len(posted)
           /\ Delivered = posted[1]
           /\ posted' \in Seq(Signal) /\ Len(posted') = Len(posted) - 1
           /\ DOMAIN posted' = 1 .. Len(posted')
           /\ \A i \in DOMAIN posted' : i + 1 \in DOMAIN posted /\ posted'[i] = posted[i + 1]
<1>1. posted \in Seq(Signal) /\ posted # <<>> /\ posted' = Tail(posted)
  BY DEF LoginTypeOK, Take
<1>2. /\ Len(posted) \in Nat /\ Len(posted) >= 1 /\ DOMAIN posted = 1 .. Len(posted)
      /\ Tail(posted) \in Seq(Signal) /\ Len(Tail(posted)) = Len(posted) - 1
      /\ \A i \in 1 .. Len(posted) - 1 : Tail(posted)[i] = posted[i + 1]
  BY <1>1
<1>3. DOMAIN posted' = 1 .. Len(posted')
  BY <1>1, <1>2
<1>4. gui = "loop" /\ Running /\ Delivered = posted[1]
  BY <1>1, <1>2 DEF Take, Delivered
<1>. QED BY <1>1, <1>2, <1>3, <1>4

\* Sequences of two and three written out.
LEMMA OneBeforeTwo ==
    ASSUME NEW a, NEW b, NEW c
    PROVE  <<a>> \o <<b, c>> = <<a, b, c>>
<1>. DEFINE S == {a, b, c}
<1>1. /\ <<a>> \o <<b, c>> \in Seq(S) /\ Len(<<a>> \o <<b, c>>) = 3
      /\ <<a, b, c>> \in Seq(S) /\ Len(<<a, b, c>>) = 3
  OBVIOUS
<1>2. \A i \in 1 .. 3 : (<<a>> \o <<b, c>>)[i] = <<a, b, c>>[i]
  <2>1. (<<a>> \o <<b, c>>)[1] = a
    OBVIOUS
  <2>2. (<<a>> \o <<b, c>>)[2] = b
    OBVIOUS
  <2>3. (<<a>> \o <<b, c>>)[3] = c
    OBVIOUS
  <2>. QED BY <2>1, <2>2, <2>3
<1>. QED BY <1>1, <1>2, SeqEqual

\* A sequence of signals with others after it.
LEMMA PostFacts ==
    ASSUME NEW old \in Seq(Signal), NEW new \in Seq(Signal), NEW all, all = old \o new
    PROVE  /\ all \in Seq(Signal)
           /\ Len(old) \in Nat /\ Len(new) \in Nat /\ Len(all) = Len(old) + Len(new)
           /\ DOMAIN old = 1 .. Len(old) /\ DOMAIN all = 1 .. Len(all)
           /\ \A i \in 1 .. Len(all) :
                 IF i <= Len(old) THEN all[i] = old[i]
                 ELSE i - Len(old) \in 1 .. Len(new) /\ all[i] = new[i - Len(old)]
  OBVIOUS

\* What run() can end with.
Endings == {<<"connection_error", "thread.quit">>, <<"disconnected", "thread.quit">>,
            <<"connection_error", "disconnected", "thread.quit">>}

LEMMA EndingFacts ==
    ASSUME NEW ending \in Endings
    PROVE  /\ ending \in Seq(Signal) /\ Len(ending) \in {2, 3}
           /\ \A i \in 1 .. Len(ending) :
                 /\ ending[i] \in {"connection_error", "disconnected", "thread.quit"}
                 /\ ending[i] = "thread.quit" => i = Len(ending)
<1>1. CASE ending = <<"connection_error", "thread.quit">>
  BY <1>1 DEF Signal
<1>2. CASE ending = <<"disconnected", "thread.quit">>
  BY <1>2 DEF Signal
<1>3. CASE ending = <<"connection_error", "disconnected", "thread.quit">>
  BY <1>3 DEF Signal
<1>. QED BY <1>1, <1>2, <1>3 DEF Endings

\* The worker ends, and says so.
LEMMA EndFacts ==
    ASSUME LoginInv, NEW ending \in Endings, posted' = posted \o ending,
           worker.at \in {"created", "connecting", "receive"}, worker'.at = "ended",
           UNCHANGED <<window, dialogs, gui, server>>
    PROVE  /\ posted' \in Seq(Signal) /\ posted' # <<>>
           /\ posted # <<>> => posted'[1] = posted[1]
           /\ SignalsFit'
<1>1. posted \in Seq(Signal)
  BY DEF LoginInv, LoginTypeOK
<1>2. /\ ending \in Seq(Signal) /\ Len(ending) \in {2, 3}
      /\ \A i \in 1 .. Len(ending) :
            /\ ending[i] \in {"connection_error", "disconnected", "thread.quit"}
            /\ ending[i] = "thread.quit" => i = Len(ending)
  BY EndingFacts
<1>3. /\ posted' \in Seq(Signal)
      /\ Len(posted) \in Nat /\ Len(ending) \in Nat /\ Len(posted') = Len(posted) + Len(ending)
      /\ DOMAIN posted = 1 .. Len(posted) /\ DOMAIN posted' = 1 .. Len(posted')
      /\ \A i \in 1 .. Len(posted') :
            IF i <= Len(posted) THEN posted'[i] = posted[i]
            ELSE i - Len(posted) \in 1 .. Len(ending) /\ posted'[i] = ending[i - Len(posted)]
  BY <1>1, <1>2, PostFacts
<1>4. posted' # <<>>
  <2>1. Len(posted') # 0
    BY <1>2, <1>3
  <2>. QED BY <2>1, <1>3
<1>5. posted # <<>> => posted'[1] = posted[1]
  <2>1. posted # <<>> => Len(posted) >= 1
    BY <1>1
  <2>. QED BY <2>1, <1>2, <1>3
<1>6. ASSUME Running, NEW i \in DOMAIN posted
      PROVE  /\ posted[i] \in {"login_success", "session_restored"} => server.logged
             /\ posted[i] \in {"register_success", "login_failed"} => ~server.logged
             /\ posted[i] \notin {"connection_error", "disconnected", "thread.quit"}
             /\ posted[i] = "register_success" => i = 1 /\ gui = "loop" /\ window.busy
  <2>1. worker.at \in Unconnected => posted = <<>>
    BY <1>6 DEF LoginInv, ServerFits
  <2>2. worker.at = "receive"
    <3>1. i \in 1 .. Len(posted)
      BY <1>3
    <3>2. posted # <<>>
      BY <3>1, <1>1
    <3>. QED BY <3>2, <2>1 DEF Unconnected
  <2>. QED BY <1>6, <2>2 DEF LoginInv, SignalsFit
<1>7. ASSUME Running', NEW i \in DOMAIN posted'
      PROVE  /\ posted'[i] \in {"login_success", "session_restored"} => server'.logged
             /\ posted'[i] \in {"register_success", "login_failed"} => ~server'.logged
             /\ posted'[i] = "thread.quit" => i = Len(posted')
             /\ posted'[i] = "register_success" => i = 1 /\ gui' = "loop" /\ window'.busy
  <2>0. Running /\ i \in 1 .. Len(posted')
    BY <1>7, <1>3 DEF Running
  <2>1. CASE i <= Len(posted)
    <3>1. i \in DOMAIN posted /\ posted'[i] = posted[i]
      BY <2>0, <2>1, <1>3
    <3>. QED BY <2>0, <3>1, <1>6
  <2>2. CASE ~(i <= Len(posted))
    <3>1. /\ posted'[i] \in {"connection_error", "disconnected", "thread.quit"}
          /\ posted'[i] = "thread.quit" => i - Len(posted) = Len(ending)
      BY <2>0, <2>2, <1>2, <1>3
    <3>2. posted'[i] = "thread.quit" => i = Len(posted')
      BY <2>0, <3>1, <1>3
    <3>. QED BY <3>1, <3>2
  <2>. QED BY <2>1, <2>2
<1>8. SignalsFit'
  BY <1>7 DEF SignalsFit, Unconnected
<1>. QED BY <1>3, <1>4, <1>5, <1>8

LEMMA SmallSum ==
    ASSUME NEW a \in Nat, NEW b \in Nat, NEW c \in Nat, a + (b + c) <= 1, a # 0
    PROVE  a = 1 /\ b = 0 /\ c = 0
  OBVIOUS

LEMMA OneMore ==
    ASSUME NEW a, NEW b \in Nat, NEW c \in Nat, a = 1, b + c <= 0
    PROVE  a + (b + c) <= 1
  OBVIOUS

\* While a request is on its way, nothing else is.
LEMMA AskedAlone ==
    ASSUME LoginInv, Running, server.in # <<>>
    PROVE  posted = <<>> /\ server.out = <<>> /\ Len(server.in) = 1
<1>1. /\ worker.at = "receive" /\ ~server.logged /\ server.open /\ gui = "loop"
  BY DEF LoginInv, ServerFits, WindowFits
<1>2. /\ server.in \in Seq(AuthRequest) /\ server.out \in Seq(Packet) /\ posted \in Seq(Signal)
      /\ Len(server.in) \in Nat /\ Len(server.out) \in Nat /\ Len(posted) \in Nat
  BY DEF LoginInv, LoginTypeOK, Connection
<1>3. window.busy
  BY DEF LoginInv, BusyAsks
<1>4. Len(server.in) + (Len(server.out) + Len(posted)) <= 1
  BY <1>1, <1>3 DEF LoginInv, OneAnswer
<1>5. Len(server.in) # 0
  BY <1>2
<1>6. Len(server.in) = 1 /\ Len(server.out) = 0 /\ Len(posted) = 0
  BY <1>2, <1>4, <1>5, SmallSum
<1>. QED BY <1>2, <1>6

\* What is delivered first, and what it says of the server.
LEMMA HeadFacts ==
    ASSUME LoginInv, Running, posted # <<>>
    PROVE  /\ server.in = <<>>
           /\ server.logged /\ ~window.completed =>
                 posted[1] = "login_success" /\ Len(server.out) < 2
           /\ posted[1] \in {"login_success", "session_restored"} => server.logged /\ window.busy
           /\ posted[1] \in {"register_success", "login_failed"} => ~server.logged
           /\ posted[1] = "register_success" => window.busy /\ ~window.completed
<1>1. posted \in Seq(Signal) /\ 1 \in DOMAIN posted
  BY DEF LoginInv, LoginTypeOK
<1>2. server.in = <<>>
  BY AskedAlone
<1>3. server.logged /\ ~window.completed => posted[1] = "login_success" /\ Len(server.out) < 2
  BY DEF LoginInv, GrantIsTold
<1>4. posted[1] \in {"login_success", "session_restored"} => server.logged /\ window.busy
  BY <1>1 DEF LoginInv, SignalsFit, BusyAsks
<1>5. posted[1] \in {"register_success", "login_failed"} => ~server.logged
  BY <1>1 DEF LoginInv, SignalsFit
<1>6. posted[1] = "register_success" => window.busy /\ ~window.completed
  BY <1>1, <1>5 DEF LoginInv, SignalsFit, WindowFits
<1>. QED BY <1>2, <1>3, <1>4, <1>5, <1>6

LEMMA OnLoginSuccessInv ==
    ASSUME LoginAssumption, LoginInv, OnLoginSuccess
    PROVE  LoginInv'
<1>. USE LoginAssumption DEF OnLoginSuccess, Running, Unconnected, Finished, NoWorker, AuthRequest, Token, Take, Delivered
<1>0. /\ gui = "loop" /\ Running
      /\ Len(posted) \in Nat /\ Len(posted) >= 1 /\ DOMAIN posted = 1 .. Len(posted)
      /\ posted[1] = Delivered
      /\ posted' \in Seq(Signal) /\ Len(posted') = Len(posted) - 1
      /\ DOMAIN posted' = 1 .. Len(posted')
      /\ \A i \in DOMAIN posted' : i + 1 \in DOMAIN posted /\ posted'[i] = posted[i + 1]
  BY TakeFacts DEF LoginInv, OnLoginSuccess
<1>1. LoginTypeOK'
  <2>1. window' \in Window
    <3>1. CASE window.completed
      BY <3>1 DEF LoginInv, LoginTypeOK
    <3>2. CASE ~window.completed
      <4>1. window \in Window /\ window.timer = 0
        BY <3>2 DEF LoginInv, LoginTypeOK, WindowFits, Window
      <4>2. window' = [window EXCEPT !.completed = TRUE, !.timer = 1]
        BY <3>2, <4>1
      <4>3. [window EXCEPT !.completed = TRUE, !.timer = 1] \in Window
        <5>1. TRUE \in BOOLEAN /\ 1 \in 0 .. 2
          OBVIOUS
        <5>. QED BY <4>1, <5>1, WindowCompleted
      <4>. QED BY <4>2, <4>3
    <3>. QED BY <3>1, <3>2
  <2>2. posted' \in Seq(Signal)
    BY <1>0
  <2>3. dialogs' \in Seq({"registered", "failed"}) /\ gui' \in {"loop", "stop"} \cup AuthRequest
    BY DEF LoginInv, LoginTypeOK
  <2>4. worker' \in Worker
    BY DEF LoginInv, LoginTypeOK, Worker, WorkerAt
  <2>. QED BY <2>1, <2>2, <2>3, <2>4 DEF LoginInv, LoginTypeOK
<1>2. WindowFits'
  <2>1. server.logged /\ window.busy /\ server.in = <<>>
    BY <1>0, HeadFacts
  <2>2. ~window.completed => window.opened + window.timer = 0
    BY DEF LoginInv, WindowFits
  <2>. QED BY <1>0, <2>1, <2>2 DEF LoginInv, LoginTypeOK, Window, WindowFits
<1>3. BusyAsks'
  <2>1. server.logged /\ window.busy /\ server.in = <<>>
    BY <1>0, HeadFacts
  <2>. QED BY <1>0, <2>1 DEF LoginInv, LoginTypeOK, Window, BusyAsks
<1>4. TokensAreLogins'
  <2>1. ~window.completed => Len(server.out) < 2
    BY <1>0, HeadFacts
  <2>. QED BY <2>1 DEF LoginInv, TokensAreLogins
<1>5. WorkerFits'
  BY DEF LoginInv, LoginTypeOK, Window, Worker, Connection, WorkerFits, WindowFits, BusyAsks
<1>6. ServerFits'
  BY DEF LoginInv, LoginTypeOK, Window, Worker, Connection, ServerFits, WindowFits, WorkerFits
<1>7. SignalsFit'
  <2>1. ASSUME NEW i \in DOMAIN posted', Running'
        PROVE  /\ posted'[i] \in {"login_success", "session_restored"} => server'.logged
               /\ posted'[i] \in {"register_success", "login_failed"} => ~server'.logged
               /\ posted'[i] = "thread.quit" => i = Len(posted')
               /\ posted'[i] \in {"connection_error", "disconnected", "thread.quit"} =>
                     worker'.at \notin Unconnected \cup {"receive"}
               /\ posted'[i] # "register_success"
    <3>1. i + 1 \in DOMAIN posted /\ posted'[i] = posted[i + 1] /\ i + 1 # 1
      BY <1>0
    <3>. QED BY <1>0, <2>1, <3>1 DEF LoginInv, LoginTypeOK, SignalsFit, Worker, Window
  <2>2. Running' /\ worker'.at = "none" /\ posted' # <<>> => dialogs' # <<>> \/ gui' = "stop"
    BY <1>0 DEF LoginInv, LoginTypeOK, SignalsFit, WorkerFits, Worker, Window
  <2>. QED BY <2>1, <2>2 DEF SignalsFit
<1>8. GrantIsTold'
  BY DEF LoginInv, LoginTypeOK, Window, Worker, Connection, GrantIsTold, SignalsFit, WindowFits, ServerFits
<1>9. OneAnswer'
  BY DEF LoginInv, LoginTypeOK, Window, Worker, Connection, OneAnswer, ServerFits, WorkerFits, WindowFits
<1>10. RegisterHasNoToken'
  BY DEF LoginInv, LoginTypeOK, Window, Worker, Connection, RegisterHasNoToken, SignalsFit, ServerFits, WorkerFits
<1>. QED BY <1>1, <1>2, <1>3, <1>4, <1>5, <1>6, <1>7, <1>8, <1>9, <1>10 DEF LoginInv

LEMMA OnSessionRestoredInv ==
    ASSUME LoginAssumption, LoginInv, OnSessionRestored
    PROVE  LoginInv'
<1>. USE LoginAssumption DEF OnSessionRestored, Running, Unconnected, Finished, NoWorker, AuthRequest, Token, Take, Delivered
<1>0. /\ gui = "loop" /\ Running
      /\ Len(posted) \in Nat /\ Len(posted) >= 1 /\ DOMAIN posted = 1 .. Len(posted)
      /\ posted[1] = Delivered
      /\ posted' \in Seq(Signal) /\ Len(posted') = Len(posted) - 1
      /\ DOMAIN posted' = 1 .. Len(posted')
      /\ \A i \in DOMAIN posted' : i + 1 \in DOMAIN posted /\ posted'[i] = posted[i + 1]
  BY TakeFacts DEF LoginInv, OnSessionRestored
<1>1. LoginTypeOK'
  <2>1. window' \in Window
    <3>1. CASE window.completed
      BY <3>1 DEF LoginInv, LoginTypeOK
    <3>2. CASE ~window.completed
      <4>1. window \in Window /\ window.timer = 0
        BY <3>2 DEF LoginInv, LoginTypeOK, WindowFits, Window
      <4>2. window' = [window EXCEPT !.completed = TRUE, !.timer = 1]
        BY <3>2, <4>1
      <4>3. [window EXCEPT !.completed = TRUE, !.timer = 1] \in Window
        <5>1. TRUE \in BOOLEAN /\ 1 \in 0 .. 2
          OBVIOUS
        <5>. QED BY <4>1, <5>1, WindowCompleted
      <4>. QED BY <4>2, <4>3
    <3>. QED BY <3>1, <3>2
  <2>2. posted' \in Seq(Signal)
    BY <1>0
  <2>3. dialogs' \in Seq({"registered", "failed"}) /\ gui' \in {"loop", "stop"} \cup AuthRequest
    BY DEF LoginInv, LoginTypeOK
  <2>4. worker' \in Worker
    BY DEF LoginInv, LoginTypeOK, Worker, WorkerAt
  <2>. QED BY <2>1, <2>2, <2>3, <2>4 DEF LoginInv, LoginTypeOK
<1>2. WindowFits'
  <2>1. server.logged /\ window.busy /\ server.in = <<>>
    BY <1>0, HeadFacts
  <2>2. ~window.completed => window.opened + window.timer = 0
    BY DEF LoginInv, WindowFits
  <2>. QED BY <1>0, <2>1, <2>2 DEF LoginInv, LoginTypeOK, Window, WindowFits
<1>3. BusyAsks'
  <2>1. server.logged /\ window.busy /\ server.in = <<>>
    BY <1>0, HeadFacts
  <2>. QED BY <1>0, <2>1 DEF LoginInv, LoginTypeOK, Window, BusyAsks
<1>4. TokensAreLogins'
  <2>1. ~window.completed => Len(server.out) < 2
    BY <1>0, HeadFacts
  <2>. QED BY <2>1 DEF LoginInv, TokensAreLogins
<1>5. WorkerFits'
  BY DEF LoginInv, LoginTypeOK, Window, Worker, Connection, WorkerFits, WindowFits, BusyAsks
<1>6. ServerFits'
  BY DEF LoginInv, LoginTypeOK, Window, Worker, Connection, ServerFits, WindowFits, WorkerFits
<1>7. SignalsFit'
  <2>1. ASSUME NEW i \in DOMAIN posted', Running'
        PROVE  /\ posted'[i] \in {"login_success", "session_restored"} => server'.logged
               /\ posted'[i] \in {"register_success", "login_failed"} => ~server'.logged
               /\ posted'[i] = "thread.quit" => i = Len(posted')
               /\ posted'[i] \in {"connection_error", "disconnected", "thread.quit"} =>
                     worker'.at \notin Unconnected \cup {"receive"}
               /\ posted'[i] # "register_success"
    <3>1. i + 1 \in DOMAIN posted /\ posted'[i] = posted[i + 1] /\ i + 1 # 1
      BY <1>0
    <3>. QED BY <1>0, <2>1, <3>1 DEF LoginInv, LoginTypeOK, SignalsFit, Worker, Window
  <2>2. Running' /\ worker'.at = "none" /\ posted' # <<>> => dialogs' # <<>> \/ gui' = "stop"
    BY <1>0 DEF LoginInv, LoginTypeOK, SignalsFit, WorkerFits, Worker, Window
  <2>. QED BY <2>1, <2>2 DEF SignalsFit
<1>8. GrantIsTold'
  BY DEF LoginInv, LoginTypeOK, Window, Worker, Connection, GrantIsTold, SignalsFit, WindowFits, ServerFits
<1>9. OneAnswer'
  BY DEF LoginInv, LoginTypeOK, Window, Worker, Connection, OneAnswer, ServerFits, WorkerFits, WindowFits
<1>10. RegisterHasNoToken'
  BY DEF LoginInv, LoginTypeOK, Window, Worker, Connection, RegisterHasNoToken, SignalsFit, ServerFits, WorkerFits
<1>. QED BY <1>1, <1>2, <1>3, <1>4, <1>5, <1>6, <1>7, <1>8, <1>9, <1>10 DEF LoginInv

LEMMA OnRegisterSuccessInv ==
    ASSUME LoginAssumption, LoginInv, OnRegisterSuccess
    PROVE  LoginInv'
<1>. USE LoginAssumption DEF OnRegisterSuccess, Running, Unconnected, Finished, NoWorker, AuthRequest, Token, Take, Delivered
<1>0. /\ gui = "loop" /\ Running
      /\ Len(posted) \in Nat /\ Len(posted) >= 1 /\ DOMAIN posted = 1 .. Len(posted)
      /\ posted[1] = Delivered
      /\ posted' \in Seq(Signal) /\ Len(posted') = Len(posted) - 1
      /\ DOMAIN posted' = 1 .. Len(posted')
      /\ \A i \in DOMAIN posted' : i + 1 \in DOMAIN posted /\ posted'[i] = posted[i + 1]
  BY TakeFacts DEF LoginInv, OnRegisterSuccess
<1>1. LoginTypeOK'
  <2>1. window' \in Window
    BY DEF LoginInv, LoginTypeOK, Window, WindowFits
  <2>2. posted' \in Seq(Signal)
    BY <1>0
  <2>3. dialogs' \in Seq({"registered", "failed"}) /\ gui' \in {"loop", "stop"} \cup AuthRequest
    BY DEF LoginInv, LoginTypeOK
  <2>4. worker' \in Worker
    BY DEF LoginInv, LoginTypeOK, Worker, WorkerAt
  <2>. QED BY <2>1, <2>2, <2>3, <2>4 DEF LoginInv, LoginTypeOK
<1>2. WindowFits'
  <2>1. ~window.completed
    BY <1>0, HeadFacts
  <2>. QED BY <1>0, <2>1 DEF LoginInv, LoginTypeOK, Window, WindowFits
<1>3. BusyAsks'
  <2>1. ~server.logged /\ server.in = <<>>
    BY <1>0, HeadFacts
  <2>. QED BY <2>1 DEF LoginInv, BusyAsks
<1>4. TokensAreLogins'
  BY DEF LoginInv, LoginTypeOK, Window, Worker, Connection, TokensAreLogins, ServerFits
<1>5. WorkerFits'
  BY DEF LoginInv, LoginTypeOK, Window, Worker, Connection, WorkerFits, WindowFits, BusyAsks
<1>6. ServerFits'
  BY DEF LoginInv, LoginTypeOK, Window, Worker, Connection, ServerFits, WindowFits, WorkerFits
<1>7. SignalsFit'
  <2>1. ASSUME NEW i \in DOMAIN posted', Running'
        PROVE  /\ posted'[i] \in {"login_success", "session_restored"} => server'.logged
               /\ posted'[i] \in {"register_success", "login_failed"} => ~server'.logged
               /\ posted'[i] = "thread.quit" => i = Len(posted')
               /\ posted'[i] \in {"connection_error", "disconnected", "thread.quit"} =>
                     worker'.at \notin Unconnected \cup {"receive"}
               /\ posted'[i] # "register_success"
    <3>1. i + 1 \in DOMAIN posted /\ posted'[i] = posted[i + 1] /\ i + 1 # 1
      BY <1>0
    <3>. QED BY <1>0, <2>1, <3>1 DEF LoginInv, LoginTypeOK, SignalsFit, Worker, Window
  <2>2. Running' /\ worker'.at = "none" /\ posted' # <<>> => dialogs' # <<>> \/ gui' = "stop"
    BY <1>0 DEF LoginInv, LoginTypeOK, SignalsFit, WorkerFits, Worker, Window
  <2>. QED BY <2>1, <2>2 DEF SignalsFit
<1>8. GrantIsTold'
  BY DEF LoginInv, LoginTypeOK, Window, Worker, Connection, GrantIsTold, SignalsFit, WindowFits, ServerFits
<1>9. OneAnswer'
  BY DEF LoginInv, LoginTypeOK, Window, Worker, Connection, OneAnswer, ServerFits, WorkerFits, WindowFits
<1>10. RegisterHasNoToken'
  BY DEF LoginInv, LoginTypeOK, Window, Worker, Connection, RegisterHasNoToken, SignalsFit, ServerFits, WorkerFits
<1>. QED BY <1>1, <1>2, <1>3, <1>4, <1>5, <1>6, <1>7, <1>8, <1>9, <1>10 DEF LoginInv

LEMMA OnDisconnectedInv ==
    ASSUME LoginAssumption, LoginInv, OnDisconnected
    PROVE  LoginInv'
<1>. USE LoginAssumption DEF OnDisconnected, Running, Unconnected, Finished, NoWorker, AuthRequest, Token, Take, Delivered
<1>0. /\ gui = "loop" /\ Running
      /\ Len(posted) \in Nat /\ Len(posted) >= 1 /\ DOMAIN posted = 1 .. Len(posted)
      /\ posted[1] = Delivered
      /\ posted' \in Seq(Signal) /\ Len(posted') = Len(posted) - 1
      /\ DOMAIN posted' = 1 .. Len(posted')
      /\ \A i \in DOMAIN posted' : i + 1 \in DOMAIN posted /\ posted'[i] = posted[i + 1]
  BY TakeFacts DEF LoginInv, OnDisconnected
<1>1. LoginTypeOK'
  <2>1. window' \in Window
    BY DEF LoginInv, LoginTypeOK, Window, WindowFits
  <2>2. posted' \in Seq(Signal)
    BY <1>0
  <2>3. dialogs' \in Seq({"registered", "failed"}) /\ gui' \in {"loop", "stop"} \cup AuthRequest
    BY DEF LoginInv, LoginTypeOK
  <2>4. worker' \in Worker
    BY DEF LoginInv, LoginTypeOK, Worker, WorkerAt
  <2>. QED BY <2>1, <2>2, <2>3, <2>4 DEF LoginInv, LoginTypeOK
<1>2. WindowFits'
  BY DEF LoginInv, LoginTypeOK, Window, Worker, Connection, WindowFits, BusyAsks, WorkerFits
<1>3. BusyAsks'
  <2>1. (server.logged => window.completed) /\ server.in = <<>>
    BY <1>0, HeadFacts
  <2>. QED BY <2>1 DEF LoginInv, LoginTypeOK, Window, BusyAsks
<1>4. TokensAreLogins'
  BY DEF LoginInv, LoginTypeOK, Window, Worker, Connection, TokensAreLogins, ServerFits
<1>5. WorkerFits'
  BY DEF LoginInv, LoginTypeOK, Window, Worker, Connection, WorkerFits, WindowFits, BusyAsks
<1>6. ServerFits'
  BY DEF LoginInv, LoginTypeOK, Window, Worker, Connection, ServerFits, WindowFits, WorkerFits
<1>7. SignalsFit'
  <2>1. ASSUME NEW i \in DOMAIN posted', Running'
        PROVE  /\ posted'[i] \in {"login_success", "session_restored"} => server'.logged
               /\ posted'[i] \in {"register_success", "login_failed"} => ~server'.logged
               /\ posted'[i] = "thread.quit" => i = Len(posted')
               /\ posted'[i] \in {"connection_error", "disconnected", "thread.quit"} =>
                     worker'.at \notin Unconnected \cup {"receive"}
               /\ posted'[i] # "register_success"
    <3>1. i + 1 \in DOMAIN posted /\ posted'[i] = posted[i + 1] /\ i + 1 # 1
      BY <1>0
    <3>. QED BY <1>0, <2>1, <3>1 DEF LoginInv, LoginTypeOK, SignalsFit, Worker, Window
  <2>2. Running' /\ worker'.at = "none" /\ posted' # <<>> => dialogs' # <<>> \/ gui' = "stop"
    BY <1>0 DEF LoginInv, LoginTypeOK, SignalsFit, WorkerFits, Worker, Window
  <2>. QED BY <2>1, <2>2 DEF SignalsFit
<1>8. GrantIsTold'
  BY DEF LoginInv, LoginTypeOK, Window, Worker, Connection, GrantIsTold, SignalsFit, WindowFits, ServerFits
<1>9. OneAnswer'
  BY DEF LoginInv, LoginTypeOK, Window, Worker, Connection, OneAnswer, ServerFits, WorkerFits, WindowFits
<1>10. RegisterHasNoToken'
  BY DEF LoginInv, LoginTypeOK, Window, Worker, Connection, RegisterHasNoToken, SignalsFit, ServerFits, WorkerFits
<1>. QED BY <1>1, <1>2, <1>3, <1>4, <1>5, <1>6, <1>7, <1>8, <1>9, <1>10 DEF LoginInv

LEMMA OnFinishedInv ==
    ASSUME LoginAssumption, LoginInv, OnFinished
    PROVE  LoginInv'
<1>. USE LoginAssumption DEF OnFinished, WorkerAt, Running, Unconnected, Finished, NoWorker, AuthRequest, Token, Take, Delivered
<1>0. /\ gui = "loop" /\ Running
      /\ Len(posted) \in Nat /\ Len(posted) >= 1 /\ DOMAIN posted = 1 .. Len(posted)
      /\ posted[1] = Delivered
      /\ posted' \in Seq(Signal) /\ Len(posted') = Len(posted) - 1
      /\ DOMAIN posted' = 1 .. Len(posted')
      /\ \A i \in DOMAIN posted' : i + 1 \in DOMAIN posted /\ posted'[i] = posted[i + 1]
  BY TakeFacts DEF LoginInv, OnFinished
<1>1. LoginTypeOK'
  <2>1. window' \in Window
    BY DEF LoginInv, LoginTypeOK, Window, WindowFits
  <2>2. posted' \in Seq(Signal)
    BY <1>0
  <2>3. dialogs' \in Seq({"registered", "failed"}) /\ gui' \in {"loop", "stop"} \cup AuthRequest
    BY DEF LoginInv, LoginTypeOK
  <2>4. worker' \in Worker
    BY DEF LoginInv, LoginTypeOK, Worker, WorkerAt
  <2>. QED BY <2>1, <2>2, <2>3, <2>4 DEF LoginInv, LoginTypeOK
<1>2. WindowFits'
  BY DEF LoginInv, LoginTypeOK, Window, Worker, Connection, WindowFits, BusyAsks, WorkerFits
<1>3. BusyAsks'
  BY DEF LoginInv, LoginTypeOK, Window, Worker, Connection, BusyAsks, WindowFits, ServerFits
<1>4. TokensAreLogins'
  BY DEF LoginInv, LoginTypeOK, Window, Worker, Connection, TokensAreLogins, ServerFits
<1>5. WorkerFits'
  BY DEF LoginInv, LoginTypeOK, Window, Worker, Connection, WorkerFits, WindowFits, BusyAsks
<1>6. ServerFits'
  <2>1. worker.at \notin Unconnected \cup {"receive"}
    BY <1>0 DEF LoginInv, SignalsFit
  <2>. QED BY <1>0, <2>1 DEF LoginInv, LoginTypeOK, Worker, ServerFits, WorkerFits
<1>7. SignalsFit'
  <2>1. ASSUME NEW i \in DOMAIN posted', Running'
        PROVE  /\ posted'[i] \in {"login_success", "session_restored"} => server'.logged
               /\ posted'[i] \in {"register_success", "login_failed"} => ~server'.logged
               /\ posted'[i] = "thread.quit" => i = Len(posted')
               /\ posted'[i] \in {"connection_error", "disconnected", "thread.quit"} =>
                     worker'.at \notin Unconnected \cup {"receive"}
               /\ posted'[i] # "register_success"
    <3>1. i + 1 \in DOMAIN posted /\ posted'[i] = posted[i + 1] /\ i + 1 # 1
      BY <1>0
    <3>. QED BY <1>0, <2>1, <3>1 DEF LoginInv, LoginTypeOK, SignalsFit, Worker, Window
  <2>2. Running' /\ worker'.at = "none" /\ posted' # <<>> => dialogs' # <<>> \/ gui' = "stop"
    BY <1>0 DEF LoginInv, LoginTypeOK, SignalsFit, WorkerFits, Worker, Window
  <2>. QED BY <2>1, <2>2 DEF SignalsFit
<1>8. GrantIsTold'
  BY DEF LoginInv, LoginTypeOK, Window, Worker, Connection, GrantIsTold, SignalsFit, WindowFits, ServerFits
<1>9. OneAnswer'
  BY DEF LoginInv, LoginTypeOK, Window, Worker, Connection, OneAnswer, ServerFits, WorkerFits, WindowFits
<1>10. RegisterHasNoToken'
  BY DEF LoginInv, LoginTypeOK, Window, Worker, Connection, RegisterHasNoToken, SignalsFit, ServerFits, WorkerFits
<1>. QED BY <1>1, <1>2, <1>3, <1>4, <1>5, <1>6, <1>7, <1>8, <1>9, <1>10 DEF LoginInv

LEMMA OnFailureInv ==
    ASSUME LoginAssumption, LoginInv, OnFailure
    PROVE  LoginInv'
<1>. USE LoginAssumption DEF OnFailure, Ignored, ResetAfterFailure, Running, Unconnected, Finished, NoWorker, AuthRequest, Token, Take, Delivered
<1>0. /\ gui = "loop" /\ Running
      /\ Len(posted) \in Nat /\ Len(posted) >= 1 /\ DOMAIN posted = 1 .. Len(posted)
      /\ posted[1] = Delivered
      /\ posted' \in Seq(Signal) /\ Len(posted') = Len(posted) - 1
      /\ DOMAIN posted' = 1 .. Len(posted')
      /\ \A i \in DOMAIN posted' : i + 1 \in DOMAIN posted /\ posted'[i] = posted[i + 1]
  BY TakeFacts DEF LoginInv, OnFailure
<1>1. LoginTypeOK'
  <2>1. window' \in Window
    BY DEF LoginInv, LoginTypeOK, Window, WindowFits
  <2>2. posted' \in Seq(Signal)
    BY <1>0
  <2>3. dialogs' \in Seq({"registered", "failed"}) /\ gui' \in {"loop", "stop"} \cup AuthRequest
    BY DEF LoginInv, LoginTypeOK
  <2>4. worker' \in Worker
    BY DEF LoginInv, LoginTypeOK, Worker, WorkerAt
  <2>. QED BY <2>1, <2>2, <2>3, <2>4 DEF LoginInv, LoginTypeOK
<1>2. WindowFits'
  <2>1. CASE window.completed
    BY <2>1 DEF LoginInv, LoginTypeOK, WindowFits
  <2>2. CASE ~window.completed
    <3>1. server.in = <<>> /\ ~server.logged
      BY <1>0, <2>2, AskedAlone DEF LoginInv, GrantIsTold
    <3>. QED BY <2>2, <3>1 DEF LoginInv, LoginTypeOK, Window, WindowFits
  <2>. QED BY <2>1, <2>2
<1>3. BusyAsks'
  <2>1. (server.logged => window.completed) /\ server.in = <<>>
    BY <1>0, HeadFacts
  <2>. QED BY <2>1 DEF LoginInv, LoginTypeOK, Window, BusyAsks
<1>4. TokensAreLogins'
  BY DEF LoginInv, LoginTypeOK, Window, Worker, Connection, TokensAreLogins, ServerFits
<1>5. WorkerFits'
  <2>1. CASE window.completed
    BY <2>1 DEF LoginInv, WorkerFits
  <2>2. CASE ~window.completed
    <3>1. worker.at = "none" => worker' = worker
      <4>1. ASSUME worker.at = "none" PROVE worker' = worker
        <5>1. worker \in Worker /\ worker.open = FALSE /\ worker.running = FALSE
          BY <4>1 DEF LoginInv, LoginTypeOK, WorkerFits
        <5>2. worker' = [worker EXCEPT !.running = FALSE, !.open = FALSE]
          BY <2>2
        <5>. QED BY <5>1, <5>2, WorkerHalted
      <4>. QED BY <4>1
    <3>. QED BY <1>0, <2>2, <3>1 DEF LoginInv, LoginTypeOK, Window, Worker, WorkerFits
  <2>. QED BY <2>1, <2>2
<1>6. ServerFits'
  BY DEF LoginInv, LoginTypeOK, Window, Worker, Connection, ServerFits, WindowFits, WorkerFits
<1>7. SignalsFit'
  <2>1. ASSUME NEW i \in DOMAIN posted', Running'
        PROVE  /\ posted'[i] \in {"login_success", "session_restored"} => server'.logged
               /\ posted'[i] \in {"register_success", "login_failed"} => ~server'.logged
               /\ posted'[i] = "thread.quit" => i = Len(posted')
               /\ posted'[i] \in {"connection_error", "disconnected", "thread.quit"} =>
                     worker'.at \notin Unconnected \cup {"receive"}
               /\ posted'[i] # "register_success"
    <3>1. i + 1 \in DOMAIN posted /\ posted'[i] = posted[i + 1] /\ i + 1 # 1
      BY <1>0
    <3>2. worker'.at = worker.at /\ server' = server
      BY DEF LoginInv, LoginTypeOK, Worker
    <3>. QED BY <1>0, <3>1, <3>2 DEF LoginInv, SignalsFit
  <2>2. Running' /\ worker'.at = "none" /\ posted' # <<>> => dialogs' # <<>> \/ gui' = "stop"
    BY <1>0 DEF LoginInv, LoginTypeOK, SignalsFit, WorkerFits, Worker, Window
  <2>. QED BY <2>1, <2>2 DEF SignalsFit
<1>8. GrantIsTold'
  BY DEF LoginInv, LoginTypeOK, Window, Worker, Connection, GrantIsTold, SignalsFit, WindowFits, ServerFits
<1>9. OneAnswer'
  BY DEF LoginInv, LoginTypeOK, Window, Worker, Connection, OneAnswer, ServerFits, WorkerFits, WindowFits
<1>10. RegisterHasNoToken'
  <2>1. Running => \A i \in DOMAIN server.out : ~(server.out[i].type = "AUTH_SUCCESS" /\ ~server.logged)
    BY <1>0 DEF LoginInv, RegisterHasNoToken
  <2>2. CASE window.completed
    BY <2>1, <2>2, <1>0 DEF LoginInv, RegisterHasNoToken
  <2>3. CASE ~window.completed
    <3>1. gui' = "stop" \/ ~Running'
      BY <2>3 DEF LoginInv, LoginTypeOK, Window
    <3>. QED BY <2>1, <3>1, <1>0 DEF RegisterHasNoToken
  <2>. QED BY <2>2, <2>3
<1>. QED BY <1>1, <1>2, <1>3, <1>4, <1>5, <1>6, <1>7, <1>8, <1>9, <1>10 DEF LoginInv

LEMMA SubmitInv ==
    ASSUME LoginAssumption, LoginInv, NEW request \in AuthRequest, Submit(request)
    PROVE  LoginInv'
<1>. USE LoginAssumption DEF Submit, NewWorker, NewConnection, Running, Unconnected, Finished, NoWorker, AuthRequest, Token
<1>1. LoginTypeOK'
  <2>1. window' \in Window
    BY DEF LoginInv, LoginTypeOK, Window
  <2>2. posted' \in Seq(Signal)
    BY DEF LoginInv, LoginTypeOK
  <2>3. dialogs' \in Seq({"registered", "failed"}) /\ gui' \in {"loop", "stop"} \cup AuthRequest
    BY DEF LoginInv, LoginTypeOK
  <2>4. worker' \in Worker
    BY DEF LoginInv, LoginTypeOK, Worker, WorkerAt
  <2>5. server' \in Connection
    <3>1. NewConnection \in Connection
      BY DEF Connection
    <3>. QED BY <3>1 DEF LoginInv, LoginTypeOK
  <2>. QED BY <2>1, <2>2, <2>3, <2>4, <2>5 DEF LoginTypeOK
<1>2. WindowFits'
  BY DEF LoginInv, LoginTypeOK, Window, Worker, Connection, WindowFits, BusyAsks, WorkerFits
<1>3. BusyAsks'
  BY DEF LoginInv, LoginTypeOK, Window, Worker, Connection, BusyAsks, WindowFits, ServerFits
<1>4. TokensAreLogins'
  BY DEF LoginInv, LoginTypeOK, Window, Worker, Connection, TokensAreLogins, ServerFits
<1>5. WorkerFits'
  BY DEF LoginInv, LoginTypeOK, Window, Worker, Connection, WorkerFits, WindowFits, BusyAsks
<1>6. ServerFits'
  BY DEF LoginInv, LoginTypeOK, Window, Worker, Connection, ServerFits, WindowFits, WorkerFits, SignalsFit, BusyAsks
<1>7. SignalsFit'
  BY DEF LoginInv, LoginTypeOK, Window, Worker, Connection, SignalsFit, ServerFits, WorkerFits
<1>8. GrantIsTold'
  BY DEF LoginInv, LoginTypeOK, Window, Worker, Connection, GrantIsTold, SignalsFit, WindowFits, ServerFits
<1>9. OneAnswer'
  BY DEF LoginInv, LoginTypeOK, Window, Worker, Connection, OneAnswer, ServerFits, WorkerFits, WindowFits
<1>10. RegisterHasNoToken'
  BY DEF LoginInv, LoginTypeOK, Window, Worker, Connection, RegisterHasNoToken, SignalsFit, ServerFits, WorkerFits
<1>. QED BY <1>1, <1>2, <1>3, <1>4, <1>5, <1>6, <1>7, <1>8, <1>9, <1>10 DEF LoginInv

LEMMA StoppedInv ==
    ASSUME LoginAssumption, LoginInv, Stopped
    PROVE  LoginInv'
<1>. USE LoginAssumption DEF Stopped, Running, Unconnected, Finished, NoWorker, AuthRequest, Token
<1>1. LoginTypeOK'
  <2>1. posted' \in Seq(Signal)
    BY ToTheFormFacts DEF LoginInv
  <2>2. worker' \in Worker
    BY DEF Worker, WorkerAt
  <2>3. server' \in Connection
    <3>1. <<>> \in Seq(AuthRequest) /\ <<>> \in Seq(Packet)
      OBVIOUS
    <3>2. server \in Connection /\ FALSE \in BOOLEAN
      BY DEF LoginInv, LoginTypeOK
    <3>3. server' = [server EXCEPT !.open = FALSE, !.in = <<>>, !.out = <<>>, !.logged = FALSE]
      BY DEF Stopped
    <3>. HIDE DEF Stopped, AuthRequest, Token
    <3>. QED BY <3>1, <3>2, <3>3, ConnectionClosed
  <2>4. dialogs' \in Seq({"registered", "failed"})
    <3>1. dialogs \in Seq({"registered", "failed"}) /\ <<"failed">> \in Seq({"registered", "failed"})
      BY DEF LoginInv, LoginTypeOK
    <3>. QED BY <3>1
  <2>. QED BY <2>1, <2>2, <2>3, <2>4 DEF LoginInv, LoginTypeOK
<1>2. WindowFits'
  BY DEF LoginInv, LoginTypeOK, Window, Worker, Connection, WindowFits, BusyAsks, WorkerFits
<1>3. BusyAsks'
  BY DEF LoginInv, LoginTypeOK, Window, Worker, Connection, BusyAsks, WindowFits, ServerFits
<1>4. TokensAreLogins'
  BY DEF LoginInv, LoginTypeOK, Window, Worker, Connection, TokensAreLogins, ServerFits
<1>5. WorkerFits'
  BY DEF LoginInv, LoginTypeOK, Window, Worker, Connection, WorkerFits, WindowFits, BusyAsks
<1>6. ServerFits'
  BY DEF LoginInv, LoginTypeOK, Window, Worker, Connection, ServerFits, WindowFits, WorkerFits
<1>7. SignalsFit'
  <2>1. dialogs' # <<>>
    <3>1. dialogs \in Seq({"registered", "failed"})
      BY DEF LoginInv, LoginTypeOK
    <3>2. Len(<<"failed">> \o dialogs) >= 1
      BY <3>1
    <3>. QED BY <3>2
  <2>2. ASSUME NEW i \in DOMAIN posted', Running'
        PROVE  /\ posted'[i] \notin {"login_success", "session_restored", "register_success",
                                     "thread.quit"}
    <3>1. i \in DOMAIN posted /\ posted'[i] = posted[i]
      BY ToTheFormFacts DEF LoginInv
    <3>2. posted'[i] # "thread.quit"
      BY <2>2, ToTheFormFacts DEF LoginInv, SignalsFit
    <3>3. ~server.logged /\ gui # "loop" /\ Running
      BY <2>2 DEF LoginInv, WindowFits
    <3>. QED BY <3>1, <3>2, <3>3 DEF LoginInv, SignalsFit
  <2>3. ~server'.logged /\ worker'.at = "none"
    BY DEF LoginInv, LoginTypeOK, Connection
  <2>. QED BY <2>1, <2>2, <2>3 DEF SignalsFit
<1>8. GrantIsTold'
  BY DEF LoginInv, LoginTypeOK, Window, Worker, Connection, GrantIsTold, SignalsFit, WindowFits, ServerFits
<1>9. OneAnswer'
  BY DEF LoginInv, LoginTypeOK, Window, Worker, Connection, OneAnswer, ServerFits, WorkerFits, WindowFits
<1>10. RegisterHasNoToken'
  BY DEF LoginInv, LoginTypeOK, Window, Worker, Connection, RegisterHasNoToken, SignalsFit, ServerFits, WorkerFits
<1>. QED BY <1>1, <1>2, <1>3, <1>4, <1>5, <1>6, <1>7, <1>8, <1>9, <1>10 DEF LoginInv

LEMMA SendDroppedInv ==
    ASSUME LoginAssumption, LoginInv, SendDropped
    PROVE  LoginInv'
<1>. USE LoginAssumption DEF SendDropped, Asker, Running, Unconnected, Finished, NoWorker, AuthRequest, Token
<1>1. LoginTypeOK'
  BY DEF LoginInv, LoginTypeOK, Window, Worker, Connection, WorkerAt, NoWorker
<1>2. WindowFits'
  BY DEF LoginInv, LoginTypeOK, Window, Worker, Connection, WindowFits, BusyAsks, WorkerFits
<1>3. BusyAsks'
  BY DEF LoginInv, LoginTypeOK, Window, Worker, Connection, BusyAsks, WindowFits, ServerFits
<1>4. TokensAreLogins'
  BY DEF LoginInv, LoginTypeOK, Window, Worker, Connection, TokensAreLogins, ServerFits
<1>5. WorkerFits'
  BY DEF LoginInv, LoginTypeOK, Window, Worker, Connection, WorkerFits, WindowFits, BusyAsks
<1>6. ServerFits'
  BY DEF LoginInv, LoginTypeOK, Window, Worker, Connection, ServerFits, WindowFits, WorkerFits
<1>7. SignalsFit'
  BY DEF LoginInv, LoginTypeOK, Window, Worker, Connection, SignalsFit, ServerFits, WorkerFits
<1>8. GrantIsTold'
  BY DEF LoginInv, LoginTypeOK, Window, Worker, Connection, GrantIsTold, SignalsFit, WindowFits, ServerFits
<1>9. OneAnswer'
  BY DEF LoginInv, LoginTypeOK, Window, Worker, Connection, OneAnswer, ServerFits, WorkerFits, WindowFits
<1>10. RegisterHasNoToken'
  <2>1. server.in = <<>> /\ server' = server /\ <<>> # <<"REGISTER">>
    BY DEF LoginInv, WindowFits
  <2>2. Running => window.busy
    BY DEF LoginInv, WorkerFits
  <2>3. Running => \A i \in DOMAIN server.out : ~(server.out[i].type = "AUTH_SUCCESS" /\ ~server.logged)
    BY DEF LoginInv, RegisterHasNoToken
  <2>. QED BY <2>1, <2>2, <2>3 DEF RegisterHasNoToken
<1>. QED BY <1>1, <1>2, <1>3, <1>4, <1>5, <1>6, <1>7, <1>8, <1>9, <1>10 DEF LoginInv

LEMMA SendFailsInv ==
    ASSUME LoginAssumption, LoginInv, SendFails
    PROVE  LoginInv'
<1>. USE LoginAssumption DEF SendFails, Asker, ResetAfterFailure, Running, Unconnected, Finished, NoWorker, AuthRequest, Token
<1>1. LoginTypeOK'
  <2>1. window' \in Window
    BY DEF LoginInv, LoginTypeOK, Window
  <2>2. worker' \in Worker
    <3>1. worker' = [Asker EXCEPT !.running = FALSE, !.open = FALSE]
      BY DEF SendFails, ResetAfterFailure
    <3>2. Asker \in Worker
      BY AskerFacts DEF LoginInv
    <3>. QED BY <3>1, <3>2, WorkerStopped
  <2>3. gui' \in {"loop", "stop"} \cup AuthRequest
    OBVIOUS
  <2>. QED BY <2>1, <2>2, <2>3 DEF LoginInv, LoginTypeOK
<1>2. WindowFits'
  BY DEF LoginInv, LoginTypeOK, Window, Worker, Connection, WindowFits, BusyAsks, WorkerFits
<1>3. BusyAsks'
  BY DEF LoginInv, LoginTypeOK, Window, Worker, Connection, BusyAsks, WindowFits, ServerFits
<1>4. TokensAreLogins'
  BY DEF LoginInv, LoginTypeOK, Window, Worker, Connection, TokensAreLogins, ServerFits
<1>5. WorkerFits'
  BY DEF LoginInv, LoginTypeOK, Window, Worker, Connection, WorkerFits, WindowFits, BusyAsks
<1>6. ServerFits'
  <2>1. worker'.at = worker.at
    <3>1. worker' = [Asker EXCEPT !.running = FALSE, !.open = FALSE]
      BY DEF SendFails, ResetAfterFailure
    <3>2. Asker \in Worker /\ Asker.at = worker.at
      BY AskerFacts DEF LoginInv
    <3>. QED BY <3>1, <3>2, WorkerStopped
  <2>2. gui # "loop" /\ gui # "stop" /\ server.in = <<>> /\ UNCHANGED <<posted, server>>
    BY DEF LoginInv, WindowFits
  <2>3. Running' => Running
    BY DEF LoginInv, LoginTypeOK, Window
  <2>. QED BY <2>1, <2>2, <2>3 DEF LoginInv, ServerFits
<1>7. SignalsFit'
  <2>1. worker'.at = worker.at
    <3>1. worker' = [Asker EXCEPT !.running = FALSE, !.open = FALSE]
      BY DEF SendFails, ResetAfterFailure
    <3>2. Asker \in Worker /\ Asker.at = worker.at
      BY AskerFacts DEF LoginInv
    <3>. QED BY <3>1, <3>2, WorkerStopped
  <2>2. worker.at # "none"
    BY DEF LoginInv, WorkerFits
  <2>3. (Running' => Running) /\ gui # "loop" /\ posted' = posted /\ server' = server
    BY DEF LoginInv, LoginTypeOK, Window
  <2>. QED BY <2>1, <2>2, <2>3 DEF LoginInv, SignalsFit
<1>8. GrantIsTold'
  BY DEF LoginInv, LoginTypeOK, Window, Worker, Connection, GrantIsTold, SignalsFit, WindowFits, ServerFits
<1>9. OneAnswer'
  BY DEF LoginInv, LoginTypeOK, Window, Worker, Connection, OneAnswer, ServerFits, WorkerFits, WindowFits
<1>10. RegisterHasNoToken'
  <2>1. UNCHANGED <<posted, server>> /\ gui # "loop" /\ gui # "stop"
    BY DEF LoginInv, WindowFits
  <2>2. Running' => Running /\ gui' = "stop"
    BY DEF LoginInv, LoginTypeOK, Window
  <2>3. Running => \A i \in DOMAIN server.out : ~(server.out[i].type = "AUTH_SUCCESS" /\ ~server.logged)
    BY <2>1 DEF LoginInv, RegisterHasNoToken
  <2>. QED BY <2>1, <2>2, <2>3 DEF RegisterHasNoToken
<1>. QED BY <1>1, <1>2, <1>3, <1>4, <1>5, <1>6, <1>7, <1>8, <1>9, <1>10 DEF LoginInv

LEMMA SendInv ==
    ASSUME LoginAssumption, LoginInv, Send
    PROVE  LoginInv'
<1>. USE LoginAssumption DEF Send, Asker, Running, Unconnected, Finished, NoWorker, AuthRequest, Token
<1>1. LoginTypeOK'
  <2>1. worker' \in Worker
    BY AskerFacts DEF LoginInv
  <2>2. server' \in Connection
    <3>1. server.in \in Seq(AuthRequest) /\ gui \in AuthRequest /\ server \in Connection
      BY DEF LoginInv, LoginTypeOK, Connection
    <3>2. Append(server.in, gui) \in Seq(AuthRequest)
      BY <3>1
    <3>. QED BY <3>1, <3>2 DEF Connection
  <2>. QED BY <2>1, <2>2 DEF LoginInv, LoginTypeOK
<1>2. WindowFits'
  BY DEF LoginInv, LoginTypeOK, Window, Worker, Connection, WindowFits, BusyAsks, WorkerFits
<1>3. BusyAsks'
  <2>1. window.busy /\ ~window.completed
    BY DEF LoginInv, WorkerFits, WindowFits
  <2>. QED BY <2>1 DEF LoginInv, LoginTypeOK, Connection, BusyAsks
<1>4. TokensAreLogins'
  BY DEF LoginInv, LoginTypeOK, Window, Worker, Connection, TokensAreLogins, ServerFits
<1>5. WorkerFits'
  BY DEF LoginInv, LoginTypeOK, Window, Worker, Connection, WorkerFits, WindowFits, BusyAsks
<1>6. ServerFits'
  BY DEF LoginInv, LoginTypeOK, Window, Worker, Connection, ServerFits, WindowFits, WorkerFits
<1>7. SignalsFit'
  BY DEF LoginInv, LoginTypeOK, Window, Worker, Connection, SignalsFit, ServerFits, WorkerFits
<1>8. GrantIsTold'
  BY DEF LoginInv, LoginTypeOK, Window, Worker, Connection, GrantIsTold, SignalsFit, WindowFits, ServerFits
<1>9. OneAnswer'
  <2>1. server.in = <<>> /\ server'.out = server.out /\ server'.open = server.open
    BY DEF LoginInv, LoginTypeOK, Connection, WindowFits
  <2>2. server.open => Len(server'.in) = 1
    BY <2>1 DEF LoginInv, LoginTypeOK, Connection
  <2>3. worker.at = "receive" /\ gui # "loop" /\ gui # "stop" /\ ~server.logged
    BY DEF LoginInv, WindowFits
  <2>4. Running => window.busy
    BY DEF LoginInv, WorkerFits
  <2>5. Running =>
          /\ Len(server.out) + Len(posted) <= 1
          /\ server.open => Len(server.in) + (Len(server.out) + Len(posted)) <= 0
    BY <2>3 DEF LoginInv, OneAnswer
  <2>6. Len(server.out) \in Nat /\ Len(posted) \in Nat /\ Len(server.in) = 0
    BY <2>1 DEF LoginInv, LoginTypeOK, Connection
  <2>7. Running =>
          /\ Len(server'.out) + Len(posted') <= 1
          /\ server'.open => Len(server'.in) + (Len(server'.out) + Len(posted')) <= 1
    <3>1. posted' = posted
      OBVIOUS
    <3>2. Running /\ server.open => Len(server.out) + Len(posted) <= 0
      BY <2>5, <2>6
    <3>3. Running /\ server.open => Len(server'.in) + (Len(server.out) + Len(posted)) <= 1
      BY <2>2, <2>6, <3>2, OneMore
    <3>. QED BY <2>1, <2>5, <3>1, <3>3
  <2>8. Running' => Running /\ window'.busy /\ gui' = "loop"
    BY <2>4
  <2>9. Len(server'.out) + Len(posted') <= 1 => Len(server'.out) + Len(posted') <= 2
    BY <2>1, <2>6
  <2>. QED BY <2>7, <2>8, <2>9 DEF OneAnswer
<1>10. RegisterHasNoToken'
  <2>1. server.in = <<>> /\ server'.out = server.out /\ server'.logged = server.logged
    BY DEF LoginInv, LoginTypeOK, Connection, WindowFits
  <2>2. server'.in = IF server.open THEN <<gui>> ELSE <<>>
    BY <2>1 DEF LoginInv, LoginTypeOK, Connection
  <2>3. Running => window.busy
    BY DEF LoginInv, WorkerFits
  <2>4. Running => \A i \in DOMAIN server.out : ~(server.out[i].type = "AUTH_SUCCESS" /\ ~server.logged)
    BY DEF LoginInv, RegisterHasNoToken
  <2>5. Running /\ worker'.token # NoToken => gui # "REGISTER"
    <3>1. worker'.token = IF gui = "RECONNECT" THEN "typed" ELSE worker.token
      BY AskerFacts DEF LoginInv
    <3>. QED BY <3>1 DEF LoginInv, RegisterHasNoToken
  <2>6. <<>> # <<"REGISTER">> /\ (gui # "REGISTER" => <<gui>> # <<"REGISTER">>)
    OBVIOUS
  <2>. QED BY <2>1, <2>2, <2>3, <2>4, <2>5, <2>6 DEF RegisterHasNoToken
<1>. QED BY <1>1, <1>2, <1>3, <1>4, <1>5, <1>6, <1>7, <1>8, <1>9, <1>10 DEF LoginInv

LEMMA ThreadDeletedInv ==
    ASSUME LoginAssumption, LoginInv, ThreadDeleted
    PROVE  LoginInv'
<1>. USE LoginAssumption DEF ThreadDeleted, Running, Unconnected, Finished, NoWorker, AuthRequest, Token
<1>1. LoginTypeOK'
  BY DEF LoginInv, LoginTypeOK, Window, Worker, Connection, WorkerAt, NoWorker
<1>2. WindowFits'
  BY DEF LoginInv, LoginTypeOK, Window, Worker, Connection, WindowFits, BusyAsks, WorkerFits
<1>3. BusyAsks'
  BY DEF LoginInv, LoginTypeOK, Window, Worker, Connection, BusyAsks, WindowFits, ServerFits
<1>4. TokensAreLogins'
  BY DEF LoginInv, LoginTypeOK, Window, Worker, Connection, TokensAreLogins, ServerFits
<1>5. WorkerFits'
  BY DEF LoginInv, LoginTypeOK, Window, Worker, Connection, WorkerFits, WindowFits, BusyAsks
<1>6. ServerFits'
  BY DEF LoginInv, LoginTypeOK, Window, Worker, Connection, ServerFits, WindowFits, WorkerFits
<1>7. SignalsFit'
  BY DEF LoginInv, LoginTypeOK, Window, Worker, Connection, SignalsFit, ServerFits, WorkerFits
<1>8. GrantIsTold'
  BY DEF LoginInv, LoginTypeOK, Window, Worker, Connection, GrantIsTold, SignalsFit, WindowFits, ServerFits
<1>9. OneAnswer'
  BY DEF LoginInv, LoginTypeOK, Window, Worker, Connection, OneAnswer, ServerFits, WorkerFits, WindowFits
<1>10. RegisterHasNoToken'
  BY DEF LoginInv, LoginTypeOK, Window, Worker, Connection, RegisterHasNoToken, SignalsFit, ServerFits, WorkerFits
<1>. QED BY <1>1, <1>2, <1>3, <1>4, <1>5, <1>6, <1>7, <1>8, <1>9, <1>10 DEF LoginInv

LEMMA OpenDashboardInv ==
    ASSUME LoginAssumption, LoginInv, OpenDashboard
    PROVE  LoginInv'
<1>. USE LoginAssumption DEF OpenDashboard, Running, Unconnected, Finished, NoWorker, AuthRequest, Token
<1>1. LoginTypeOK'
  <2>1. window \in Window /\ window.timer = 1 /\ window.opened = 0 /\ worker.token \in Token
    BY DEF LoginInv, LoginTypeOK, WindowFits, Window, Worker
  <2>. DEFINE token == IF window.token = NoToken THEN worker.token ELSE window.token
  <2>2. window.timer - 1 \in 0 .. 2 /\ window.opened + 1 \in 0 .. 2
    BY <2>1
  <2>3. token \in Token
    BY <2>1 DEF Window
  <2>4. [window EXCEPT !.timer = window.timer - 1, !.shows = "dashboard",
                       !.opened = window.opened + 1, !.token = token] \in Window
    <3>. HIDE DEF token
    <3>. QED BY <2>1, <2>2, <2>3, WindowOpened
  <2>5. window' \in Window
    BY <2>4
  <2>. QED BY <2>5 DEF LoginInv, LoginTypeOK
<1>2. WindowFits'
  BY DEF LoginInv, LoginTypeOK, Window, Worker, Connection, WindowFits, BusyAsks, WorkerFits
<1>3. BusyAsks'
  BY DEF LoginInv, LoginTypeOK, Window, Worker, Connection, BusyAsks, WindowFits, ServerFits
<1>4. TokensAreLogins'
  BY DEF LoginInv, LoginTypeOK, Window, Worker, Connection, TokensAreLogins, ServerFits
<1>5. WorkerFits'
  BY DEF LoginInv, LoginTypeOK, Window, Worker, Connection, WorkerFits, WindowFits, BusyAsks
<1>6. ServerFits'
  BY DEF LoginInv, LoginTypeOK, Window, Worker, Connection, ServerFits, WindowFits, WorkerFits
<1>7. SignalsFit'
  BY DEF LoginInv, LoginTypeOK, Window, Worker, Connection, SignalsFit, ServerFits, WorkerFits
<1>8. GrantIsTold'
  BY DEF LoginInv, LoginTypeOK, Window, Worker, Connection, GrantIsTold, SignalsFit, WindowFits, ServerFits
<1>9. OneAnswer'
  BY DEF LoginInv, LoginTypeOK, Window, Worker, Connection, OneAnswer, ServerFits, WorkerFits, WindowFits
<1>10. RegisterHasNoToken'
  BY DEF LoginInv, LoginTypeOK, Window, Worker, Connection, RegisterHasNoToken, SignalsFit, ServerFits, WorkerFits
<1>. QED BY <1>1, <1>2, <1>3, <1>4, <1>5, <1>6, <1>7, <1>8, <1>9, <1>10 DEF LoginInv

LEMMA DismissInv ==
    ASSUME LoginAssumption, LoginInv, Dismiss
    PROVE  LoginInv'
<1>. USE LoginAssumption DEF Dismiss, Running, Unconnected, Finished, NoWorker, AuthRequest, Token
<1>1. LoginTypeOK'
  BY DEF LoginInv, LoginTypeOK, Window, Worker, Connection, WorkerAt, NoWorker
<1>2. WindowFits'
  BY DEF LoginInv, LoginTypeOK, Window, Worker, Connection, WindowFits, BusyAsks, WorkerFits
<1>3. BusyAsks'
  BY DEF LoginInv, LoginTypeOK, Window, Worker, Connection, BusyAsks, WindowFits, ServerFits
<1>4. TokensAreLogins'
  BY DEF LoginInv, LoginTypeOK, Window, Worker, Connection, TokensAreLogins, ServerFits
<1>5. WorkerFits'
  BY DEF LoginInv, LoginTypeOK, Window, Worker, Connection, WorkerFits, WindowFits, BusyAsks
<1>6. ServerFits'
  BY DEF LoginInv, LoginTypeOK, Window, Worker, Connection, ServerFits, WindowFits, WorkerFits
<1>7. SignalsFit'
  BY DEF LoginInv, LoginTypeOK, Window, Worker, Connection, SignalsFit, ServerFits, WorkerFits
<1>8. GrantIsTold'
  BY DEF LoginInv, LoginTypeOK, Window, Worker, Connection, GrantIsTold, SignalsFit, WindowFits, ServerFits
<1>9. OneAnswer'
  BY DEF LoginInv, LoginTypeOK, Window, Worker, Connection, OneAnswer, ServerFits, WorkerFits, WindowFits
<1>10. RegisterHasNoToken'
  BY DEF LoginInv, LoginTypeOK, Window, Worker, Connection, RegisterHasNoToken, SignalsFit, ServerFits, WorkerFits
<1>. QED BY <1>1, <1>2, <1>3, <1>4, <1>5, <1>6, <1>7, <1>8, <1>9, <1>10 DEF LoginInv

LEMMA CloseWindowInv ==
    ASSUME LoginAssumption, LoginInv, CloseWindow
    PROVE  LoginInv'
<1>. USE LoginAssumption DEF CloseWindow, Running, Unconnected, Finished, NoWorker, AuthRequest, Token
<1>1. LoginTypeOK'
  BY DEF LoginInv, LoginTypeOK, Window, Worker, Connection, WorkerAt, NoWorker
<1>2. WindowFits'
  BY DEF LoginInv, LoginTypeOK, Window, Worker, Connection, WindowFits, BusyAsks, WorkerFits
<1>3. BusyAsks'
  BY DEF LoginInv, LoginTypeOK, Window, Worker, Connection, BusyAsks, WindowFits, ServerFits
<1>4. TokensAreLogins'
  BY DEF LoginInv, LoginTypeOK, Window, Worker, Connection, TokensAreLogins, ServerFits
<1>5. WorkerFits'
  <2>1. worker.at = "none" => worker' = worker
    <3>1. ASSUME worker.at = "none", worker' = [worker EXCEPT !.running = FALSE, !.open = FALSE]
          PROVE  worker' = worker
      <4>1. worker \in Worker /\ worker.open = FALSE /\ worker.running = FALSE
        BY <3>1 DEF LoginInv, LoginTypeOK, WorkerFits
      <4>. QED BY <3>1, <4>1, WorkerHalted
    <3>. QED BY <3>1
  <2>. QED BY <2>1 DEF LoginInv, LoginTypeOK, Window, Worker, WorkerFits
<1>6. ServerFits'
  BY DEF LoginInv, LoginTypeOK, Window, Worker, Connection, ServerFits, WindowFits, WorkerFits
<1>7. SignalsFit'
  BY DEF LoginInv, LoginTypeOK, Window, Worker, Connection, SignalsFit, ServerFits, WorkerFits
<1>8. GrantIsTold'
  BY DEF LoginInv, LoginTypeOK, Window, Worker, Connection, GrantIsTold, SignalsFit, WindowFits, ServerFits
<1>9. OneAnswer'
  BY DEF LoginInv, LoginTypeOK, Window, Worker, Connection, OneAnswer, ServerFits, WorkerFits, WindowFits
<1>10. RegisterHasNoToken'
  BY DEF LoginInv, LoginTypeOK, Window, Worker, Connection, RegisterHasNoToken, SignalsFit, ServerFits, WorkerFits
<1>. QED BY <1>1, <1>2, <1>3, <1>4, <1>5, <1>6, <1>7, <1>8, <1>9, <1>10 DEF LoginInv

LEMMA CreateSocketInv ==
    ASSUME LoginAssumption, LoginInv, CreateSocket
    PROVE  LoginInv'
<1>. USE LoginAssumption DEF CreateSocket, Running, Unconnected, Finished, NoWorker, AuthRequest, Token
<1>1. LoginTypeOK'
  BY DEF LoginInv, LoginTypeOK, Window, Worker, Connection, WorkerAt, NoWorker
<1>2. WindowFits'
  BY DEF LoginInv, LoginTypeOK, Window, Worker, Connection, WindowFits, BusyAsks, WorkerFits
<1>3. BusyAsks'
  BY DEF LoginInv, LoginTypeOK, Window, Worker, Connection, BusyAsks, WindowFits, ServerFits
<1>4. TokensAreLogins'
  BY DEF LoginInv, LoginTypeOK, Window, Worker, Connection, TokensAreLogins, ServerFits
<1>5. WorkerFits'
  BY DEF LoginInv, LoginTypeOK, Window, Worker, Connection, WorkerFits, WindowFits, BusyAsks
<1>6. ServerFits'
  BY DEF LoginInv, LoginTypeOK, Window, Worker, Connection, ServerFits, WindowFits, WorkerFits
<1>7. SignalsFit'
  BY DEF LoginInv, LoginTypeOK, Window, Worker, Connection, SignalsFit, ServerFits, WorkerFits
<1>8. GrantIsTold'
  BY DEF LoginInv, LoginTypeOK, Window, Worker, Connection, GrantIsTold, SignalsFit, WindowFits, ServerFits
<1>9. OneAnswer'
  BY DEF LoginInv, LoginTypeOK, Window, Worker, Connection, OneAnswer, ServerFits, WorkerFits, WindowFits
<1>10. RegisterHasNoToken'
  BY DEF LoginInv, LoginTypeOK, Window, Worker, Connection, RegisterHasNoToken, SignalsFit, ServerFits, WorkerFits
<1>. QED BY <1>1, <1>2, <1>3, <1>4, <1>5, <1>6, <1>7, <1>8, <1>9, <1>10 DEF LoginInv

LEMMA ConnectSocketInv ==
    ASSUME LoginAssumption, LoginInv, ConnectSocket
    PROVE  LoginInv'
<1>. USE LoginAssumption DEF ConnectSocket, Running, Unconnected, Finished, NoWorker, AuthRequest, Token
<1>1. LoginTypeOK'
  BY DEF LoginInv, LoginTypeOK, Window, Worker, Connection, WorkerAt, NoWorker
<1>2. WindowFits'
  BY DEF LoginInv, LoginTypeOK, Window, Worker, Connection, WindowFits, BusyAsks, WorkerFits
<1>3. BusyAsks'
  BY DEF LoginInv, LoginTypeOK, Window, Worker, Connection, BusyAsks, WindowFits, ServerFits
<1>4. TokensAreLogins'
  BY DEF LoginInv, LoginTypeOK, Window, Worker, Connection, TokensAreLogins, ServerFits
<1>5. WorkerFits'
  BY DEF LoginInv, LoginTypeOK, Window, Worker, Connection, WorkerFits, WindowFits, BusyAsks
<1>6. ServerFits'
  BY DEF LoginInv, LoginTypeOK, Window, Worker, Connection, ServerFits, WindowFits, WorkerFits
<1>7. SignalsFit'
  BY DEF LoginInv, LoginTypeOK, Window, Worker, Connection, SignalsFit, ServerFits, WorkerFits
<1>8. GrantIsTold'
  BY DEF LoginInv, LoginTypeOK, Window, Worker, Connection, GrantIsTold, SignalsFit, WindowFits, ServerFits
<1>9. OneAnswer'
  BY DEF LoginInv, LoginTypeOK, Window, Worker, Connection, OneAnswer, ServerFits, WorkerFits, WindowFits
<1>10. RegisterHasNoToken'
  BY DEF LoginInv, LoginTypeOK, Window, Worker, Connection, RegisterHasNoToken, SignalsFit, ServerFits, WorkerFits
<1>. QED BY <1>1, <1>2, <1>3, <1>4, <1>5, <1>6, <1>7, <1>8, <1>9, <1>10 DEF LoginInv

LEMMA ConnectedInv ==
    ASSUME LoginAssumption, LoginInv, Connected
    PROVE  LoginInv'
<1>. USE LoginAssumption DEF Connected, Running, Unconnected, Finished, NoWorker, AuthRequest, Token
<1>1. LoginTypeOK'
  BY DEF LoginInv, LoginTypeOK, Window, Worker, Connection, WorkerAt, NoWorker
<1>2. WindowFits'
  BY DEF LoginInv, LoginTypeOK, Window, Worker, Connection, WindowFits, BusyAsks, WorkerFits
<1>3. BusyAsks'
  BY DEF LoginInv, LoginTypeOK, Window, Worker, Connection, BusyAsks, WindowFits, ServerFits
<1>4. TokensAreLogins'
  BY DEF LoginInv, LoginTypeOK, Window, Worker, Connection, TokensAreLogins, ServerFits
<1>5. WorkerFits'
  BY DEF LoginInv, LoginTypeOK, Window, Worker, Connection, WorkerFits, WindowFits, BusyAsks
<1>6. ServerFits'
  BY DEF LoginInv, LoginTypeOK, Window, Worker, Connection, ServerFits, WindowFits, WorkerFits
<1>7. SignalsFit'
  BY DEF LoginInv, LoginTypeOK, Window, Worker, Connection, SignalsFit, ServerFits, WorkerFits
<1>8. GrantIsTold'
  BY DEF LoginInv, LoginTypeOK, Window, Worker, Connection, GrantIsTold, SignalsFit, WindowFits, ServerFits
<1>9. OneAnswer'
  BY DEF LoginInv, LoginTypeOK, Window, Worker, Connection, OneAnswer, ServerFits, WorkerFits, WindowFits
<1>10. RegisterHasNoToken'
  BY DEF LoginInv, LoginTypeOK, Window, Worker, Connection, RegisterHasNoToken, SignalsFit, ServerFits, WorkerFits
<1>. QED BY <1>1, <1>2, <1>3, <1>4, <1>5, <1>6, <1>7, <1>8, <1>9, <1>10 DEF LoginInv

LEMMA ConnectFailsInv ==
    ASSUME LoginAssumption, LoginInv, ConnectFails
    PROVE  LoginInv'
<1>. USE LoginAssumption DEF ConnectFails, Post, Running, Unconnected, Finished, NoWorker, AuthRequest, Token
<1>1. LoginTypeOK'
  <2>0. PICK ending \in Endings : posted' = posted \o ending
    BY DEF Endings
  <2>1. posted' \in Seq(Signal)
    BY <2>0, EndFacts DEF LoginInv, LoginTypeOK, Worker
  <2>2. worker' \in Worker
    BY DEF LoginInv, LoginTypeOK, Worker, WorkerAt
  <2>. QED BY <2>1, <2>2 DEF LoginInv, LoginTypeOK
<1>2. WindowFits'
  BY DEF LoginInv, LoginTypeOK, Window, Worker, Connection, WindowFits, BusyAsks, WorkerFits
<1>3. BusyAsks'
  BY DEF LoginInv, LoginTypeOK, Window, Worker, Connection, BusyAsks, WindowFits, ServerFits
<1>4. TokensAreLogins'
  BY DEF LoginInv, LoginTypeOK, Window, Worker, Connection, TokensAreLogins, ServerFits
<1>5. WorkerFits'
  BY DEF LoginInv, LoginTypeOK, Window, Worker, Connection, WorkerFits, WindowFits, BusyAsks
<1>6. ServerFits'
  BY DEF LoginInv, LoginTypeOK, Window, Worker, Connection, ServerFits, WindowFits, WorkerFits
<1>7. SignalsFit'
  <2>0. PICK ending \in Endings : posted' = posted \o ending
    BY DEF Endings
  <2>. QED BY <2>0, EndFacts DEF LoginInv, LoginTypeOK, Worker
<1>8. GrantIsTold'
  BY DEF LoginInv, LoginTypeOK, Window, Worker, Connection, GrantIsTold, SignalsFit, WindowFits, ServerFits
<1>9. OneAnswer'
  BY DEF LoginInv, LoginTypeOK, Window, Worker, Connection, OneAnswer, ServerFits, WorkerFits, WindowFits
<1>10. RegisterHasNoToken'
  BY DEF LoginInv, LoginTypeOK, Window, Worker, Connection, RegisterHasNoToken, SignalsFit, ServerFits, WorkerFits
<1>. QED BY <1>1, <1>2, <1>3, <1>4, <1>5, <1>6, <1>7, <1>8, <1>9, <1>10 DEF LoginInv

LEMMA ReceiveEndInv ==
    ASSUME LoginAssumption, LoginInv, ReceiveEnd
    PROVE  LoginInv'
<1>. USE LoginAssumption DEF ReceiveEnd, DisconnectSocket, Ending, Post, Running, Unconnected, Finished, NoWorker, AuthRequest, Token
<1>1. LoginTypeOK'
  <2>0. PICK ending \in Endings : posted' = posted \o ending
    BY DEF Endings
  <2>1. posted' \in Seq(Signal)
    BY <2>0, EndFacts DEF LoginInv, LoginTypeOK, Worker
  <2>2. worker' \in Worker
    BY DEF LoginInv, LoginTypeOK, Worker, WorkerAt
  <2>. QED BY <2>1, <2>2 DEF LoginInv, LoginTypeOK
<1>2. WindowFits'
  BY DEF LoginInv, LoginTypeOK, Window, Worker, Connection, WindowFits, BusyAsks, WorkerFits
<1>3. BusyAsks'
  BY DEF LoginInv, LoginTypeOK, Window, Worker, Connection, BusyAsks, WindowFits, ServerFits
<1>4. TokensAreLogins'
  BY DEF LoginInv, LoginTypeOK, Window, Worker, Connection, TokensAreLogins, ServerFits
<1>5. WorkerFits'
  BY DEF LoginInv, LoginTypeOK, Window, Worker, Connection, WorkerFits, WindowFits, BusyAsks
<1>6. ServerFits'
  BY DEF LoginInv, LoginTypeOK, Window, Worker, Connection, ServerFits, WindowFits, WorkerFits
<1>7. SignalsFit'
  <2>0. PICK ending \in Endings : posted' = posted \o ending
    BY DEF Endings
  <2>. QED BY <2>0, EndFacts DEF LoginInv, LoginTypeOK, Worker
<1>8. GrantIsTold'
  <2>0. PICK ending \in Endings : posted' = posted \o ending
    BY DEF Endings
  <2>1. posted' # <<>> /\ (posted # <<>> => posted'[1] = posted[1])
    BY <2>0, EndFacts DEF LoginInv, LoginTypeOK, Worker
  <2>2. Running /\ server.logged => gui = "loop" /\ server.out = <<>>
    BY DEF LoginInv, LoginTypeOK, Worker, WindowFits, WorkerFits
  <2>. QED BY <2>1, <2>2 DEF LoginInv, LoginTypeOK, GrantIsTold, Connection
<1>9. OneAnswer'
  BY DEF LoginInv, LoginTypeOK, Window, Worker, Connection, OneAnswer, ServerFits, WorkerFits, WindowFits
<1>10. RegisterHasNoToken'
  BY DEF LoginInv, LoginTypeOK, Window, Worker, Connection, RegisterHasNoToken, SignalsFit, ServerFits, WorkerFits
<1>. QED BY <1>1, <1>2, <1>3, <1>4, <1>5, <1>6, <1>7, <1>8, <1>9, <1>10 DEF LoginInv

LEMMA ReceiveFailsInv ==
    ASSUME LoginAssumption, LoginInv, ReceiveFails
    PROVE  LoginInv'
<1>. USE LoginAssumption DEF ReceiveFails, DisconnectSocket, Ending, Post, Running, Unconnected, Finished, NoWorker, AuthRequest, Token
<1>1. LoginTypeOK'
  <2>. DEFINE ending == <<"connection_error", "disconnected", "thread.quit">>
  <2>0. ending \in Endings /\ posted' = posted \o ending
    <3>1. <<"connection_error">> \o <<"disconnected", "thread.quit">> = ending
      BY OneBeforeTwo, Zenon
    <3>. QED BY <3>1 DEF Endings
  <2>1. posted' \in Seq(Signal)
    BY <2>0, EndFacts DEF LoginInv, LoginTypeOK, Worker
  <2>2. worker' \in Worker
    BY DEF LoginInv, LoginTypeOK, Worker, WorkerAt
  <2>. QED BY <2>1, <2>2 DEF LoginInv, LoginTypeOK
<1>2. WindowFits'
  BY DEF LoginInv, LoginTypeOK, Window, Worker, Connection, WindowFits, BusyAsks, WorkerFits
<1>3. BusyAsks'
  BY DEF LoginInv, LoginTypeOK, Window, Worker, Connection, BusyAsks, WindowFits, ServerFits
<1>4. TokensAreLogins'
  BY DEF LoginInv, LoginTypeOK, Window, Worker, Connection, TokensAreLogins, ServerFits
<1>5. WorkerFits'
  BY DEF LoginInv, LoginTypeOK, Window, Worker, Connection, WorkerFits, WindowFits, BusyAsks
<1>6. ServerFits'
  BY DEF LoginInv, LoginTypeOK, Window, Worker, Connection, ServerFits, WindowFits, WorkerFits
<1>7. SignalsFit'
  <2>. DEFINE ending == <<"connection_error", "disconnected", "thread.quit">>
  <2>0. ending \in Endings /\ posted' = posted \o ending
    <3>1. <<"connection_error">> \o <<"disconnected", "thread.quit">> = ending
      BY OneBeforeTwo, Zenon
    <3>. QED BY <3>1 DEF Endings
  <2>. QED BY <2>0, EndFacts DEF LoginInv, LoginTypeOK, Worker
<1>8. GrantIsTold'
  <2>. DEFINE ending == <<"connection_error", "disconnected", "thread.quit">>
  <2>0. ending \in Endings /\ posted' = posted \o ending
    <3>1. <<"connection_error">> \o <<"disconnected", "thread.quit">> = ending
      BY OneBeforeTwo, Zenon
    <3>. QED BY <3>1 DEF Endings
  <2>1. posted' # <<>> /\ (posted # <<>> => posted'[1] = posted[1])
    BY <2>0, EndFacts DEF LoginInv, LoginTypeOK, Worker
  <2>2. Running /\ server.logged => gui = "loop" /\ server.out = <<>>
    BY DEF LoginInv, LoginTypeOK, Worker, WindowFits, WorkerFits
  <2>. QED BY <2>1, <2>2 DEF LoginInv, LoginTypeOK, GrantIsTold, Connection
<1>9. OneAnswer'
  BY DEF LoginInv, LoginTypeOK, Window, Worker, Connection, OneAnswer, ServerFits, WorkerFits, WindowFits
<1>10. RegisterHasNoToken'
  BY DEF LoginInv, LoginTypeOK, Window, Worker, Connection, RegisterHasNoToken, SignalsFit, ServerFits, WorkerFits
<1>. QED BY <1>1, <1>2, <1>3, <1>4, <1>5, <1>6, <1>7, <1>8, <1>9, <1>10 DEF LoginInv

\* What the worker makes of a packet: the form is told of a login only by one, and of a
\* registration only by the one asked for.
LEMMA ReceiveFacts ==
    ASSUME LoginInv, Receive
    PROVE  /\ server' = [server EXCEPT !.out = Tail(@)] /\ server' \in Connection
           /\ Len(server.out) \in Nat /\ Len(server'.out) = Len(server.out) - 1
           /\ DOMAIN server'.out = 1 .. Len(server'.out)
           /\ \A i \in DOMAIN server'.out :
                 i + 1 \in DOMAIN server.out /\ server'.out[i] = server.out[i + 1]
           /\ worker' \in Worker /\ worker'.at = worker.at /\ worker'.open = worker.open
           /\ worker'.running = worker.running
           /\ \E signals \in Seq(Signal) :
                 /\ posted' = posted \o signals /\ Len(signals) \in {1, 2}
                 /\ Running =>
                       \/ /\ signals = <<"login_failed">> /\ ~server.logged
                          /\ worker'.token = worker.token
                       \/ /\ signals = <<"register_success">> /\ ~server.logged
                          /\ worker'.token = NoToken
                          /\ posted = <<>> /\ gui = "loop" /\ window.busy
                       \/ /\ signals = <<"login_success", "session_restored">> /\ server.logged
<1>. DEFINE packet == Head(server.out)
<1>1. /\ server \in Connection /\ worker \in Worker /\ server.out \in Seq(Packet)
      /\ server.out # <<>> /\ 1 \in DOMAIN server.out /\ packet = server.out[1] /\ packet \in Packet
      /\ worker.at = "receive" /\ worker.running
  BY DEF LoginInv, LoginTypeOK, Connection, Receive
<1>2. Learnt(packet) \in Token
  BY <1>1 DEF Learnt, Packet, Worker
<1>3. /\ server' = [server EXCEPT !.out = Tail(@)] /\ server' \in Connection
      /\ server'.out = Tail(server.out)
  <2>. HIDE DEF packet
  <2>1. Tail(server.out) \in Seq(Packet)
    BY <1>1
  <2>2. server' = [server EXCEPT !.out = Tail(@)]
    BY DEF Receive
  <2>. QED BY <1>1, <2>1, <2>2 DEF Connection
<1>4. /\ Len(server.out) \in Nat /\ Len(server'.out) = Len(server.out) - 1
      /\ DOMAIN server'.out = 1 .. Len(server'.out)
      /\ \A i \in DOMAIN server'.out :
            i + 1 \in DOMAIN server.out /\ server'.out[i] = server.out[i + 1]
  <2>. HIDE DEF packet
  <2>1. Tail(server.out) \in Seq(Packet)
    BY <1>1
  <2>. QED BY <1>1, <1>3, <2>1
<1>5. /\ worker' = [worker EXCEPT !.token = Learnt(packet)]
      /\ posted' = posted \o Emitted(packet)
  BY DEF Receive, Post
<1>6. /\ worker' \in Worker /\ worker'.at = worker.at /\ worker'.open = worker.open
      /\ worker'.running = worker.running /\ worker'.token = Learnt(packet)
  <2>. HIDE DEF packet
  <2>. QED BY <1>1, <1>2, <1>5 DEF Worker
<1>7. Emitted(packet) \in Seq(Signal) /\ Len(Emitted(packet)) \in {1, 2}
  <2>1. CASE packet.type = "AUTH_FAILED"
    <3>1. Emitted(packet) = <<"login_failed">>
      BY <2>1 DEF Emitted
    <3>. QED BY <3>1 DEF Signal
  <2>2. CASE packet.type = "AUTH_SUCCESS" /\ Learnt(packet) = NoToken
    <3>1. Emitted(packet) = <<"register_success">>
      BY <2>2 DEF Emitted
    <3>. QED BY <3>1 DEF Signal
  <2>3. CASE packet.type # "AUTH_FAILED" /\ ~(packet.type = "AUTH_SUCCESS" /\ Learnt(packet) = NoToken)
    <3>1. Emitted(packet) = <<"login_success", "session_restored">>
      BY <2>3 DEF Emitted
    <3>2. /\ <<"login_success", "session_restored">> \in Seq(Signal)
          /\ Len(<<"login_success", "session_restored">>) = 2
      BY DEF Signal
    <3>. QED BY <3>1, <3>2
  <2>. QED BY <2>1, <2>2, <2>3
<1>8. ASSUME Running
      PROVE  \/ Emitted(packet) = <<"login_failed">> /\ ~server.logged /\ worker'.token = worker.token
             \/ /\ Emitted(packet) = <<"register_success">> /\ ~server.logged
                /\ worker'.token = NoToken /\ posted = <<>> /\ gui = "loop" /\ window.busy
             \/ Emitted(packet) = <<"login_success", "session_restored">> /\ server.logged
  <2>1. /\ packet.token # NoToken <=> server.logged
        /\ packet.type = "AUTH_FAILED" => packet.token = NoToken
        /\ packet.type = "SESSION_ACK" => packet.token # NoToken
    BY <1>1, <1>8 DEF LoginInv, TokensAreLogins
  <2>2. packet.type = "AUTH_SUCCESS" /\ ~server.logged =>
           posted = <<>> /\ gui = "loop" /\ window.busy /\ worker.token = NoToken
    BY <1>1, <1>8 DEF LoginInv, RegisterHasNoToken
  <2>3. CASE packet.type = "AUTH_FAILED"
    <3>1. Emitted(packet) = <<"login_failed">> /\ Learnt(packet) = worker.token
      BY <2>1, <2>3 DEF Emitted, Learnt
    <3>. QED BY <1>6, <2>1, <2>3, <3>1
  <2>4. CASE packet.type = "AUTH_SUCCESS" /\ ~server.logged
    <3>1. Learnt(packet) = NoToken
      BY <2>1, <2>2, <2>4 DEF Learnt
    <3>2. Emitted(packet) = <<"register_success">>
      BY <2>4, <3>1 DEF Emitted
    <3>. QED BY <1>6, <2>2, <2>4, <3>1, <3>2
  <2>5. CASE packet.type # "AUTH_FAILED" /\ server.logged
    <3>1. Learnt(packet) # NoToken
      BY <2>1, <2>5 DEF Learnt
    <3>2. Emitted(packet) = <<"login_success", "session_restored">>
      BY <2>5, <3>1 DEF Emitted
    <3>. QED BY <2>5, <3>2
  <2>6. packet.type \in {"AUTH_SUCCESS", "AUTH_FAILED", "SESSION_ACK"}
    BY <1>1 DEF Packet
  <2>. QED BY <2>1, <2>3, <2>4, <2>5, <2>6
<1>. QED BY <1>3, <1>4, <1>5, <1>6, <1>7, <1>8

LEMMA ReceiveInv ==
    ASSUME LoginAssumption, LoginInv, Receive
    PROVE  LoginInv'
<1>. USE DEF Running, Unconnected, Finished
<1>0. /\ server' = [server EXCEPT !.out = Tail(@)] /\ server' \in Connection
      /\ Len(server.out) \in Nat /\ Len(server'.out) = Len(server.out) - 1
      /\ DOMAIN server'.out = 1 .. Len(server'.out)
      /\ \A i \in DOMAIN server'.out :
            i + 1 \in DOMAIN server.out /\ server'.out[i] = server.out[i + 1]
      /\ worker' \in Worker /\ worker'.at = worker.at /\ worker'.open = worker.open
      /\ worker'.running = worker.running
  BY ReceiveFacts
<1>a. PICK signals \in Seq(Signal) :
         /\ posted' = posted \o signals /\ Len(signals) \in {1, 2}
         /\ Running =>
               \/ /\ signals = <<"login_failed">> /\ ~server.logged
                  /\ worker'.token = worker.token
               \/ /\ signals = <<"register_success">> /\ ~server.logged
                  /\ worker'.token = NoToken
                  /\ posted = <<>> /\ gui = "loop" /\ window.busy
               \/ /\ signals = <<"login_success", "session_restored">> /\ server.logged
  BY ReceiveFacts
<1>b. /\ window' = window /\ dialogs' = dialogs /\ gui' = gui
      /\ server'.open = server.open /\ server'.in = server.in /\ server'.logged = server.logged
      /\ server'.packets = server.packets
      /\ worker.at = "receive" /\ worker.running /\ worker.open
      /\ posted \in Seq(Signal) /\ server.out # <<>>
  BY <1>0 DEF LoginInv, LoginTypeOK, Connection, Receive
<1>c. /\ posted' \in Seq(Signal)
      /\ Len(posted) \in Nat /\ Len(signals) \in Nat /\ Len(posted') = Len(posted) + Len(signals)
      /\ DOMAIN posted = 1 .. Len(posted) /\ DOMAIN posted' = 1 .. Len(posted')
      /\ \A i \in 1 .. Len(posted') :
            IF i <= Len(posted) THEN posted'[i] = posted[i]
            ELSE i - Len(posted) \in 1 .. Len(signals) /\ posted'[i] = signals[i - Len(posted)]
  BY <1>a, <1>b, PostFacts
<1>d. /\ posted # <<>> => Len(posted) >= 1 /\ posted'[1] = posted[1]
      /\ posted = <<>> => posted'[1] = signals[1]
      /\ posted' # <<>> /\ 1 \in DOMAIN posted'
  <2>1. posted # <<>> => Len(posted) >= 1
    BY <1>b
  <2>2. posted = <<>> => Len(posted) = 0
    BY <1>b
  <2>3. Len(posted') >= 1 /\ 1 \in 1 .. Len(posted')
    BY <1>a, <1>c
  <2>. QED BY <1>c, <2>1, <2>2, <2>3
<1>1. LoginTypeOK'
  BY <1>0, <1>b, <1>c DEF LoginInv, LoginTypeOK
<1>2. WindowFits'
  BY <1>b DEF LoginInv, WindowFits
<1>3. BusyAsks'
  BY <1>b DEF LoginInv, BusyAsks
<1>4. TokensAreLogins'
  BY <1>0, <1>b DEF LoginInv, TokensAreLogins
<1>5. WorkerFits'
  BY <1>0, <1>b DEF LoginInv, WorkerFits
<1>6. ServerFits'
  BY <1>0, <1>b DEF LoginInv, ServerFits
<1>7. SignalsFit'
  <2>1. ASSUME NEW i \in DOMAIN posted', Running
        PROVE  /\ posted'[i] \in {"login_success", "session_restored"} => server'.logged
               /\ posted'[i] \in {"register_success", "login_failed"} => ~server'.logged
               /\ posted'[i] \notin {"connection_error", "disconnected", "thread.quit"}
               /\ posted'[i] = "register_success" =>
                     /\ i = 1 /\ gui' = "loop" /\ window'.busy
                     /\ worker'.token = NoToken
    <3>1. CASE i <= Len(posted)
      <4>1. i \in DOMAIN posted /\ posted'[i] = posted[i] /\ posted # <<>>
        BY <2>1, <3>1, <1>b, <1>c
      <4>2. ~server.logged => worker'.token = worker.token
        BY <2>1, <4>1, <1>a
      <4>. QED BY <2>1, <4>1, <4>2, <1>b DEF LoginInv, SignalsFit
    <3>2. CASE ~(i <= Len(posted))
      <4>1. i - Len(posted) \in 1 .. Len(signals) /\ posted'[i] = signals[i - Len(posted)]
        BY <2>1, <3>2, <1>c
      <4>2. CASE signals = <<"login_failed">> /\ ~server.logged
        BY <4>1, <4>2, <1>b
      <4>3. CASE /\ signals = <<"register_success">> /\ ~server.logged
                 /\ worker'.token = NoToken
                 /\ posted = <<>> /\ gui = "loop" /\ window.busy
        BY <2>1, <4>1, <4>3, <1>b, <1>c
      <4>4. CASE signals = <<"login_success", "session_restored">> /\ server.logged
        BY <4>1, <4>4, <1>b
      <4>. QED BY <2>1, <4>2, <4>3, <4>4, <1>a
    <3>. QED BY <3>1, <3>2
  <2>2. Running' => Running
    BY <1>b
  <2>3. worker'.at # "none"
    BY <1>0, <1>b
  <2>. QED BY <2>1, <2>2, <2>3 DEF SignalsFit
<1>8. GrantIsTold'
  <2>1. SUFFICES ASSUME Running, server.logged, ~window.completed
                 PROVE  posted'[1] = "login_success" /\ Len(server'.out) < 2
    BY <1>b, <1>d DEF GrantIsTold
  <2>2. CASE posted = <<>>
    <3>1. Len(server.out) = 2
      BY <2>1, <2>2 DEF LoginInv, GrantIsTold
    <3>2. signals = <<"login_success", "session_restored">>
      BY <2>1, <1>a
    <3>3. posted'[1] = "login_success"
      BY <2>2, <3>2, <1>d
    <3>4. \A n, m \in Nat : n = 2 /\ m = n - 1 => m < 2
      OBVIOUS
    <3>5. Len(server'.out) \in Nat
      BY <1>0 DEF Connection
    <3>6. Len(server'.out) < 2
      BY <3>1, <3>4, <3>5, <1>0, Zenon
    <3>. QED BY <3>3, <3>6
  <2>3. CASE posted # <<>>
    <3>1. posted[1] = "login_success" /\ Len(server.out) < 2
      BY <2>1, <2>3 DEF LoginInv, GrantIsTold
    <3>. QED BY <2>3, <3>1, <1>0, <1>d
  <2>. QED BY <2>2, <2>3
<1>9. OneAnswer'
  <2>1. Running /\ ~server.logged => Len(signals) = 1
    BY <1>a
  <2>2. Running /\ ~server.logged =>
           Len(server'.out) + Len(posted') = Len(server.out) + Len(posted)
    <3>1. \A a, b \in Nat : (a - 1) + (b + 1) = a + b
      OBVIOUS
    <3>2. Running /\ ~server.logged => Len(posted') = Len(posted) + 1
      BY <2>1, <1>c
    <3>3. (Len(server.out) - 1) + (Len(posted) + 1) = Len(server.out) + Len(posted)
      BY <3>1, <1>0, <1>c, Zenon
    <3>4. Len(server'.out) = Len(server.out) - 1
      BY <1>0
    <3>. QED BY <3>2, <3>3, <3>4, Zenon
  <2>. QED BY <2>2, <1>0, <1>b DEF LoginInv, OneAnswer
<1>10. RegisterHasNoToken'
  <2>1. ASSUME Running, ~server.logged, NEW i \in DOMAIN server'.out
        PROVE  server'.out[i].type # "AUTH_SUCCESS"
    <3>1. i + 1 \in DOMAIN server.out /\ server'.out[i] = server.out[i + 1] /\ i + 1 # 1
      BY <1>0
    <3>. QED BY <2>1, <3>1 DEF LoginInv, RegisterHasNoToken
  <2>2. ASSUME Running, worker'.token # NoToken, gui # "stop"
        PROVE  window.busy /\ gui # "REGISTER" /\ server.in # <<"REGISTER">>
    <3>1. CASE server.logged
      <4>1. window.busy /\ gui = "loop" /\ server.in = <<>>
        BY <2>2, <3>1 DEF LoginInv, BusyAsks, WindowFits, ServerFits
      <4>2. <<>> # <<"REGISTER">>
        OBVIOUS
      <4>. QED BY <4>1, <4>2
    <3>2. CASE ~server.logged
      <4>1. worker.token # NoToken
        BY <2>2, <3>2, <1>a
      <4>. QED BY <2>2, <4>1, <1>b DEF LoginInv, RegisterHasNoToken
    <3>. QED BY <3>1, <3>2
  <2>. QED BY <2>1, <2>2, <1>b DEF RegisterHasNoToken
<1>. QED BY <1>1, <1>2, <1>3, <1>4, <1>5, <1>6, <1>7, <1>8, <1>9, <1>10 DEF LoginInv

\* What the server may answer with.
Refusals == {Failed, Failed \o Failed}
Registrations == {Registered, Registered \o Failed}
Logins == {Welcome("granted"), Welcome("typed")}

LEMMA LastOfSequence ==
    ASSUME NEW S, NEW s \in Seq(S), Len(s) = 1
    PROVE  Tail(s) = <<>>
<1>1. s # <<>>
  OBVIOUS
<1>2. Tail(s) \in Seq(S) /\ Len(Tail(s)) = 0
  BY <1>1
<1>. QED BY <1>2, EmptySeq

LEMMA ThreeReplies ==
    ASSUME NEW a \in Seq(Packet), NEW b \in Seq(Packet), NEW c \in Seq(Packet)
    PROVE  (a \o b) \o c = a \o (b \o c)
  BY ConcatAssociative

LEMMA TwoPackets ==
    ASSUME NEW a \in Packet, NEW b \in Packet
    PROVE  /\ <<a>> \o <<b>> \in Seq(Packet) /\ Len(<<a>> \o <<b>>) = 2
           /\ DOMAIN (<<a>> \o <<b>>) = 1 .. 2
           /\ (<<a>> \o <<b>>)[1] = a /\ (<<a>> \o <<b>>)[2] = b
  OBVIOUS

LEMMA RefusalFacts ==
    ASSUME NEW reply \in Refusals
    PROVE  /\ reply \in Seq(Packet) /\ Len(reply) \in {1, 2} /\ DOMAIN reply = 1 .. Len(reply)
           /\ \A i \in DOMAIN reply : reply[i].type = "AUTH_FAILED" /\ reply[i].token = NoToken
<1>. DEFINE refusal == [type |-> "AUTH_FAILED", token |-> NoToken]
<1>1. refusal \in Packet /\ refusal.type = "AUTH_FAILED" /\ refusal.token = NoToken
  BY DEF Packet, Token
<1>2. Failed = <<refusal>>
  BY DEF Failed
<1>. HIDE DEF refusal
<1>3. CASE reply = Failed
  BY <1>1, <1>2, <1>3
<1>4. CASE reply = Failed \o Failed
  <2>1. /\ reply \in Seq(Packet) /\ Len(reply) = 2 /\ DOMAIN reply = 1 .. 2
        /\ reply[1] = refusal /\ reply[2] = refusal
    BY <1>1, <1>2, <1>4, TwoPackets
  <2>. QED BY <1>1, <2>1
<1>. QED BY <1>3, <1>4 DEF Refusals

LEMMA RegistrationFacts ==
    ASSUME NEW reply \in Registrations
    PROVE  /\ reply \in Seq(Packet) /\ Len(reply) \in {1, 2} /\ DOMAIN reply = 1 .. Len(reply)
           /\ \A i \in DOMAIN reply : /\ reply[i].type # "SESSION_ACK" /\ reply[i].token = NoToken
                                      /\ reply[i].type = "AUTH_SUCCESS" => i = 1
<1>. DEFINE refusal == [type |-> "AUTH_FAILED", token |-> NoToken]
            consent == [type |-> "AUTH_SUCCESS", token |-> NoToken]
<1>1. /\ refusal \in Packet /\ refusal.type = "AUTH_FAILED" /\ refusal.token = NoToken
      /\ consent \in Packet /\ consent.type = "AUTH_SUCCESS" /\ consent.token = NoToken
  BY DEF Packet, Token
<1>2. Failed = <<refusal>> /\ Registered = <<consent>>
  BY DEF Failed, Registered
<1>. HIDE DEF refusal, consent
<1>3. CASE reply = Registered
  BY <1>1, <1>2, <1>3
<1>4. CASE reply = Registered \o Failed
  <2>1. /\ reply \in Seq(Packet) /\ Len(reply) = 2 /\ DOMAIN reply = 1 .. 2
        /\ reply[1] = consent /\ reply[2] = refusal
    <3>1. reply = <<consent>> \o <<refusal>>
      BY <1>2, <1>4
    <3>2. LET both == <<consent>> \o <<refusal>>
          IN  /\ both \in Seq(Packet) /\ Len(both) = 2 /\ DOMAIN both = 1 .. 2
              /\ both[1] = consent /\ both[2] = refusal
      BY <1>1, TwoPackets
    <3>. QED BY <3>1, <3>2
  <2>. QED BY <1>1, <2>1
<1>. QED BY <1>3, <1>4 DEF Registrations

LEMMA WelcomeFacts ==
    ASSUME LoginAssumption, NEW reply \in Logins
    PROVE  /\ reply \in Seq(Packet) /\ Len(reply) = 2 /\ DOMAIN reply = 1 .. 2
           /\ \A i \in DOMAIN reply : reply[i].type # "AUTH_FAILED" /\ reply[i].token # NoToken
<1>1. PICK token \in {"granted", "typed"} : reply = Welcome(token)
  BY DEF Logins
<1>. DEFINE success == [type |-> "AUTH_SUCCESS", token |-> token]
            ack == [type |-> "SESSION_ACK", token |-> token]
<1>2. /\ success \in Packet /\ success.type # "AUTH_FAILED" /\ success.token # NoToken
      /\ ack \in Packet /\ ack.type # "AUTH_FAILED" /\ ack.token # NoToken
  BY DEF Packet, Token, LoginAssumption
<1>3. reply = <<success, ack>>
  BY <1>1 DEF Welcome
<1>. HIDE DEF success, ack
<1>. QED BY <1>2, <1>3

\* A request is let in by a login, or answered by a refusal or a registration.
LEMMA AnswerFacts ==
    ASSUME LoginAssumption, LoginInv, Answer
    PROVE  /\ server' \in Connection /\ server'.in = Tail(server.in)
           /\ UNCHANGED <<window, dialogs, gui, posted, worker>>
           /\ server'.logged => server'.open
           /\ server'.open /\ ~server'.logged => server'.packets < MaxPackets
           /\ \E reply \in Seq(Packet) :
                 /\ server'.out = server.out \o reply
                 /\ \/ reply \in Logins /\ server'.logged
                    \/ /\ reply \in Refusals /\ ~server'.logged
                       /\ server'.open => Len(reply) = 1
                    \/ /\ reply \in Registrations /\ ~server'.logged
                       /\ server'.open => Len(reply) = 1
                       /\ Head(server.in) = "REGISTER"
<1>. DEFINE request == Head(server.in)
            last == LastPacket(server.packets)
<1>1. PICK accepted \in BOOLEAN :
         LET enters == accepted /\ request # "REGISTER"
         IN  server' = [server EXCEPT
                !.in = Tail(@), !.logged = enters, !.packets = @ + 1,
                !.open = enters \/ ~last,
                !.out = @ \o (IF accepted THEN Accepted(request) ELSE Failed)
                          \o (IF last /\ ~enters THEN Failed ELSE <<>>)]
  BY DEF Answer
<1>. DEFINE enters == accepted /\ request # "REGISTER"
            open == enters \/ ~last
            first == IF accepted THEN Accepted(request) ELSE Failed
            second == IF last /\ ~enters THEN Failed ELSE <<>>
            in == Tail(server.in)
            out == (server.out \o first) \o second
            packets == server.packets + 1
<1>2. /\ server \in Connection /\ server.in \in Seq(AuthRequest) /\ server.in # <<>>
      /\ server.out \in Seq(Packet) /\ server.open /\ ~server.logged
      /\ server.packets \in 0 .. MaxPackets /\ server.packets < MaxPackets
      /\ request \in AuthRequest /\ in \in Seq(AuthRequest)
  BY DEF LoginInv, LoginTypeOK, Connection, Answer, BusyAsks
<1>3. server' = [server EXCEPT !.in = in, !.logged = enters, !.packets = packets,
                               !.open = open, !.out = out]
  BY <1>1
<1>4. packets \in 0 .. MaxPackets /\ (~last => packets < MaxPackets)
  BY <1>2 DEF LoginAssumption, LastPacket
<1>5. /\ Failed \in Seq(Packet) /\ Len(Failed) = 1 /\ Registered \in Seq(Packet) /\ Len(Registered) = 1
      /\ Welcome("granted") \in Seq(Packet) /\ Welcome("typed") \in Seq(Packet)
  BY RefusalFacts, RegistrationFacts, WelcomeFacts DEF Failed, Registered, Refusals, Registrations, Logins
<1>6. /\ Accepted("REGISTER") = Registered /\ Accepted("LOGIN") = Welcome("granted")
      /\ Accepted("RECONNECT") = Welcome("typed")
  BY DEF Accepted
<1>7. /\ first \in Seq(Packet) /\ second \in Seq(Packet)
      /\ \/ first \o second \in Logins /\ enters
         \/ first \o second \in Refusals /\ ~enters /\ (open => Len(first \o second) = 1)
         \/ /\ first \o second \in Registrations /\ ~enters /\ (open => Len(first \o second) = 1)
            /\ request = "REGISTER"
  <2>0. \A s \in Seq(Packet) : s \o <<>> = s
    OBVIOUS
  <2>1. CASE enters
    <3>1. first \in Logins /\ second = <<>> /\ first \in Seq(Packet)
      BY <1>2, <1>5, <1>6, <2>1 DEF Logins, AuthRequest
    <3>. HIDE DEF first, second
    <3>2. first \o second \in Logins /\ second \in Seq(Packet)
      BY <2>0, <3>1
    <3>. QED BY <2>1, <3>1, <3>2
  <2>2. CASE accepted /\ ~enters
    <3>1. first = Registered /\ request = "REGISTER" /\ second = IF last THEN Failed ELSE <<>>
      BY <1>6, <2>2
    <3>. HIDE DEF first, second, last, enters
    <3>2. /\ first \o second = IF last THEN Registered \o Failed ELSE Registered
          /\ second \in Seq(Packet) /\ first \in Seq(Packet)
      BY <1>5, <2>0, <3>1
    <3>. QED BY <1>5, <2>2, <3>1, <3>2 DEF Registrations
  <2>3. CASE ~accepted
    <3>1. first = Failed /\ second = (IF last THEN Failed ELSE <<>>) /\ ~enters
      BY <2>3
    <3>. HIDE DEF first, second, last, enters
    <3>2. /\ first \o second = IF last THEN Failed \o Failed ELSE Failed
          /\ second \in Seq(Packet) /\ first \in Seq(Packet)
      BY <1>5, <2>0, <3>1
    <3>. QED BY <1>5, <3>1, <3>2 DEF Refusals
  <2>. QED BY <2>1, <2>2, <2>3
<1>8. out = server.out \o (first \o second) /\ first \o second \in Seq(Packet) /\ out \in Seq(Packet)
  <2>. HIDE DEF first, second
  <2>1. server.out \in Seq(Packet) /\ first \in Seq(Packet) /\ second \in Seq(Packet)
    BY <1>2, <1>7
  <2>2. out = server.out \o (first \o second)
    BY <2>1, ThreeReplies
  <2>. QED BY <2>1, <2>2
<1>9. enters \in BOOLEAN /\ open \in BOOLEAN
  BY DEF LastPacket
<1>10. /\ server' \in Connection /\ server'.in = in /\ server'.logged = enters
       /\ server'.packets = packets /\ server'.open = open /\ server'.out = out
  <2>. HIDE DEF in, enters, packets, open, out
  <2>. QED BY <1>2, <1>3, <1>4, <1>8, <1>9 DEF Connection
<1>11. UNCHANGED <<window, dialogs, gui, posted, worker>>
  BY DEF Answer
<1>12. (enters => open) /\ (open /\ ~enters => packets < MaxPackets)
  BY <1>4
<1>13. \/ first \o second \in Logins /\ server'.logged
       \/ first \o second \in Refusals /\ ~server'.logged /\ (server'.open => Len(first \o second) = 1)
       \/ /\ first \o second \in Registrations /\ ~server'.logged
          /\ server'.open => Len(first \o second) = 1
          /\ Head(server.in) = "REGISTER"
  <2>. HIDE DEF first, second, enters, open
  <2>. QED BY <1>7, <1>10
<1>14. \E reply \in Seq(Packet) :
                 /\ server'.out = server.out \o reply
                 /\ \/ reply \in Logins /\ server'.logged
                    \/ /\ reply \in Refusals /\ ~server'.logged
                       /\ server'.open => Len(reply) = 1
                    \/ /\ reply \in Registrations /\ ~server'.logged
                       /\ server'.open => Len(reply) = 1
                       /\ Head(server.in) = "REGISTER"
  <2>1. server'.out = server.out \o (first \o second) /\ first \o second \in Seq(Packet)
    <3>. HIDE DEF first, second
    <3>. QED BY <1>8, <1>10
  <2>. HIDE DEF first, second
  <2>. QED BY <1>13, <2>1
<1>15. /\ server' \in Connection /\ server'.in = Tail(server.in)
       /\ server'.logged => server'.open
       /\ server'.open /\ ~server'.logged => server'.packets < MaxPackets
  <2>. HIDE DEF enters, packets, open, out
  <2>. QED BY <1>10, <1>12
<1>. QED BY <1>11, <1>14, <1>15

LEMMA AnswerInv ==
    ASSUME LoginAssumption, LoginInv, Answer
    PROVE  LoginInv'
<1>. USE DEF Running, Unconnected, Finished
<1>0. /\ server' \in Connection /\ server'.in = Tail(server.in)
      /\ window' = window /\ dialogs' = dialogs /\ gui' = gui /\ posted' = posted /\ worker' = worker
      /\ server'.logged => server'.open
      /\ server'.open /\ ~server'.logged => server'.packets < MaxPackets
  BY AnswerFacts
<1>a. PICK reply \in Seq(Packet) :
         /\ server'.out = server.out \o reply
         /\ \/ reply \in Logins /\ server'.logged
            \/ /\ reply \in Refusals /\ ~server'.logged
               /\ server'.open => Len(reply) = 1
            \/ /\ reply \in Registrations /\ ~server'.logged
               /\ server'.open => Len(reply) = 1
               /\ Head(server.in) = "REGISTER"
  BY AnswerFacts
<1>b. /\ server.open /\ server.in # <<>> /\ ~server.logged
      /\ window.busy /\ ~window.completed /\ gui = "loop"
      /\ server.out \in Seq(Packet) /\ server.in \in Seq(AuthRequest)
  BY DEF LoginInv, LoginTypeOK, Connection, Answer, BusyAsks, WindowFits
<1>c. Running => /\ posted = <<>> /\ Len(server.in) = 1 /\ worker.at = "receive"
                 /\ server'.in = <<>> /\ server'.out = reply /\ DOMAIN reply = 1 .. Len(reply)
                 /\ Len(posted) = 0
  <2>1. SUFFICES ASSUME Running
                 PROVE  /\ posted = <<>> /\ Len(server.in) = 1 /\ worker.at = "receive"
                        /\ server'.in = <<>> /\ server'.out = reply /\ DOMAIN reply = 1 .. Len(reply)
                        /\ Len(posted) = 0
    OBVIOUS
  <2>2. posted = <<>> /\ server.out = <<>> /\ Len(server.in) = 1
    BY <2>1, <1>b, AskedAlone
  <2>3. worker.at = "receive"
    BY <2>1, <1>b DEF LoginInv, ServerFits
  <2>4. server'.in = <<>>
    <3>1. Tail(server.in) = <<>>
      BY <2>2, <1>b, LastOfSequence
    <3>. QED BY <3>1, <1>0
  <2>5. server'.out = reply
    BY <2>2, <1>a
  <2>. QED BY <2>2, <2>3, <2>4, <2>5
<1>d. /\ Len(reply) \in {1, 2}
      /\ \A i \in DOMAIN reply :
            /\ reply[i].token # NoToken <=> server'.logged
            /\ reply[i].type = "AUTH_FAILED" => reply[i].token = NoToken
            /\ reply[i].type = "SESSION_ACK" => reply[i].token # NoToken
            /\ reply[i].type = "AUTH_SUCCESS" /\ ~server'.logged => i = 1 /\ Head(server.in) = "REGISTER"
      /\ server'.logged => Len(reply) = 2
      /\ server'.open /\ ~server'.logged => Len(reply) = 1
  <2>1. CASE reply \in Logins /\ server'.logged
    BY <2>1, WelcomeFacts
  <2>2. CASE reply \in Refusals /\ ~server'.logged /\ (server'.open => Len(reply) = 1)
    BY <2>2, RefusalFacts
  <2>3. CASE /\ reply \in Registrations /\ ~server'.logged
             /\ server'.open => Len(reply) = 1
             /\ Head(server.in) = "REGISTER"
    BY <2>3, RegistrationFacts
  <2>. QED BY <2>1, <2>2, <2>3, <1>a
<1>1. LoginTypeOK'
  BY <1>0 DEF LoginInv, LoginTypeOK
<1>2. WindowFits'
  BY <1>0, <1>b DEF LoginInv, WindowFits
<1>3. BusyAsks'
  BY <1>0, <1>b DEF LoginInv, BusyAsks
<1>4. TokensAreLogins'
  BY <1>0, <1>b, <1>c, <1>d DEF LoginInv, TokensAreLogins
<1>5. WorkerFits'
  BY <1>0 DEF LoginInv, WorkerFits
<1>6. ServerFits'
  BY <1>0, <1>b, <1>c DEF LoginInv, ServerFits
<1>7. SignalsFit'
  BY <1>0, <1>b, <1>c DEF LoginInv, SignalsFit
<1>8. GrantIsTold'
  BY <1>0, <1>b, <1>c, <1>d DEF LoginInv, GrantIsTold
<1>9. OneAnswer'
  <2>1. SUFFICES ASSUME Running, ~server'.logged
                 PROVE  /\ Len(server'.out) + Len(posted') <= 2
                        /\ server'.open => Len(server'.in) + (Len(server'.out) + Len(posted')) <= 1
    BY <1>0, <1>b DEF OneAnswer
  <2>2. Len(posted') = 0 /\ Len(server'.in) = 0 /\ Len(server'.out) = Len(reply)
    BY <2>1, <1>0, <1>c
  <2>3. 1 + 0 <= 2 /\ 2 + 0 <= 2 /\ 0 + (1 + 0) <= 1
    OBVIOUS
  <2>4. Len(server'.out) + Len(posted') <= 2
    BY <2>2, <2>3, <1>d
  <2>5. server'.open => Len(server'.in) + (Len(server'.out) + Len(posted')) <= 1
    BY <2>1, <2>2, <2>3, <1>d
  <2>. QED BY <2>4, <2>5
<1>10. RegisterHasNoToken'
  <2>1. Running /\ Head(server.in) = "REGISTER" => worker.token = NoToken
    <3>1. ASSUME Running, Head(server.in) = "REGISTER" PROVE server.in = <<"REGISTER">>
      BY <3>1, <1>b, <1>c
    <3>. QED BY <3>1, <1>b, <1>c DEF LoginInv, RegisterHasNoToken
  <2>2. <<>> # <<"REGISTER">>
    OBVIOUS
  <2>. QED BY <2>1, <2>2, <1>0, <1>b, <1>c, <1>d DEF LoginInv, RegisterHasNoToken
<1>. QED BY <1>1, <1>2, <1>3, <1>4, <1>5, <1>6, <1>7, <1>8, <1>9, <1>10 DEF LoginInv

\* What is left of the connection when the server or the network ends it.
LEMMA ServerClosesFacts ==
    ASSUME LoginInv, ServerCloses
    PROVE  /\ server' \in Connection /\ ~server'.open /\ server'.in = <<>>
           /\ \/ server'.out = server.out /\ server'.logged = server.logged
              \/ server'.out = <<>> /\ (server'.logged <=> server.logged /\ Len(server.out) < 2)
           /\ UNCHANGED <<window, dialogs, gui, posted, worker>>
<1>1. server \in Connection /\ <<>> \in Seq(AuthRequest) /\ <<>> \in Seq(Packet)
  BY DEF LoginInv, LoginTypeOK
<1>2. CASE server' = [server EXCEPT !.open = FALSE, !.in = <<>>]
  BY <1>1, <1>2 DEF ServerCloses, Connection
<1>3. CASE server' = [server EXCEPT !.open = FALSE, !.in = <<>>, !.out = <<>>,
                                    !.logged = @ /\ Len(server.out) < Len(Welcome(NoToken))]
  <2>. DEFINE logged == server.logged /\ Len(server.out) < 2
  <2>1. Len(Welcome(NoToken)) = 2
    BY DEF Welcome
  <2>2. server' = [server EXCEPT !.open = FALSE, !.in = <<>>, !.out = <<>>, !.logged = logged]
    BY <1>3, <2>1
  <2>3. logged \in BOOLEAN
    OBVIOUS
  <2>. HIDE DEF logged
  <2>4. server' \in Connection
    BY <1>1, <2>2, <2>3, ConnectionClosed
  <2>5. /\ server'.open = FALSE /\ server'.in = <<>> /\ server'.out = <<>> /\ server'.logged = logged
    BY <1>1, <2>2 DEF Connection
  <2>. QED BY <2>4, <2>5 DEF ServerCloses, logged
<1>. QED BY <1>2, <1>3 DEF ServerCloses

LEMMA ServerClosesInv ==
    ASSUME LoginAssumption, LoginInv, ServerCloses
    PROVE  LoginInv'
<1>. USE DEF Running, Unconnected, Finished
<1>0. /\ server' \in Connection /\ ~server'.open /\ server'.in = <<>>
      /\ \/ server'.out = server.out /\ server'.logged = server.logged
         \/ server'.out = <<>> /\ (server'.logged <=> server.logged /\ Len(server.out) < 2)
      /\ window' = window /\ dialogs' = dialogs /\ gui' = gui /\ posted' = posted /\ worker' = worker
      /\ server'.logged => server.logged
  BY ServerClosesFacts
<1>a. /\ server.out \in Seq(Packet) /\ Len(server.out) \in Nat /\ posted \in Seq(Signal)
      /\ Len(posted) \in Nat /\ (posted # <<>> => 1 \in DOMAIN posted)
  BY DEF LoginInv, LoginTypeOK, Connection
<1>b. Running /\ server.logged /\ ~server'.logged => posted = <<>> /\ server'.out = <<>>
  <2>1. ASSUME Running, server.logged, ~server'.logged PROVE posted = <<>> /\ server'.out = <<>>
    <3>1. server'.out = <<>> /\ ~(Len(server.out) < 2)
      BY <1>0, <2>1
    <3>2. ~window.completed
      BY <3>1 DEF LoginInv, TokensAreLogins
    <3>. QED BY <2>1, <3>1, <3>2 DEF LoginInv, GrantIsTold
  <2>. QED BY <2>1
<1>1. LoginTypeOK'
  BY <1>0 DEF LoginInv, LoginTypeOK
<1>2. WindowFits'
  BY <1>0 DEF LoginInv, WindowFits, TokensAreLogins
<1>3. BusyAsks'
  BY <1>0 DEF LoginInv, BusyAsks
<1>4. TokensAreLogins'
  <2>1. CASE server'.out = server.out /\ server'.logged = server.logged
    BY <1>0, <2>1 DEF LoginInv, TokensAreLogins
  <2>2. CASE server'.out = <<>>
    BY <1>0, <2>2 DEF LoginInv, TokensAreLogins
  <2>. QED BY <1>0, <2>1, <2>2
<1>5. WorkerFits'
  BY <1>0 DEF LoginInv, WorkerFits
<1>6. ServerFits'
  BY <1>0 DEF LoginInv, ServerFits
<1>7. SignalsFit'
  BY <1>0, <1>a, <1>b DEF LoginInv, SignalsFit
<1>8. GrantIsTold'
  <2>1. CASE server'.out = server.out /\ server'.logged = server.logged
    BY <1>0, <2>1 DEF LoginInv, GrantIsTold
  <2>2. CASE server'.out = <<>> /\ (server'.logged <=> server.logged /\ Len(server.out) < 2)
    <3>1. SUFFICES ASSUME Running, server'.logged, ~window.completed
                   PROVE  posted # <<>> /\ posted[1] = "login_success" /\ Len(server'.out) < 2
      BY <1>0 DEF GrantIsTold
    <3>2. server.logged /\ ~(Len(server.out) = 2)
      <4>1. Len(server.out) < 2
        BY <2>2, <3>1
      <4>2. \A n \in Nat : n < 2 => n # 2
        OBVIOUS
      <4>3. ~(Len(server.out) = 2)
        BY <4>1, <4>2, <1>a, Zenon
      <4>. QED BY <2>2, <3>1, <4>3
    <3>3. posted # <<>> /\ posted[1] = "login_success"
      BY <3>1, <3>2 DEF LoginInv, GrantIsTold
    <3>4. Len(server'.out) < 2
      BY <2>2
    <3>. QED BY <3>3, <3>4
  <2>. QED BY <1>0, <2>1, <2>2
<1>9. OneAnswer'
  <2>. DEFINE waiting == window.busy /\ gui = "loop"
              before == Len(server.out) + Len(posted)
              after == Len(server'.out) + Len(posted)
  <2>1. SUFFICES ASSUME Running, worker.at = "receive", ~server'.logged, gui # "stop"
                 PROVE  after <= IF waiting THEN 2 ELSE 1
    BY <1>0 DEF OneAnswer
  <2>2. CASE server.logged
    <3>1. after = 0
      BY <1>b, <2>1, <2>2
    <3>. QED BY <3>1
  <2>3. CASE ~server.logged
    <3>1. before <= IF waiting THEN 2 ELSE 1
      BY <2>1, <2>3 DEF LoginInv, OneAnswer
    <3>2. after <= before /\ before \in Nat /\ after \in Nat
      <4>1. Len(server'.out) \in Nat /\ Len(server'.out) <= Len(server.out)
        BY <1>0, <1>a
      <4>. QED BY <4>1, <1>a
    <3>. HIDE DEF waiting, before, after
    <3>. QED BY <3>1, <3>2
  <2>. QED BY <2>2, <2>3
<1>10. RegisterHasNoToken'
  <2>1. <<>> # <<"REGISTER">>
    OBVIOUS
  <2>2. Running => \A i \in DOMAIN server'.out : server'.out[i].type = "AUTH_SUCCESS" /\ ~server'.logged =>
           /\ i = 1 /\ posted = <<>> /\ gui = "loop" /\ window.busy
           /\ worker.token = NoToken
    BY <1>0, <1>b DEF LoginInv, RegisterHasNoToken
  <2>. QED BY <1>0, <2>1, <2>2 DEF LoginInv, RegisterHasNoToken
<1>. QED BY <1>1, <1>2, <1>3, <1>4, <1>5, <1>6, <1>7, <1>8, <1>9, <1>10 DEF LoginInv

LEMMA CloseDashboardInv ==
    ASSUME LoginAssumption, LoginInv, CloseDashboard
    PROVE  LoginInv'
<1>. USE LoginAssumption DEF CloseDashboard, Running, Unconnected, Finished, NoWorker, AuthRequest, Token
<1>1. LoginTypeOK'
  BY DEF LoginInv, LoginTypeOK, Window, Worker, Connection, WorkerAt, NoWorker
<1>2. WindowFits'
  BY DEF LoginInv, LoginTypeOK, Window, Worker, Connection, WindowFits, BusyAsks, WorkerFits
<1>3. BusyAsks'
  BY DEF LoginInv, LoginTypeOK, Window, Worker, Connection, BusyAsks, WindowFits, ServerFits
<1>4. TokensAreLogins'
  BY DEF LoginInv, LoginTypeOK, Window, Worker, Connection, TokensAreLogins, ServerFits
<1>5. WorkerFits'
  <2>1. worker.at = "none" => worker' = worker
    <3>1. ASSUME worker.at = "none", worker' = [worker EXCEPT !.running = FALSE, !.open = FALSE]
          PROVE  worker' = worker
      <4>1. worker \in Worker /\ worker.open = FALSE /\ worker.running = FALSE
        BY <3>1 DEF LoginInv, LoginTypeOK, WorkerFits
      <4>. QED BY <3>1, <4>1, WorkerHalted
    <3>. QED BY <3>1
  <2>. QED BY <2>1 DEF LoginInv, LoginTypeOK, Window, Worker, WorkerFits
<1>6. ServerFits'
  BY DEF LoginInv, LoginTypeOK, Window, Worker, Connection, ServerFits, WindowFits, WorkerFits
<1>7. SignalsFit'
  BY DEF LoginInv, LoginTypeOK, Window, Worker, Connection, SignalsFit, ServerFits, WorkerFits
<1>8. GrantIsTold'
  BY DEF LoginInv, LoginTypeOK, Window, Worker, Connection, GrantIsTold, SignalsFit, WindowFits, ServerFits
<1>9. OneAnswer'
  BY DEF LoginInv, LoginTypeOK, Window, Worker, Connection, OneAnswer, ServerFits, WorkerFits, WindowFits
<1>10. RegisterHasNoToken'
  BY DEF LoginInv, LoginTypeOK, Window, Worker, Connection, RegisterHasNoToken, SignalsFit, ServerFits, WorkerFits
<1>. QED BY <1>1, <1>2, <1>3, <1>4, <1>5, <1>6, <1>7, <1>8, <1>9, <1>10 DEF LoginInv

------------------------------------------------------------------------------
(* The sign-in as a whole, alone or with the dashboard after it.           *)

LoginSteps == LoginNext \/ CloseDashboard

LEMMA LoginInitInv == LoginAssumption /\ LoginInit => LoginInv
<1>. SUFFICES ASSUME LoginAssumption, LoginInit PROVE LoginInv
  OBVIOUS
<1>. USE LoginAssumption DEF LoginInit, NoWorker, NewConnection, Running, Unconnected, Finished, AuthRequest, Token
<1>1. LoginTypeOK
  <2>1. window \in Window /\ worker \in Worker
    BY DEF Window, Worker, WorkerAt
  <2>2. server \in Connection
    BY DEF Connection
  <2>3. dialogs \in Seq({"registered", "failed"}) /\ posted \in Seq(Signal)
    OBVIOUS
  <2>. QED BY <2>1, <2>2, <2>3 DEF LoginTypeOK
<1>2. WindowFits /\ BusyAsks /\ TokensAreLogins /\ WorkerFits
  BY DEF WindowFits, BusyAsks, TokensAreLogins, WorkerFits
<1>3. ServerFits /\ SignalsFit /\ GrantIsTold
  BY DEF ServerFits, SignalsFit, GrantIsTold
<1>4. OneAnswer /\ RegisterHasNoToken
  BY DEF OneAnswer, RegisterHasNoToken
<1>. QED BY <1>1, <1>2, <1>3, <1>4 DEF LoginInv

LEMMA LoginStutterInv == LoginInv /\ UNCHANGED loginVars => LoginInv'
<1>. SUFFICES ASSUME LoginInv, UNCHANGED loginVars PROVE LoginInv'
  OBVIOUS
<1>. USE DEF Running
<1>1. /\ window' = window /\ dialogs' = dialogs /\ gui' = gui /\ posted' = posted
      /\ worker' = worker /\ server' = server
  BY DEF loginVars
<1>2. LoginTypeOK' /\ WindowFits' /\ BusyAsks' /\ TokensAreLogins' /\ WorkerFits'
  BY <1>1 DEF LoginInv, LoginTypeOK, WindowFits, BusyAsks, TokensAreLogins, WorkerFits
<1>3. ServerFits' /\ SignalsFit'
  BY <1>1 DEF LoginInv, ServerFits, SignalsFit
<1>4. GrantIsTold' /\ OneAnswer' /\ RegisterHasNoToken'
  BY <1>1 DEF LoginInv, GrantIsTold, OneAnswer, RegisterHasNoToken
<1>. QED BY <1>2, <1>3, <1>4 DEF LoginInv

LEMMA LoginStepInv == LoginAssumption /\ LoginInv /\ [LoginSteps]_loginVars => LoginInv'
<1>. SUFFICES ASSUME LoginAssumption, LoginInv, [LoginSteps]_loginVars PROVE LoginInv'
  OBVIOUS
<1>1. CASE GuiStep
  BY <1>1, StoppedInv, SendDroppedInv, SendFailsInv, SendInv, OnLoginSuccessInv, OnSessionRestoredInv,
     OnRegisterSuccessInv, OnFailureInv, OnDisconnectedInv, OnFinishedInv, ThreadDeletedInv,
     OpenDashboardInv DEF GuiStep
<1>2. CASE WorkerStep
  BY <1>2, CreateSocketInv, ConnectSocketInv, ConnectedInv, ConnectFailsInv, ReceiveEndInv,
     ReceiveFailsInv, ReceiveInv DEF WorkerStep
<1>3. ASSUME NEW request \in AuthRequest, Submit(request) PROVE LoginInv'
  BY <1>3, SubmitInv
<1>4. CASE Dismiss \/ CloseWindow \/ Answer \/ ServerCloses \/ CloseDashboard
  BY <1>4, DismissInv, CloseWindowInv, AnswerInv, ServerClosesInv, CloseDashboardInv
<1>5. CASE UNCHANGED loginVars
  BY <1>5, LoginStutterInv
<1>. QED BY <1>1, <1>2, <1>3, <1>4, <1>5 DEF LoginSteps, LoginNext, Over

\* What the desktop does is a step of the sign-in, or leaves it alone.
LEMMA DesktopIsLogin == DesktopInit /\ [][DesktopNext]_desktopVars => LoginInit /\ [][LoginSteps]_loginVars
<1>1. DesktopInit => LoginInit
  BY DEF DesktopInit
<1>2. [DesktopNext]_desktopVars => [LoginSteps]_loginVars
  <2>1. RestoredLate => LoginNext
    BY DEF RestoredLate, LoginNext, GuiStep
  <2>. QED BY <2>1 DEF DesktopNext, desktopVars, LoginStep, DashboardStep, LoginSteps
<1>. QED BY <1>1, <1>2, PTL

LEMMA LoginIsSteps == LoginSpec => LoginInit /\ [][LoginSteps]_loginVars
<1>1. [LoginNext]_loginVars => [LoginSteps]_loginVars
  BY DEF LoginSteps
<1>. QED BY <1>1, PTL DEF LoginSpec

LEMMA LoginStays == LoginInit /\ [][LoginSteps]_loginVars => []LoginInv
  BY LoginAssumption, LoginInitInv, LoginStepInv, PTL

\* The invariant of the sign-in, and the types in it, hold of the form by itself
\* (login_window.py, tcp_controller.py).
THEOREM SignInInvariant == LoginSpec => []LoginInv
  BY LoginIsSteps, LoginStays, PTL

\* The same for the whole client, in which the dashboard's slots run on the form's thread
\* (login_window.py, dashboard_window.py).
THEOREM DesktopSignInInvariant == DesktopSpec => []LoginInv
  BY DesktopIsLogin, LoginStays, PTL DEF DesktopSpec

\* One sign-in opens one dashboard (login_window.py, on_login_success and
\* on_session_restored), however many packets and signals tell of it.
THEOREM DashboardOpensOnce == DesktopSpec => []OpenedOnce
<1>1. LoginInv => OpenedOnce
  BY DEF LoginInv, WindowFits, OpenedOnce
<1>. QED BY <1>1, DesktopSignInInvariant, PTL

LEMMA FreeForm == LoginInv => FormIsFree
<1>. SUFFICES ASSUME LoginInv, gui = "loop", ~window.busy, window.shows = "form"
              PROVE  server.in = <<>> /\ (server.out = <<>> \/ server.out = Failed)
  BY DEF FormIsFree
<1>1. server.in = <<>> /\ ~server.logged
  BY DEF LoginInv, BusyAsks
<1>2. SUFFICES ASSUME server.out # <<>> PROVE server.out = Failed
  BY <1>1
<1>3. Running /\ worker.at = "receive"
  BY <1>2 DEF LoginInv, LoginTypeOK, ServerFits, Running, Worker, WorkerAt, Unconnected, Finished
<1>4. /\ server.out \in Seq(Packet) /\ Len(server.out) \in Nat /\ Len(server.out) # 0
      /\ Len(posted) \in Nat
  BY <1>2 DEF LoginInv, LoginTypeOK, Connection
<1>5. Len(server.out) + Len(posted) <= 1
  BY <1>1, <1>3 DEF LoginInv, OneAnswer
<1>6. Len(server.out) = 1 /\ 1 \in DOMAIN server.out /\ server.out[1] \in Packet
  <2>1. \A m, n \in Nat : m # 0 /\ m + n <= 1 => m = 1
    OBVIOUS
  <2>2. Len(server.out) = 1
    BY <1>4, <1>5, <2>1, Zenon
  <2>. QED BY <1>4, <2>2
<1>7. server.out[1].type = "AUTH_FAILED" /\ server.out[1].token = NoToken
  <2>1. /\ server.out[1].token = NoToken
        /\ server.out[1].type # "SESSION_ACK"
    BY <1>1, <1>3, <1>6 DEF LoginInv, TokensAreLogins
  <2>2. server.out[1].type # "AUTH_SUCCESS"
    BY <1>1, <1>3, <1>6 DEF LoginInv, RegisterHasNoToken
  <2>. QED BY <1>6, <2>1, <2>2 DEF Packet
<1>8. server.out[1] = [type |-> "AUTH_FAILED", token |-> NoToken]
  BY <1>6, <1>7 DEF Packet
<1>. QED BY <1>4, <1>6, <1>8 DEF Failed

\* A form that is free to ask has nothing of an earlier request before it, but the refusal
\* that ends a handshake (login_window.py:352).
THEOREM FormIsFreeTheorem == DesktopSpec => []FormIsFree
  BY FreeForm, DesktopSignInInvariant, PTL

------------------------------------------------------------------------------
(* The sign-in implements SignIn.                                          *)

LEMMA LoginInitSignsIn == LoginInit => SignsIn!Init
  BY DEF LoginInit, SignsIn!Init, NewConnection

LEMMA SubmitAsks ==
    ASSUME LoginInv, NEW request \in AuthRequest, Submit(request) PROVE SignsIn!Ask
<1>1. /\ ~window.busy /\ ~window.completed /\ ~server.logged
      /\ window'.busy /\ ~window'.completed
  BY DEF LoginInv, LoginTypeOK, Window, Submit, BusyAsks
<1>2. server' = NewConnection \/ server' = server
  BY DEF Submit
<1>3. server.logged = FALSE
  BY <1>1 DEF LoginInv, LoginTypeOK, Connection
<1>4. server'.logged = FALSE
  BY <1>2, <1>3 DEF NewConnection
<1>. QED BY <1>1, <1>3, <1>4 DEF SignsIn!Ask

\* A form that stops waiting had not been let in.
LEMMA StopsWaiting ==
    ASSUME LoginInv, ~server.logged, ~window.completed, window'.completed = window.completed,
           window'.busy = FALSE, server' = server
    PROVE  SignsIn!GiveUp \/ UNCHANGED SignsIn!vars
  BY DEF SignsIn!GiveUp, SignsIn!vars, LoginInv, LoginTypeOK, Connection

LEMMA EntersOnceLetIn ==
    ASSUME LoginInv, Running, posted # <<>>, posted[1] \in {"login_success", "session_restored"},
           server' = server,
           window' = IF window.completed THEN window
                     ELSE [window EXCEPT !.completed = TRUE, !.timer = @ + 1]
    PROVE  SignsIn!Enter \/ UNCHANGED SignsIn!vars
<1>1. server.logged /\ window.busy
  BY HeadFacts
<1>2. CASE window.completed
  BY <1>2 DEF SignsIn!vars
<1>3. CASE ~window.completed
  <2>1. window'.completed
    BY <1>3 DEF LoginInv, LoginTypeOK, Window
  <2>. QED BY <1>1, <1>3, <2>1 DEF SignsIn!Enter
<1>. QED BY <1>2, <1>3

\* What changes neither the form's phase nor what the server has granted.
LEMMA SaysNothing ==
    ASSUME window'.completed = window.completed, window'.busy = window.busy,
           server'.logged = server.logged
    PROVE  UNCHANGED SignsIn!vars
  BY DEF SignsIn!vars

LEMMA LoginStepSignsIn ==
    ASSUME LoginAssumption, LoginInv, [LoginSteps]_loginVars
    PROVE  [SignsIn!Next]_(SignsIn!vars)
<1>. USE DEF SignsIn!Next
<1>a. LoginTypeOK /\ window \in Window /\ server \in Connection
  BY DEF LoginInv, LoginTypeOK
<1>1. ASSUME NEW request \in AuthRequest, Submit(request) PROVE SignsIn!Ask
  BY <1>1, SubmitAsks
<1>2. CASE OnLoginSuccess \/ OnSessionRestored
  <2>1. Take /\ Delivered \in {"login_success", "session_restored"}
    BY <1>2 DEF OnLoginSuccess, OnSessionRestored
  <2>2. Running /\ posted # <<>> /\ posted[1] \in {"login_success", "session_restored"}
    BY <2>1, <1>a, TakeFacts DEF Take
  <2>. QED BY <1>2, <2>2, EntersOnceLetIn DEF OnLoginSuccess, OnSessionRestored
<1>3. CASE OnRegisterSuccess \/ OnFailure \/ OnDisconnected
  <2>1. Take /\ Delivered \notin {"login_success", "session_restored"}
    BY <1>3 DEF OnRegisterSuccess, OnFailure, OnDisconnected
  <2>2. Running /\ posted # <<>> /\ posted[1] # "login_success" /\ Delivered = posted[1]
    BY <2>1, <1>a, TakeFacts DEF Take
  <2>3. server.logged => window.completed
    BY <2>2, HeadFacts
  <2>4. posted[1] = "register_success" => ~window.completed
    BY <2>2, HeadFacts
  <2>5. server' = server
    BY <1>3 DEF OnRegisterSuccess, OnFailure, OnDisconnected
  <2>6. CASE window.completed
    <3>1. window'.completed = window.completed /\ window'.busy = window.busy
      BY <1>3, <1>a, <2>2, <2>4, <2>6
         DEF OnRegisterSuccess, OnFailure, OnDisconnected, Ignored, Window
    <3>. QED BY <2>5, <3>1, SaysNothing
  <2>7. CASE ~window.completed
    <3>1. window'.completed = window.completed /\ window'.busy = FALSE
      BY <1>3, <1>a, <2>7 DEF OnRegisterSuccess, OnFailure, OnDisconnected, ResetAfterFailure, Window
    <3>. QED BY <2>3, <2>5, <2>7, <3>1, StopsWaiting
  <2>. QED BY <2>6, <2>7
<1>4. CASE SendFails
  <2>1. ~server.logged /\ ~window.completed
    BY <1>4 DEF SendFails, LoginInv, WindowFits, AuthRequest
  <2>2. window'.completed = window.completed /\ window'.busy = FALSE /\ server' = server
    BY <1>4, <1>a DEF SendFails, ResetAfterFailure, Window
  <2>. QED BY <2>1, <2>2, StopsWaiting
<1>5. CASE Stopped
  <2>1. ~server.logged /\ ~server'.logged
    BY <1>5, <1>a DEF Stopped, LoginInv, WindowFits, Connection
  <2>2. server.logged = server'.logged
    BY <1>5, <1>a, <2>1 DEF Stopped, Connection
  <2>. QED BY <1>5, <2>2, SaysNothing DEF Stopped
<1>6. CASE SendDropped \/ Send \/ OnFinished \/ ThreadDeleted \/ OpenDashboard \/ Dismiss \/ CloseWindow
           \/ CloseDashboard
  <2>1. /\ window'.completed = window.completed /\ window'.busy = window.busy
        /\ server'.logged = server.logged
    BY <1>6, <1>a DEF SendDropped, Send, OnFinished, ThreadDeleted, OpenDashboard, Dismiss, CloseWindow,
                      CloseDashboard, Window, Connection
  <2>. QED BY <2>1, SaysNothing
<1>7. CASE WorkerStep
  <2>1. window' = window /\ server'.logged = server.logged
    BY <1>7, <1>a DEF WorkerStep, CreateSocket, ConnectSocket, Connected, ConnectFails, ReceiveEnd,
                      ReceiveFails, DisconnectSocket, Receive, Connection
  <2>. QED BY <2>1, SaysNothing
<1>8. CASE Answer
  <2>1. window.busy /\ ~window.completed /\ ~server.logged /\ window' = window
    BY <1>8 DEF Answer, LoginInv, BusyAsks
  <2>2. server'.logged \in BOOLEAN /\ server.logged \in BOOLEAN
    BY <1>8, <1>a, AnswerFacts DEF Connection
  <2>. QED BY <2>1, <2>2 DEF SignsIn!Grant, SignsIn!vars
<1>9. CASE ServerCloses
  <2>1. window' = window /\ server'.logged \in BOOLEAN /\ server.logged \in BOOLEAN
    BY <1>9, <1>a, ServerClosesFacts DEF Connection
  <2>2. CASE server'.logged = server.logged
    BY <2>1, <2>2, SaysNothing
  <2>3. CASE server'.logged # server.logged
    <3>1. server.logged /\ ~server'.logged /\ ~(Len(server.out) < 2)
      BY <1>9, <2>1, <2>3, ServerClosesFacts
    <3>2. ~window.completed /\ window.busy
      BY <3>1 DEF LoginInv, TokensAreLogins, BusyAsks
    <3>. QED BY <2>1, <3>1, <3>2 DEF SignsIn!Lose
  <2>. QED BY <2>2, <2>3
<1>10. CASE UNCHANGED loginVars
  BY <1>10, SaysNothing DEF loginVars
<1>. QED BY <1>1, <1>2, <1>3, <1>4, <1>5, <1>6, <1>7, <1>8, <1>9, <1>10
     DEF LoginSteps, LoginNext, GuiStep, Over

LEMMA SignsInStays == LoginInit /\ [][LoginSteps]_loginVars => SignsInSpec
<1>1. LoginInv /\ [LoginSteps]_loginVars => [SignsIn!Next]_(SignsIn!vars)
  BY LoginAssumption, LoginStepSignsIn
<1>. QED BY <1>1, LoginInitSignsIn, LoginStays, PTL DEF SignsInSpec, SignsIn!Spec

\* The form, its worker and the handshake sign in as SignIn says: one thing is asked at
\* a time, and the client is in only if the server let it in on what was asked last.
THEOREM SignInIsImplemented == LoginSpec => SignsInSpec
  BY LoginIsSteps, SignsInStays, PTL

\* The same for the whole client: the dashboard's slots take no part in signing in.
THEOREM DesktopSignsIn == DesktopSpec => SignsInSpec
  BY DesktopIsLogin, SignsInStays, PTL DEF DesktopSpec

------------------------------------------------------------------------------
(* The window: the invariant its properties need.                          *)

\* A model whose counts are yet to be shown to fit.
Wide == [room : Room, rooms : SUBSET Room, messages : Seq(Message), unread : [Room -> Nat]]

\* The current room has been created in the model and has nothing unread; what a room
\* lists is private to nobody.
ModelFits ==
    /\ Len(model.messages) <= MaxMessages
    /\ model.room \in model.rooms /\ model.unread[model.room] = 0
    /\ \A i \in DOMAIN model.messages :
          model.messages[i].listed \in Room => model.messages[i].with = NoName

\* What is shown is there, and is of nobody but the one talked to in private.
ShownFits ==
    /\ shown \subseteq DOMAIN model.messages
    /\ \A i \in shown : model.messages[i].with \in {NoName, target}

DashInv ==
    /\ DashTypeOK /\ ModelFits /\ ShownFits
    /\ ShowsTheRoom /\ UnreadIsExact /\ VoiceAsTold

LEMMA CountFits ==
    ASSUME NEW m \in Wide, NEW r \in Room
    PROVE  /\ IsFiniteSet(OthersIn(m, r)) /\ FromOthers(m, r) \in Nat
           /\ FromOthers(m, r) <= Len(m.messages)
<1>1. m.messages \in Seq(Message) /\ Len(m.messages) \in Nat /\ DOMAIN m.messages = 1 .. Len(m.messages)
  BY DEF Wide
<1>2. IsFiniteSet(1 .. Len(m.messages)) /\ Cardinality(1 .. Len(m.messages)) = Len(m.messages)
  BY <1>1, FS_Interval
<1>3. OthersIn(m, r) \subseteq 1 .. Len(m.messages)
  BY <1>1 DEF OthersIn
<1>4. /\ IsFiniteSet(OthersIn(m, r))
      /\ Cardinality(OthersIn(m, r)) <= Cardinality(1 .. Len(m.messages))
  BY <1>2, <1>3, FS_Subset
<1>5. Cardinality(OthersIn(m, r)) \in Nat
  BY <1>4, FS_CardinalityType
<1>. QED BY <1>2, <1>4, <1>5 DEF FromOthers

\* One message more: the places of the others stay, and the room it is listed in has one
\* more of somebody else if it is.
LEMMA OneMoreMessage ==
    ASSUME NEW old \in Wide, NEW m \in Wide, NEW e \in Message,
           m.messages = Append(old.messages, e)
    PROVE  /\ Len(old.messages) \in Nat /\ Len(m.messages) = Len(old.messages) + 1
           /\ DOMAIN old.messages = 1 .. Len(old.messages)
           /\ DOMAIN m.messages = 1 .. Len(m.messages)
           /\ \A i \in DOMAIN old.messages : i \in DOMAIN m.messages /\ m.messages[i] = old.messages[i]
           /\ m.messages[Len(m.messages)] = e
           /\ \A r \in Room : FromOthers(m, r) =
                 FromOthers(old, r) + IF e.listed = r /\ e.kind = "normal" THEN 1 ELSE 0
<1>1. old.messages \in Seq(Message) /\ m.messages \in Seq(Message)
  BY DEF Wide
<1>2. /\ Len(old.messages) \in Nat /\ Len(m.messages) = Len(old.messages) + 1
      /\ DOMAIN old.messages = 1 .. Len(old.messages)
      /\ DOMAIN m.messages = 1 .. Len(m.messages)
      /\ m.messages[Len(m.messages)] = e
      /\ \A i \in 1 .. Len(old.messages) : m.messages[i] = old.messages[i]
  BY <1>1
<1>3. \A i \in DOMAIN old.messages : i \in DOMAIN m.messages /\ m.messages[i] = old.messages[i]
  BY <1>2
<1>4. ASSUME NEW r \in Room
      PROVE  FromOthers(m, r) = FromOthers(old, r) + IF e.listed = r /\ e.kind = "normal" THEN 1 ELSE 0
  <2>0. IsFiniteSet(OthersIn(old, r)) /\ FromOthers(old, r) \in Nat
    BY CountFits
  <2>. DEFINE n == Len(m.messages)
  <2>1. n \notin DOMAIN old.messages /\ DOMAIN m.messages = DOMAIN old.messages \cup {n}
    BY <1>2
  <2>2. CASE e.listed = r /\ e.kind = "normal"
    <3>1. OthersIn(m, r) = OthersIn(old, r) \cup {n} /\ n \notin OthersIn(old, r)
      BY <1>2, <1>3, <2>1, <2>2 DEF OthersIn
    <3>2. Cardinality(OthersIn(m, r)) = Cardinality(OthersIn(old, r)) + 1
      BY <2>0, <3>1, FS_AddElement
    <3>. QED BY <2>2, <3>2 DEF FromOthers
  <2>3. CASE ~(e.listed = r /\ e.kind = "normal")
    <3>1. OthersIn(m, r) = OthersIn(old, r)
      BY <1>2, <1>3, <2>1, <2>3 DEF OthersIn
    <3>2. FromOthers(m, r) = FromOthers(old, r)
      BY <3>1 DEF FromOthers
    <3>. QED BY <2>0, <2>3, <3>2
  <2>. QED BY <2>2, <2>3
<1>. QED BY <1>2, <1>3, <1>4

\* The counts of a model depend on its messages only, what a room shows on its rooms too.
LEMMA SameMessages ==
    ASSUME NEW a, NEW b, a.messages = b.messages
    PROVE  /\ \A r \in Room : FromOthers(a, r) = FromOthers(b, r)
           /\ a.rooms = b.rooms => \A r \in Room : RoomMessages(a, r) = RoomMessages(b, r)
  BY DEF FromOthers, OthersIn, RoomMessages

LEMMA ApplicationIsWide == \A m \in Application : m \in Wide
<1>1. 0 .. MaxMessages \subseteq Nat
  OBVIOUS
<1>. QED BY <1>1 DEF Application, Wide

\* A model whose counts are right fits.
LEMMA WideFits ==
    ASSUME DashboardAssumption, NEW m \in Wide, NEW counted \in [Room -> Nat],
           Len(m.messages) <= MaxMessages,
           \A r \in Room : m.unread[r] + counted[r] = FromOthers(m, r)
    PROVE  m \in Application /\ counted \in [Room -> 0 .. MaxMessages]
<1>1. \A r \in Room : m.unread[r] \in 0 .. MaxMessages /\ counted[r] \in 0 .. MaxMessages
  <2>. SUFFICES ASSUME NEW r \in Room
                PROVE  m.unread[r] \in 0 .. MaxMessages /\ counted[r] \in 0 .. MaxMessages
    OBVIOUS
  <2>0. m.messages \in Seq(Message) /\ Len(m.messages) \in Nat
    BY DEF Wide
  <2>1. FromOthers(m, r) \in Nat /\ FromOthers(m, r) <= Len(m.messages)
    BY CountFits
  <2>2. m.unread[r] \in Nat /\ counted[r] \in Nat /\ m.unread[r] + counted[r] = FromOthers(m, r)
    BY DEF Wide
  <2>. QED BY <2>0, <2>1, <2>2 DEF DashboardAssumption
<1>2. m.unread \in [Room -> 0 .. MaxMessages] /\ counted \in [Room -> 0 .. MaxMessages]
  BY <1>1 DEF Wide
<1>. QED BY <1>2 DEF Wide, Application

\* The model with a message more, for the room, not yet drawn.
RoomGrows(m, room) ==
    /\ m \in Wide
    /\ \E e \in Message : m.messages = Append(model.messages, e) /\ e.listed = room /\ e.with = NoName
    /\ Len(m.messages) <= MaxMessages
    /\ m.room = model.room /\ m.rooms = model.rooms \cup {room}
    /\ \A r \in Room \ {room} : m.unread[r] = model.unread[r]
    /\ room # model.room => m.unread[room] + seen[room] = FromOthers(m, room)

\* A message of a room, drawn if the window is on it, keeps what is shown and counted right.
LEMMA RoomMessageAddedInv ==
    ASSUME DashboardAssumption, DashInv, NEW room \in Room, NEW m, RoomGrows(m, room),
           RoomMessageAdded(m, room), UNCHANGED <<sidebar, target, voice, told>>
    PROVE  DashInv'
<1>1. /\ model \in Wide /\ m \in Wide /\ seen \in [Room -> Nat]
      /\ model.room \in Room /\ sidebar = model.room
      /\ sidebar' = sidebar /\ target' = target /\ voice' = voice /\ told' = told
  <2>1. model \in Application /\ seen \in [Room -> 0 .. MaxMessages] /\ m \in Wide
    BY DEF DashInv, DashTypeOK, RoomGrows
  <2>2. model \in Wide
    BY <2>1, ApplicationIsWide
  <2>3. seen \in [Room -> Nat]
    BY <2>1
  <2>. QED BY <2>1, <2>2, <2>3 DEF DashInv, Wide, ShowsTheRoom
<1>2. PICK e \in Message : m.messages = Append(model.messages, e) /\ e.listed = room /\ e.with = NoName
  BY DEF RoomGrows
<1>3. /\ Len(model.messages) \in Nat /\ Len(m.messages) = Len(model.messages) + 1
      /\ DOMAIN model.messages = 1 .. Len(model.messages)
      /\ DOMAIN m.messages = 1 .. Len(m.messages)
      /\ \A i \in DOMAIN model.messages : i \in DOMAIN m.messages /\ m.messages[i] = model.messages[i]
      /\ m.messages[Len(m.messages)] = e
      /\ \A r \in Room \ {room} : FromOthers(m, r) = FromOthers(model, r)
  <2>1. \A r \in Room : FromOthers(m, r) =
           FromOthers(model, r) + IF e.listed = r /\ e.kind = "normal" THEN 1 ELSE 0
    BY <1>1, <1>2, OneMoreMessage
  <2>2. \A r \in Room \ {room} : FromOthers(m, r) = FromOthers(model, r)
    BY <1>1, <1>2, <2>1, CountFits
  <2>. QED BY <1>1, <1>2, <2>2, OneMoreMessage
<1>4. \A i \in DOMAIN m.messages : m.messages[i].listed \in Room => m.messages[i].with = NoName
  <2>1. \A i \in DOMAIN m.messages : i \in DOMAIN model.messages \/ i = Len(m.messages)
    BY <1>3
  <2>. QED BY <1>2, <1>3, <2>1 DEF DashInv, ModelFits
<1>5. /\ Len(m.messages) <= MaxMessages
      /\ m.room = model.room /\ m.rooms = model.rooms \cup {room} /\ m.room \in m.rooms
      /\ \A r \in Room \ {room} : m.unread[r] = model.unread[r]
      /\ room # model.room => m.unread[room] + seen[room] = FromOthers(m, room)
  BY DEF RoomGrows, DashInv, ModelFits
<1>6. CASE room = sidebar
  <2>1. /\ header' = room /\ shown' = RoomMessages(m, room)
        /\ model' = [m EXCEPT !.unread[room] = 0]
        /\ seen' = [seen EXCEPT ![room] = FromOthers(m, room)]
    BY <1>1, <1>5, <1>6 DEF RoomMessageAdded, RenderRoom
  <2>2. /\ model' \in Wide /\ model'.room = m.room /\ model'.rooms = m.rooms
        /\ model'.messages = m.messages
        /\ model'.unread[room] = 0 /\ \A r \in Room \ {room} : model'.unread[r] = m.unread[r]
    <3>1. m \in Wide /\ model' = [m EXCEPT !.unread[room] = 0]
      BY <1>1, <2>1
    <3>. QED BY <3>1 DEF Wide
  <2>3. /\ \A r \in Room : FromOthers(model', r) = FromOthers(m, r)
        /\ \A r \in Room : RoomMessages(model', r) = RoomMessages(m, r)
    BY <2>2, SameMessages
  <2>4. seen' \in [Room -> Nat] /\ seen'[room] = FromOthers(m, room)
        /\ \A r \in Room \ {room} : seen'[r] = seen[r]
    BY <1>1, <2>1, CountFits
  <2>5. UnreadIsExact'
    <3>1. \A r \in Room \ {room} : model'.unread[r] + seen'[r] = FromOthers(model', r)
      BY <1>3, <1>5, <2>2, <2>3, <2>4 DEF DashInv, UnreadIsExact
    <3>2. model'.unread[room] + seen'[room] = FromOthers(model', room)
      BY <1>1, <2>2, <2>3, <2>4, CountFits
    <3>. QED BY <3>1, <3>2 DEF UnreadIsExact
  <2>6. shown' \subseteq DOMAIN model'.messages /\ \A i \in shown' : model'.messages[i].with = NoName
    BY <1>1, <1>4, <1>5, <1>6, <2>1, <2>2 DEF RoomMessages
  <2>7. DashTypeOK'
    <3>1. model' \in Application /\ seen' \in [Room -> 0 .. MaxMessages]
      BY <1>5, <2>2, <2>4, <2>5, WideFits DEF UnreadIsExact
    <3>2. shown' \subseteq 1 .. MaxMessages
      BY <1>3, <1>5, <2>2, <2>6 DEF DashboardAssumption
    <3>. QED BY <1>1, <2>1, <3>1, <3>2 DEF DashInv, DashTypeOK
  <2>8. ModelFits'
    BY <1>1, <1>4, <1>5, <1>6, <2>2 DEF ModelFits
  <2>9. ShowsTheRoom'
    BY <1>1, <1>5, <1>6, <2>1, <2>2, <2>3 DEF ShowsTheRoom
  <2>10. VoiceAsTold'
    BY <1>1, <1>5, <2>2 DEF DashInv, VoiceAsTold
  <2>. QED BY <2>5, <2>6, <2>7, <2>8, <2>9, <2>10 DEF DashInv, ShownFits
<1>7. CASE room # sidebar
  <2>1. model' = m /\ header' = header /\ shown' = shown /\ seen' = seen
    BY <1>7 DEF RoomMessageAdded
  <2>2. UnreadIsExact'
    BY <1>1, <1>3, <1>5, <1>7, <2>1 DEF DashInv, UnreadIsExact
  <2>3. ShownFits'
    BY <1>1, <1>3, <2>1 DEF DashInv, ShownFits
  <2>4. DashTypeOK'
    <3>1. model' \in Application
      BY <1>1, <1>5, <2>1, <2>2, WideFits DEF UnreadIsExact
    <3>. QED BY <1>1, <2>1, <3>1 DEF DashInv, DashTypeOK
  <2>5. ModelFits'
    BY <1>1, <1>4, <1>5, <1>7, <2>1 DEF DashInv, ModelFits
  <2>6. RoomMessages(m, sidebar) = RoomMessages(model, sidebar)
    <3>1. \A i \in DOMAIN m.messages : i \in DOMAIN model.messages \/ i = Len(m.messages)
      BY <1>3
    <3>2. sidebar \in model.rooms /\ sidebar \in m.rooms
      BY <1>1, <1>5 DEF DashInv, ModelFits
    <3>. QED BY <1>2, <1>3, <1>7, <3>1, <3>2 DEF RoomMessages
  <2>7. ShowsTheRoom'
    BY <1>1, <1>5, <2>1, <2>6 DEF DashInv, ShowsTheRoom
  <2>8. VoiceAsTold'
    BY <1>1, <1>5, <2>1 DEF DashInv, VoiceAsTold
  <2>. QED BY <2>2, <2>3, <2>4, <2>5, <2>7, <2>8 DEF DashInv
<1>. QED BY <1>6, <1>7

\* So does a private message, whoever wrote it, drawn if it is of the one talked to.
LEMMA PrivateMessageAddedInv ==
    ASSUME DashboardAssumption, DashInv, NEW other \in Person, More,
           NEW kind \in {"private", "self"},
           PrivateMessageAdded(Added(model, kind, NoName, other), other),
           UNCHANGED <<sidebar, target, voice, told>>
    PROVE  DashInv'
<1>. DEFINE m == Added(model, kind, NoName, other)
            e == [kind |-> kind, room |-> model.room, listed |-> NoName, with |-> other]
<1>0. other # NoName /\ NoName \notin Room
  BY DEF DashboardAssumption
<1>1. /\ model \in Wide /\ seen \in [Room -> Nat]
      /\ model.room \in Room /\ sidebar = model.room
      /\ sidebar' = sidebar /\ target' = target /\ voice' = voice /\ told' = told
  BY ApplicationIsWide DEF DashInv, DashTypeOK, Wide, ShowsTheRoom
<1>2. /\ e \in Message /\ m = [model EXCEPT !.messages = Append(@, e)]
  <2>1. e \in Message
    BY <1>1 DEF Message
  <2>2. Listed(model, NoName, other) = NoName
    BY <1>0 DEF Listed
  <2>3. m = [model EXCEPT !.messages = Append(@, e), !.rooms = @]
    BY <2>2 DEF Added
  <2>. QED BY <1>1, <2>1, <2>3 DEF Wide
<1>3. /\ m \in Wide /\ m.messages = Append(model.messages, e)
      /\ m.room = model.room /\ m.rooms = model.rooms /\ m.unread = model.unread
  <2>1. model.messages \in Seq(Message)
    BY <1>1 DEF Wide
  <2>2. Append(model.messages, e) \in Seq(Message)
    BY <1>2, <2>1
  <2>. HIDE DEF m, e
  <2>. QED BY <1>1, <1>2, <2>2 DEF Wide
<1>4. e.listed = NoName /\ e.with = other
  OBVIOUS
<1>5. /\ model' = m /\ seen' = seen /\ header' = header
      /\ shown' = IF target = other THEN Private(m, other) ELSE shown
  BY DEF PrivateMessageAdded, RenderPrivate
<1>. HIDE DEF m, e
<1>6. /\ Len(model.messages) \in Nat /\ Len(m.messages) = Len(model.messages) + 1
      /\ DOMAIN model.messages = 1 .. Len(model.messages)
      /\ DOMAIN m.messages = 1 .. Len(m.messages)
      /\ \A i \in DOMAIN model.messages : i \in DOMAIN m.messages /\ m.messages[i] = model.messages[i]
      /\ m.messages[Len(m.messages)] = e
      /\ \A r \in Room : FromOthers(m, r) = FromOthers(model, r)
  <2>1. \A r \in Room : FromOthers(m, r) =
           FromOthers(model, r) + IF e.listed = r /\ e.kind = "normal" THEN 1 ELSE 0
    <3>1. model \in Wide /\ m \in Wide /\ e \in Message /\ m.messages = Append(model.messages, e)
      BY <1>1, <1>2, <1>3
    <3>. QED BY <3>1, OneMoreMessage
  <2>2. \A r \in Room : FromOthers(m, r) = FromOthers(model, r)
    BY <1>0, <1>1, <1>4, <2>1, CountFits
  <2>3. model \in Wide /\ m \in Wide /\ e \in Message /\ m.messages = Append(model.messages, e)
    BY <1>1, <1>2, <1>3
  <2>. QED BY <2>2, <2>3, OneMoreMessage
<1>7. Len(m.messages) <= MaxMessages
  BY <1>6 DEF More, DashboardAssumption
<1>8. \A i \in DOMAIN m.messages : i \in DOMAIN model.messages \/ i = Len(m.messages)
  BY <1>6
<1>9. UnreadIsExact'
  BY <1>3, <1>5, <1>6 DEF DashInv, UnreadIsExact
<1>10. ShownFits'
  <2>1. CASE target = other
    BY <1>1, <1>5, <2>1 DEF ShownFits, Private
  <2>2. CASE target # other
    BY <1>1, <1>5, <1>6, <2>2 DEF DashInv, ShownFits
  <2>. QED BY <2>1, <2>2
<1>11. DashTypeOK'
  <2>1. model' \in Application
    BY <1>1, <1>3, <1>5, <1>7, <1>9, WideFits DEF UnreadIsExact
  <2>2. shown' \subseteq 1 .. MaxMessages
    BY <1>5, <1>6, <1>7, <1>10 DEF ShownFits, DashboardAssumption
  <2>. QED BY <1>1, <1>5, <2>1, <2>2 DEF DashInv, DashTypeOK
<1>12. ModelFits'
  BY <1>0, <1>3, <1>4, <1>5, <1>6, <1>7, <1>8 DEF DashInv, ModelFits
<1>13. ShowsTheRoom'
  <2>1. RoomMessages(m, sidebar) = RoomMessages(model, sidebar)
    <3>1. sidebar \in model.rooms /\ sidebar \in m.rooms /\ sidebar # NoName
      BY <1>0, <1>1, <1>3 DEF DashInv, ModelFits
    <3>. QED BY <1>4, <1>6, <1>8, <3>1 DEF RoomMessages
  <2>. QED BY <1>0, <1>1, <1>3, <1>5, <2>1 DEF DashInv, ShowsTheRoom
<1>14. VoiceAsTold'
  BY <1>1, <1>3, <1>5 DEF DashInv, VoiceAsTold
<1>. QED BY <1>9, <1>10, <1>11, <1>12, <1>13, <1>14 DEF DashInv

LEMMA AddedToRoom ==
    ASSUME DashboardAssumption, DashTypeOK, More, NEW room \in Room,
           NEW kind \in {"normal", "self", "system"}
    PROVE  LET m == Added(model, kind, room, NoName)
               e == [kind |-> kind, room |-> room, listed |-> room, with |-> NoName]
           IN  /\ e \in Message /\ m \in Wide /\ m.messages = Append(model.messages, e)
               /\ m.room = model.room /\ m.rooms = model.rooms \cup {room} /\ m.unread = model.unread
               /\ Len(m.messages) <= MaxMessages
<1>. DEFINE m == Added(model, kind, room, NoName)
            e == [kind |-> kind, room |-> room, listed |-> room, with |-> NoName]
<1>1. model \in Wide /\ room # NoName
  BY ApplicationIsWide DEF DashTypeOK, DashboardAssumption
<1>2. e \in Message
  BY DEF Message
<1>3. m = [model EXCEPT !.messages = Append(@, e), !.rooms = @ \cup {room}]
  <2>1. Listed(model, room, NoName) = room
    BY <1>1 DEF Listed
  <2>. QED BY <1>1, <2>1 DEF Added
<1>. HIDE DEF m, e
<1>4. model.messages \in Seq(Message) /\ Len(model.messages) \in Nat
  BY <1>1 DEF Wide
<1>5. Append(model.messages, e) \in Seq(Message) /\ Len(Append(model.messages, e)) = Len(model.messages) + 1
  BY <1>2, <1>4
<1>6. /\ m \in Wide /\ m.messages = Append(model.messages, e)
      /\ m.room = model.room /\ m.rooms = model.rooms \cup {room} /\ m.unread = model.unread
  BY <1>1, <1>3, <1>5 DEF Wide
<1>7. Len(m.messages) <= MaxMessages
  BY <1>4, <1>5, <1>6 DEF More, DashboardAssumption
<1>8. /\ e \in Message /\ m \in Wide /\ m.messages = Append(model.messages, e)
      /\ m.room = model.room /\ m.rooms = model.rooms \cup {room} /\ m.unread = model.unread
      /\ Len(m.messages) <= MaxMessages
  BY <1>2, <1>6, <1>7
<1>. QED BY <1>8 DEF m, e

LEMMA OnMessageInv ==
    ASSUME DashboardAssumption, DashInv, NEW room \in Room, OnMessage(room)
    PROVE  DashInv'
<1>. DEFINE a == Added(model, "normal", room, NoName)
            m == Unread(a, room)
            e == [kind |-> "normal", room |-> room, listed |-> room, with |-> NoName]
<1>1. /\ e \in Message /\ a \in Wide /\ a.messages = Append(model.messages, e)
      /\ a.room = model.room /\ a.rooms = model.rooms \cup {room} /\ a.unread = model.unread
      /\ Len(a.messages) <= MaxMessages
  BY AddedToRoom DEF OnMessage, DashInv
<1>2. /\ e.listed = room /\ e.with = NoName /\ e.kind = "normal"
  OBVIOUS
<1>3. /\ model \in Wide /\ seen \in [Room -> Nat]
  <2>1. model \in Application /\ seen \in [Room -> 0 .. MaxMessages]
    BY DEF DashInv, DashTypeOK
  <2>. QED BY <2>1, ApplicationIsWide
<1>. HIDE DEF a, e
<1>4. /\ m \in Wide /\ m.messages = a.messages /\ m.room = a.room /\ m.rooms = a.rooms
      /\ \A r \in Room \ {room} : m.unread[r] = a.unread[r]
      /\ room # a.room => m.unread[room] = a.unread[room] + 1
  <2>1. CASE room # a.room
    <3>1. m = [a EXCEPT !.unread[room] = @ + 1] /\ a.unread[room] + 1 \in Nat
      BY <1>1, <2>1 DEF Unread, Wide
    <3>. HIDE DEF m
    <3>. QED BY <1>1, <2>1, <3>1 DEF Wide
  <2>2. CASE room = a.room
    BY <1>1, <2>2 DEF Unread
  <2>. QED BY <2>1, <2>2
<1>. HIDE DEF m
<1>5. FromOthers(m, room) = FromOthers(model, room) + 1
  BY <1>1, <1>2, <1>3, <1>4, OneMoreMessage
<1>6. room # model.room => m.unread[room] + seen[room] = FromOthers(m, room)
  <2>1. model.unread[room] + seen[room] = FromOthers(model, room)
    BY DEF DashInv, UnreadIsExact
  <2>2. model.unread[room] \in Nat /\ seen[room] \in Nat
    BY <1>3 DEF Wide
  <2>. QED BY <1>1, <1>4, <1>5, <2>1, <2>2
<1>7. RoomGrows(m, room)
  BY <1>1, <1>2, <1>4, <1>6 DEF RoomGrows
<1>8. RoomMessageAdded(m, room) /\ UNCHANGED <<sidebar, target, voice, told>>
  BY DEF OnMessage, Elsewhere, m, a
<1>. QED BY <1>7, <1>8, RoomMessageAddedInv

\* What is of this client or of the system counts for nobody.
LEMMA OnOwnInv ==
    ASSUME DashboardAssumption, DashInv, NEW room \in Room, OnEcho(room) \/ OnSystemMessage(room)
    PROVE  DashInv'
<1>1. PICK kind \in {"self", "system"} :
         /\ RoomMessageAdded(Added(model, kind, room, NoName), room)
         /\ More /\ UNCHANGED <<sidebar, target, voice, told>>
  BY DEF OnEcho, OnSystemMessage, Elsewhere
<1>. DEFINE m == Added(model, kind, room, NoName)
            e == [kind |-> kind, room |-> room, listed |-> room, with |-> NoName]
<1>2. /\ e \in Message /\ m \in Wide /\ m.messages = Append(model.messages, e)
      /\ m.room = model.room /\ m.rooms = model.rooms \cup {room} /\ m.unread = model.unread
      /\ Len(m.messages) <= MaxMessages
  <2>1. kind \in {"normal", "self", "system"} /\ More
    BY <1>1
  <2>2. DashTypeOK
    BY DEF DashInv
  <2>. QED BY <2>1, <2>2, AddedToRoom
<1>3. /\ e.listed = room /\ e.with = NoName /\ e.kind # "normal"
  OBVIOUS
<1>4. model \in Wide
  BY ApplicationIsWide DEF DashInv, DashTypeOK
<1>. HIDE DEF m, e
<1>5. FromOthers(m, room) = FromOthers(model, room)
  <2>1. FromOthers(m, room) = FromOthers(model, room) + 0
    BY <1>2, <1>3, <1>4, OneMoreMessage
  <2>. QED BY <1>4, <2>1, CountFits
<1>6. RoomGrows(m, room)
  BY <1>2, <1>3, <1>5 DEF RoomGrows, DashInv, UnreadIsExact
<1>7. RoomMessageAdded(m, room)
  BY <1>1 DEF m
<1>. QED BY <1>1, <1>6, <1>7, RoomMessageAddedInv

LEMMA OnPrivateInv ==
    ASSUME DashboardAssumption, DashInv, SendPrivate \/ \E u \in Person : OnPrivateMessage(u)
    PROVE  DashInv'
<1>1. CASE SendPrivate
  <2>1. target \in Person
    BY <1>1 DEF SendPrivate, DashInv, DashTypeOK
  <2>. QED BY <1>1, <2>1, PrivateMessageAddedInv DEF SendPrivate, Elsewhere
<1>2. ASSUME NEW u \in Person, OnPrivateMessage(u) PROVE DashInv'
  BY <1>2, PrivateMessageAddedInv DEF OnPrivateMessage, Elsewhere
<1>. QED BY <1>1, <1>2

\* A room drawn anew, with private mode left.
LEMMA RedrawInv ==
    ASSUME DashboardAssumption, DashInv, NEW room \in Room, NEW m \in Wide,
           m.messages = model.messages, m.room = room, m.rooms = model.rooms \cup {room},
           \A r \in Room \ {room} : m.unread[r] = model.unread[r],
           RenderRoom(m, room), sidebar' = room, target' = NoName,
           voice' \in [room : Room, in : BOOLEAN, muted : BOOLEAN, connected : BOOLEAN, held : BOOLEAN],
           told' \in [room : Room \cup {NoName}, muted : BOOLEAN],
           model'.room = room => VoiceAsTold'
    PROVE  DashInv'
<1>1. /\ model \in Wide /\ seen \in [Room -> Nat]
  <2>1. model \in Application /\ seen \in [Room -> 0 .. MaxMessages]
    BY DEF DashInv, DashTypeOK
  <2>. QED BY <2>1, ApplicationIsWide
<1>2. /\ header' = room /\ shown' = RoomMessages(m, room)
      /\ model' = [m EXCEPT !.unread[room] = 0]
      /\ seen' = [seen EXCEPT ![room] = FromOthers(m, room)]
  BY DEF RenderRoom
<1>3. /\ model' \in Wide /\ model'.room = room /\ model'.rooms = m.rooms
      /\ model'.messages = model.messages
      /\ model'.unread[room] = 0 /\ \A r \in Room \ {room} : model'.unread[r] = model.unread[r]
  BY <1>2 DEF Wide
<1>4. /\ \A r \in Room : FromOthers(model', r) = FromOthers(model, r)
      /\ \A r \in Room : FromOthers(m, r) = FromOthers(model, r)
      /\ \A r \in Room : RoomMessages(model', r) = RoomMessages(m, r)
  BY <1>3, SameMessages
<1>5. seen' \in [Room -> Nat] /\ seen'[room] = FromOthers(m, room)
      /\ \A r \in Room \ {room} : seen'[r] = seen[r]
  BY <1>1, <1>2, CountFits
<1>6. UnreadIsExact'
  <2>1. \A r \in Room \ {room} : model'.unread[r] + seen'[r] = FromOthers(model', r)
    BY <1>3, <1>4, <1>5 DEF DashInv, UnreadIsExact
  <2>2. model'.unread[room] + seen'[room] = FromOthers(model', room)
    BY <1>1, <1>3, <1>4, <1>5, CountFits
  <2>. QED BY <2>1, <2>2 DEF UnreadIsExact
<1>7. /\ Len(model.messages) \in Nat /\ Len(model.messages) <= MaxMessages
      /\ DOMAIN model.messages = 1 .. Len(model.messages)
  BY <1>1 DEF DashInv, ModelFits, Wide
<1>8. shown' \subseteq DOMAIN model'.messages /\ \A i \in shown' : model'.messages[i].with = NoName
  BY <1>2, <1>3 DEF RoomMessages, DashInv, ModelFits
<1>9. DashTypeOK'
  <2>1. model' \in Application /\ seen' \in [Room -> 0 .. MaxMessages]
    BY <1>3, <1>5, <1>6, <1>7, WideFits DEF UnreadIsExact
  <2>2. shown' \subseteq 1 .. MaxMessages
    BY <1>3, <1>7, <1>8 DEF DashboardAssumption
  <2>. QED BY <1>2, <2>1, <2>2 DEF DashTypeOK
<1>10. ModelFits'
  BY <1>3, <1>7 DEF DashInv, ModelFits
<1>11. ShowsTheRoom'
  BY <1>2, <1>3, <1>4 DEF ShowsTheRoom
<1>. QED BY <1>3, <1>6, <1>8, <1>9, <1>10, <1>11 DEF DashInv, ShownFits

LEMMA ExitPrivateModeInv ==
    ASSUME DashboardAssumption, DashInv, ExitPrivateMode PROVE DashInv'
<1>1. /\ model \in Wide /\ sidebar \in Room /\ model.room = sidebar
      /\ model.rooms = model.rooms \cup {sidebar}
  BY ApplicationIsWide DEF DashInv, DashTypeOK, ShowsTheRoom, ModelFits
<1>2. /\ RenderRoom(model, sidebar) /\ sidebar' = sidebar /\ target' = NoName
      /\ voice' = voice /\ told' = told
  BY DEF ExitPrivateMode, Elsewhere
<1>3. model'.room = sidebar => VoiceAsTold'
  BY <1>1, <1>2 DEF DashInv, VoiceAsTold
<1>. QED BY <1>1, <1>2, <1>3, RedrawInv DEF DashInv, DashTypeOK

LEMMA EnterPrivateModeInv ==
    ASSUME DashboardAssumption, DashInv, NEW other \in Person, EnterPrivateMode(other)
    PROVE  DashInv'
<1>1. /\ model' = model /\ sidebar' = sidebar /\ seen' = seen /\ voice' = voice /\ told' = told
      /\ target' = other /\ header' = other /\ shown' = Private(model, other) /\ other # NoName
  BY DEF EnterPrivateMode, Elsewhere, DashboardAssumption
<1>2. ShownFits'
  BY <1>1 DEF ShownFits, Private
<1>3. DashTypeOK'
  <2>1. DOMAIN model.messages \subseteq 1 .. MaxMessages
    BY DEF DashInv, DashTypeOK, Application, ModelFits, DashboardAssumption
  <2>. QED BY <1>1, <1>2, <2>1 DEF DashInv, DashTypeOK, ShownFits
<1>4. ModelFits' /\ UnreadIsExact' /\ VoiceAsTold'
  BY <1>1 DEF DashInv, ModelFits, UnreadIsExact, VoiceAsTold
<1>5. ShowsTheRoom'
  BY <1>1 DEF DashInv, ShowsTheRoom
<1>. QED BY <1>2, <1>3, <1>4, <1>5 DEF DashInv

\* Nobody is in voice after a room was chosen, since voice was in the room left.
LEMMA SelectRoomInv ==
    ASSUME DashboardAssumption, DashInv, NEW room \in Room, SelectRoom(room)
    PROVE  DashInv'
<1>. DEFINE m == Current(model, room)
            Voice == [room : Room, in : BOOLEAN, muted : BOOLEAN, connected : BOOLEAN, held : BOOLEAN]
            Told == [room : Room \cup {NoName}, muted : BOOLEAN]
<1>1. /\ model \in Wide /\ room # model.room /\ voice.room = model.room
      /\ voice \in Voice /\ told \in Told
  BY ApplicationIsWide DEF DashInv, DashTypeOK, ShowsTheRoom, SelectRoom, VoiceAsTold
<1>2. /\ m \in Wide /\ m.messages = model.messages /\ m.room = room
      /\ m.rooms = model.rooms \cup {room}
      /\ \A r \in Room \ {room} : m.unread[r] = model.unread[r]
  BY <1>1 DEF Current, Wide
<1>3. RenderRoom(m, room) /\ sidebar' = room /\ target' = NoName /\ SetRoom(room)
  BY DEF SelectRoom
<1>4. /\ voice' \in Voice /\ told' \in Told
      /\ ~voice'.in /\ voice'.room = room /\ told'.room = NoName
  <2>1. CASE voice.in
    <3>1. /\ voice' = [Left(voice) EXCEPT !.room = room]
          /\ told' = [room |-> NoName, muted |-> FALSE]
      BY <1>1, <1>3, <2>1 DEF SetRoom, DashInv, VoiceAsTold
    <3>2. Left(voice) \in Voice /\ Left(voice).in = FALSE
      BY <1>1 DEF Left
    <3>. QED BY <3>1, <3>2
  <2>2. CASE ~voice.in
    <3>1. voice' = [voice EXCEPT !.room = room] /\ told' = told
      BY <1>3, <2>2 DEF SetRoom
    <3>2. told.room = NoName
      BY <2>2 DEF DashInv, VoiceAsTold
    <3>. QED BY <1>1, <2>2, <3>1, <3>2
  <2>. QED BY <2>1, <2>2
<1>5. model'.room = room => VoiceAsTold'
  BY <1>4 DEF VoiceAsTold
<1>. HIDE DEF m
<1>. QED BY <1>2, <1>3, <1>4, <1>5, RedrawInv

\* Of the controls, the controller and what the server is told.
LEMMA VoiceInv ==
    ASSUME DashboardAssumption, DashInv,
           StartVoice \/ StopVoice \/ ToggleMute \/ \E checked \in BOOLEAN : PushToTalk(checked)
    PROVE  DashInv'
<1>. DEFINE Voice == [room : Room, in : BOOLEAN, muted : BOOLEAN, connected : BOOLEAN, held : BOOLEAN]
            Told == [room : Room \cup {NoName}, muted : BOOLEAN]
<1>1. /\ model' = model /\ sidebar' = sidebar /\ target' = target /\ header' = header
      /\ shown' = shown /\ seen' = seen
  BY DEF StartVoice, StopVoice, ToggleMute, PushToTalk, chat
<1>2. voice \in Voice /\ told \in Told
  BY DEF DashInv, DashTypeOK
<1>3. voice' \in Voice /\ told' \in Told /\ VoiceAsTold'
  <2>1. CASE StartVoice
    BY <1>1, <1>2, <2>1 DEF StartVoice, Joined, JoinedSilent, DashInv, VoiceAsTold
  <2>2. CASE StopVoice
    BY <1>1, <1>2, <2>2 DEF StopVoice, Left, DashInv, VoiceAsTold
  <2>3. CASE ToggleMute
    BY <1>1, <1>2, <2>3 DEF ToggleMute, DashInv, VoiceAsTold
  <2>4. ASSUME NEW checked \in BOOLEAN, PushToTalk(checked)
        PROVE  voice' \in Voice /\ told' \in Told /\ VoiceAsTold'
    BY <1>1, <1>2, <2>4 DEF PushToTalk, DashInv, VoiceAsTold
  <2>. QED BY <2>1, <2>2, <2>3, <2>4
<1>4. DashTypeOK' /\ ModelFits' /\ ShownFits' /\ ShowsTheRoom' /\ UnreadIsExact'
  BY <1>1, <1>3 DEF DashInv, DashTypeOK, ModelFits, ShownFits, ShowsTheRoom, UnreadIsExact,
                    FromOthers, OthersIn, RoomMessages
<1>. QED BY <1>3, <1>4 DEF DashInv

LEMMA DashInitInv == DashboardAssumption /\ DashInit => DashInv
<1>. SUFFICES ASSUME DashboardAssumption, DashInit PROVE DashInv
  OBVIOUS
<1>1. DashTypeOK
  BY DEF DashboardAssumption, DashInit, DashTypeOK, Application
<1>2. ModelFits /\ ShownFits /\ ShowsTheRoom /\ VoiceAsTold
  BY DEF DashboardAssumption, DashInit, ModelFits, ShownFits, ShowsTheRoom, RoomMessages, VoiceAsTold
<1>3. UnreadIsExact
  <2>1. \A r \in Room : OthersIn(model, r) = {}
    BY DEF DashInit, OthersIn
  <2>2. Cardinality({}) = 0
    BY FS_EmptySet
  <2>3. \A r \in Room : model.unread[r] = 0 /\ seen[r] = 0 /\ FromOthers(model, r) = 0
    BY <2>1, <2>2 DEF DashInit, FromOthers
  <2>. QED BY <2>3 DEF UnreadIsExact
<1>. QED BY <1>1, <1>2, <1>3 DEF DashInv

LEMMA DashStutterInv == DashInv /\ UNCHANGED dashVars => DashInv'
  BY DEF DashInv, dashVars, chat, DashTypeOK, ModelFits, ShownFits, ShowsTheRoom, UnreadIsExact, VoiceAsTold,
         FromOthers, OthersIn, RoomMessages

LEMMA DashNextInv == DashboardAssumption /\ DashInv /\ DashNext => DashInv'
  BY OnMessageInv, OnOwnInv, OnPrivateInv, SelectRoomInv, EnterPrivateModeInv, ExitPrivateModeInv, VoiceInv
     DEF DashNext

\* The window by itself, without a late end of the handshake (dashboard_window.py): the
\* copies of the room and of the voice's state agree.
THEOREM DashboardInvariant == DashSpec => []DashInv
<1>1. DashInv /\ [DashNext]_dashVars => DashInv'
  BY DashboardAssumption, DashNextInv, DashStutterInv
<1>. QED BY <1>1, DashboardAssumption, DashInitInv, PTL DEF DashSpec
------------------------------------------------------------------------------
(* The window whenever rooms are chosen, also before the handshake's last packet is here.   *)

\* The window's room has been created in the model, and what a room lists is private to
\* nobody.
ModelHolds ==
    /\ Len(model.messages) <= MaxMessages /\ sidebar \in model.rooms
    /\ \A i \in DOMAIN model.messages :
          model.messages[i].listed \in Room => model.messages[i].with = NoName

\* No message is counted as unread that was on the screen, nor twice.
CountedOnce == \A r \in Room : model.unread[r] + seen[r] <= FromOthers(model, r)

WindowInv == DashTypeOK /\ ModelHolds /\ ShownFits /\ CountedOnce

\* What there is to say of a model, and of what has been seen, before it is put in place.
Holds(m, room, counted) ==
    /\ m \in Wide /\ counted \in [Room -> Nat]
    /\ Len(m.messages) <= MaxMessages /\ room \in Room /\ room \in m.rooms
    /\ \A i \in DOMAIN m.messages : m.messages[i].listed \in Room => m.messages[i].with = NoName
    /\ \A r \in Room : m.unread[r] + counted[r] <= FromOthers(m, r)

LEMMA ModelHas ==
    ASSUME WindowInv
    PROVE  Holds(model, sidebar, seen)
<1>1. model \in Application /\ seen \in [Room -> 0 .. MaxMessages] /\ sidebar \in Room
  BY DEF WindowInv, DashTypeOK
<1>2. model \in Wide
  BY <1>1, ApplicationIsWide
<1>3. seen \in [Room -> Nat]
  BY <1>1
<1>. QED BY <1>1, <1>2, <1>3 DEF WindowInv, ModelHolds, CountedOnce, Holds

\* Put in place, it keeps the invariant.
LEMMA PutInPlace ==
    ASSUME DashboardAssumption, Holds(model', sidebar', seen'),
           target' \in Person \cup {NoName}, header' \in Room \cup Person,
           voice' \in [room : Room, in : BOOLEAN, muted : BOOLEAN, connected : BOOLEAN, held : BOOLEAN],
           told' \in [room : Room \cup {NoName}, muted : BOOLEAN],
           shown' \subseteq DOMAIN model'.messages,
           \A i \in shown' : model'.messages[i].with \in {NoName, target'}
    PROVE  WindowInv'
<1>1. PICK m, counted : m = model' /\ counted = seen'
  OBVIOUS
<1>2. /\ m \in Wide /\ counted \in [Room -> Nat] /\ Len(m.messages) <= MaxMessages
      /\ \A r \in Room : m.unread[r] + counted[r] <= FromOthers(m, r)
      /\ Len(m.messages) \in Nat /\ DOMAIN m.messages = 1 .. Len(m.messages) /\ MaxMessages \in Nat
  <2>1. /\ m \in Wide /\ counted \in [Room -> Nat] /\ Len(m.messages) <= MaxMessages
        /\ \A r \in Room : m.unread[r] + counted[r] <= FromOthers(m, r)
    BY <1>1 DEF Holds
  <2>2. m.messages \in Seq(Message)
    BY <2>1 DEF Wide
  <2>. QED BY <2>1, <2>2 DEF DashboardAssumption
<1>3. ASSUME NEW r \in Room PROVE m.unread[r] \in 0 .. MaxMessages /\ counted[r] \in 0 .. MaxMessages
  <2>1. FromOthers(m, r) \in Nat /\ FromOthers(m, r) <= Len(m.messages)
    BY <1>2, CountFits
  <2>2. m.unread[r] \in Nat /\ counted[r] \in Nat /\ m.unread[r] + counted[r] <= FromOthers(m, r)
    BY <1>2 DEF Wide
  <2>. QED BY <1>2, <2>1, <2>2
<1>4. m \in Application /\ counted \in [Room -> 0 .. MaxMessages]
  <2>1. m.unread \in [Room -> 0 .. MaxMessages] /\ counted \in [Room -> 0 .. MaxMessages]
    BY <1>2, <1>3 DEF Wide
  <2>. QED BY <1>2, <2>1 DEF Wide, Application
<1>5. shown' \subseteq 1 .. MaxMessages
  BY <1>1, <1>2
<1>6. DashTypeOK'
  BY <1>1, <1>4, <1>5 DEF Holds, DashTypeOK
<1>. QED BY <1>6 DEF Holds, WindowInv, ModelHolds, ShownFits, CountedOnce

\* A room is drawn.
LEMMA RoomDrawn ==
    ASSUME DashboardAssumption, NEW m \in Wide, NEW room \in Room, NEW counted \in [Room -> Nat],
           Len(m.messages) <= MaxMessages, room \in m.rooms,
           \A i \in DOMAIN m.messages : m.messages[i].listed \in Room => m.messages[i].with = NoName,
           \A r \in Room \ {room} : m.unread[r] + counted[r] <= FromOthers(m, r),
           RenderRoom(m, room), seen = counted, sidebar' = room, target' \in Person \cup {NoName},
           voice' \in [room : Room, in : BOOLEAN, muted : BOOLEAN, connected : BOOLEAN, held : BOOLEAN],
           told' \in [room : Room \cup {NoName}, muted : BOOLEAN]
    PROVE  WindowInv'
<1>1. PICK after, now : after = [m EXCEPT !.unread[room] = 0] /\ now = [counted EXCEPT ![room] = FromOthers(m, room)]
  OBVIOUS
<1>2. /\ header' = room /\ shown' = RoomMessages(m, room) /\ model' = after /\ seen' = now
  BY <1>1 DEF RenderRoom
<1>3. /\ after \in Wide /\ after.rooms = m.rooms /\ after.messages = m.messages
      /\ after.unread[room] = 0 /\ \A r \in Room \ {room} : after.unread[r] = m.unread[r]
  BY <1>1 DEF Wide
<1>4. \A r \in Room : FromOthers(after, r) = FromOthers(m, r) /\ FromOthers(m, r) \in Nat
  BY <1>3, SameMessages, CountFits
<1>5. /\ now \in [Room -> Nat] /\ now[room] = FromOthers(m, room)
      /\ \A r \in Room \ {room} : now[r] = counted[r]
  BY <1>1, <1>4
<1>6. \A r \in Room : after.unread[r] + now[r] <= FromOthers(after, r)
  <2>1. \A r \in Room \ {room} : after.unread[r] + now[r] <= FromOthers(after, r)
    BY <1>3, <1>4, <1>5
  <2>2. after.unread[room] + now[room] <= FromOthers(after, room)
    BY <1>3, <1>4, <1>5
  <2>. QED BY <2>1, <2>2
<1>7. Holds(model', sidebar', seen')
  BY <1>2, <1>3, <1>5, <1>6 DEF Holds
<1>8. shown' \subseteq DOMAIN model'.messages /\ \A i \in shown' : model'.messages[i].with = NoName
  BY <1>2, <1>3 DEF RoomMessages
<1>. QED BY <1>2, <1>7, <1>8, PutInPlace

\* A message more, that counts as unread or not.
LEMMA ModelGrows ==
    ASSUME WindowInv, NEW m \in Wide, NEW e \in Message, m.messages = Append(model.messages, e),
           Len(m.messages) <= MaxMessages, e.listed \in Room => e.with = NoName,
           model.rooms \subseteq m.rooms,
           NEW more \in Room \cup {NoName},
           more # NoName => e.listed = more /\ e.kind = "normal",
           \A r \in Room : m.unread[r] = model.unread[r] + IF r = more THEN 1 ELSE 0
    PROVE  /\ Holds(m, sidebar, seen)
           /\ shown \subseteq DOMAIN m.messages
           /\ \A i \in shown : m.messages[i].with \in {NoName, target}
<1>1. Holds(model, sidebar, seen)
  BY ModelHas
<1>2. /\ model \in Wide /\ Len(m.messages) = Len(model.messages) + 1 /\ Len(model.messages) \in Nat
      /\ DOMAIN model.messages = 1 .. Len(model.messages)
      /\ DOMAIN m.messages = 1 .. Len(m.messages)
      /\ \A i \in DOMAIN model.messages : i \in DOMAIN m.messages /\ m.messages[i] = model.messages[i]
      /\ m.messages[Len(m.messages)] = e
      /\ \A r \in Room : FromOthers(m, r) =
            FromOthers(model, r) + IF e.listed = r /\ e.kind = "normal" THEN 1 ELSE 0
  BY <1>1, OneMoreMessage DEF Holds
<1>3. \A i \in DOMAIN m.messages : i \in DOMAIN model.messages \/ i = Len(m.messages)
  BY <1>2
<1>4. \A i \in DOMAIN m.messages : m.messages[i].listed \in Room => m.messages[i].with = NoName
  BY <1>1, <1>2, <1>3 DEF Holds
<1>5. ASSUME NEW r \in Room PROVE m.unread[r] + seen[r] <= FromOthers(m, r)
  <2>1. /\ model.unread[r] \in Nat /\ seen[r] \in Nat /\ FromOthers(model, r) \in Nat
        /\ model.unread[r] + seen[r] <= FromOthers(model, r)
    BY <1>1, CountFits DEF Holds, Wide
  <2>2. CASE r = more
    <3>1. r # NoName
      BY DashboardAssumption DEF DashboardAssumption
    <3>2. m.unread[r] = model.unread[r] + 1 /\ FromOthers(m, r) = FromOthers(model, r) + 1
      BY <1>2, <2>2, <3>1
    <3>. QED BY <2>1, <3>2
  <2>3. CASE r # more
    <3>1. m.unread[r] = model.unread[r] + 0
      BY <2>3
    <3>2. FromOthers(m, r) = FromOthers(model, r) + 1 \/ FromOthers(m, r) = FromOthers(model, r) + 0
      BY <1>2
    <3>. QED BY <2>1, <3>1, <3>2
  <2>. QED BY <2>2, <2>3
<1>6. Holds(m, sidebar, seen)
  BY <1>1, <1>4, <1>5 DEF Holds
<1>7. shown \subseteq DOMAIN m.messages /\ \A i \in shown : m.messages[i].with \in {NoName, target}
  BY <1>2 DEF WindowInv, ShownFits
<1>. QED BY <1>6, <1>7

LEMMA WindowTypes ==
    WindowInv => /\ target \in Person \cup {NoName} /\ header \in Room \cup Person /\ sidebar \in Room
                 /\ voice \in [room : Room, in : BOOLEAN, muted : BOOLEAN, connected : BOOLEAN, held : BOOLEAN]
                 /\ told \in [room : Room \cup {NoName}, muted : BOOLEAN]
  BY DEF WindowInv, DashTypeOK

LEMMA RoomMessageHolds ==
    ASSUME DashboardAssumption, WindowInv, NEW room \in Room, NEW kind \in {"normal", "self", "system"}, More,
           NEW m, m = Added(model, kind, room, NoName) \/ (m = Unread(Added(model, kind, room, NoName), room) /\ kind = "normal"),
           RoomMessageAdded(m, room), UNCHANGED <<sidebar, target, voice, told>>
    PROVE  WindowInv'
<1>1. PICK a, e : /\ a = Added(model, kind, room, NoName)
                  /\ e = [kind |-> kind, room |-> room, listed |-> room, with |-> NoName]
                  /\ e \in Message /\ a \in Wide /\ a.messages = Append(model.messages, e)
                  /\ a.room = model.room /\ a.rooms = model.rooms \cup {room} /\ a.unread = model.unread
                  /\ Len(a.messages) <= MaxMessages
  BY AddedToRoom DEF WindowInv
<1>2. e.listed = room /\ e.with = NoName /\ e.kind = kind
  BY <1>1
<1>3. PICK more \in Room \cup {NoName} :
        /\ m \in Wide /\ m.messages = a.messages /\ m.rooms = a.rooms
        /\ more # NoName => more = room /\ kind = "normal"
        /\ \A r \in Room : m.unread[r] = model.unread[r] + IF r = more THEN 1 ELSE 0
  <2>1. \A r \in Room : model.unread[r] \in Nat
    BY ModelHas DEF Holds, Wide
  <2>2. CASE m = a
    <3>1. \A r \in Room : m.unread[r] = model.unread[r] + IF r = NoName THEN 1 ELSE 0
      BY <1>1, <2>1, <2>2 DEF DashboardAssumption
    <3>. QED BY <1>1, <2>2, <3>1
  <2>3. CASE m # a
    <3>1. m = [a EXCEPT !.unread[room] = @ + 1] /\ kind = "normal"
      BY <1>1, <2>3 DEF Unread
    <3>2. /\ m \in Wide /\ m.messages = a.messages /\ m.rooms = a.rooms
          /\ \A r \in Room : m.unread[r] = a.unread[r] + IF r = room THEN 1 ELSE 0
      <4>1. a.unread \in [Room -> Nat] /\ a.unread[room] + 1 \in Nat
        BY <1>1 DEF Wide
      <4>2. PICK f \in [Room -> Nat] : f = [a.unread EXCEPT ![room] = a.unread[room] + 1]
        BY <4>1
      <4>3. \A r \in Room : f[r] = a.unread[r] + IF r = room THEN 1 ELSE 0
        BY <4>1, <4>2
      <4>4. m = [a EXCEPT !.unread = f]
        BY <3>1, <4>2
      <4>5. a \in Wide
        BY <1>1
      <4>6. m \in Wide /\ m.messages = a.messages /\ m.rooms = a.rooms /\ m.unread = f
        BY <4>4, <4>5 DEF Wide
      <4>. QED BY <4>3, <4>6
    <3>. QED BY <1>1, <3>1, <3>2
  <2>. QED BY <2>2, <2>3
<1>4. /\ Holds(m, sidebar, seen)
      /\ shown \subseteq DOMAIN m.messages /\ \A i \in shown : m.messages[i].with \in {NoName, target}
  BY <1>1, <1>2, <1>3, ModelGrows
<1>5. CASE room = sidebar
  <2>1. RenderRoom(m, room)
    BY <1>5 DEF RoomMessageAdded
  <2>2. PICK counted : counted = seen
    OBVIOUS
  <2>3. /\ m \in Wide /\ counted \in [Room -> Nat] /\ Len(m.messages) <= MaxMessages /\ room \in m.rooms
        /\ \A i \in DOMAIN m.messages : m.messages[i].listed \in Room => m.messages[i].with = NoName
        /\ \A r \in Room \ {room} : m.unread[r] + counted[r] <= FromOthers(m, r)
    BY <1>4, <1>5, <2>2 DEF Holds
  <2>. QED BY <1>5, <2>1, <2>2, <2>3, WindowTypes, RoomDrawn
<1>6. CASE room # sidebar
  <2>1. model' = m /\ header' = header /\ shown' = shown /\ seen' = seen
    BY <1>6 DEF RoomMessageAdded
  <2>. QED BY <1>4, <2>1, WindowTypes, PutInPlace
<1>. QED BY <1>5, <1>6

LEMMA PrivateMessageHolds ==
    ASSUME DashboardAssumption, WindowInv, NEW other \in Person, More, NEW kind \in {"private", "self"},
           PrivateMessageAdded(Added(model, kind, NoName, other), other),
           UNCHANGED <<sidebar, target, voice, told>>
    PROVE  WindowInv'
<1>1. PICK m, e : /\ m = Added(model, kind, NoName, other)
                  /\ e = [kind |-> kind, room |-> model.room, listed |-> NoName, with |-> other]
  OBVIOUS
<1>2. other # NoName /\ NoName \notin Room /\ model \in Wide /\ model.room \in Room
  BY ModelHas DEF DashboardAssumption, Holds, Wide
<1>3. e \in Message /\ e.listed = NoName
  BY <1>1, <1>2 DEF Message
<1>4. Listed(model, NoName, other) = NoName
  BY <1>2 DEF Listed
<1>5. m = [model EXCEPT !.messages = Append(@, e), !.rooms = @]
  BY <1>1, <1>4 DEF Added
<1>6. model.messages \in Seq(Message) /\ Append(model.messages, e) \in Seq(Message)
      /\ Len(Append(model.messages, e)) = Len(model.messages) + 1 /\ Len(model.messages) \in Nat
  BY <1>2, <1>3 DEF Wide
<1>7. /\ m \in Wide /\ m.messages = Append(model.messages, e) /\ m.rooms = model.rooms
      /\ m.unread = model.unread
  BY <1>2, <1>5, <1>6 DEF Wide
<1>8. Len(m.messages) <= MaxMessages
  BY <1>6, <1>7 DEF More, DashboardAssumption
<1>9. \A r \in Room : m.unread[r] = model.unread[r] + IF r = NoName THEN 1 ELSE 0
  <2>1. \A r \in Room : model.unread[r] \in Nat /\ r # NoName
    BY <1>2 DEF Wide
  <2>. QED BY <1>7, <2>1
<1>10. /\ Holds(m, sidebar, seen)
       /\ shown \subseteq DOMAIN m.messages /\ \A i \in shown : m.messages[i].with \in {NoName, target}
  BY <1>2, <1>3, <1>7, <1>8, <1>9, ModelGrows
<1>11. /\ model' = m /\ seen' = seen /\ header' = header
       /\ shown' = IF target = other THEN Private(m, other) ELSE shown
  BY <1>1 DEF PrivateMessageAdded, RenderPrivate
<1>12. shown' \subseteq DOMAIN model'.messages /\ \A i \in shown' : model'.messages[i].with \in {NoName, target'}
  BY <1>10, <1>11 DEF Private
<1>. QED BY <1>10, <1>11, <1>12, WindowTypes, PutInPlace

LEMMA ExitPrivateModeHolds ==
    ASSUME DashboardAssumption, WindowInv, ExitPrivateMode PROVE WindowInv'
<1>1. PICK m, room, counted : m = model /\ room = sidebar /\ counted = seen
  OBVIOUS
<1>2. Holds(m, room, counted) /\ RenderRoom(m, room) /\ UNCHANGED <<sidebar, voice, told>> /\ target' = NoName
  BY <1>1, ModelHas DEF ExitPrivateMode, Elsewhere
<1>3. /\ m \in Wide /\ room \in Room /\ counted \in [Room -> Nat] /\ Len(m.messages) <= MaxMessages
      /\ room \in m.rooms
      /\ \A i \in DOMAIN m.messages : m.messages[i].listed \in Room => m.messages[i].with = NoName
      /\ \A r \in Room \ {room} : m.unread[r] + counted[r] <= FromOthers(m, r)
  BY <1>2 DEF Holds
<1>. QED BY <1>1, <1>2, <1>3, WindowTypes, RoomDrawn

LEMMA EnterPrivateModeHolds ==
    ASSUME DashboardAssumption, WindowInv, NEW other \in Person, EnterPrivateMode(other)
    PROVE  WindowInv'
<1>1. /\ UNCHANGED <<model, sidebar, seen, voice, told>>
      /\ target' = other /\ header' = other /\ shown' = Private(model, other)
  BY DEF EnterPrivateMode, Elsewhere
<1>2. Holds(model', sidebar', seen')
  BY <1>1, ModelHas
<1>3. shown' \subseteq DOMAIN model'.messages /\ \A i \in shown' : model'.messages[i].with \in {NoName, target'}
  BY <1>1 DEF Private
<1>. QED BY <1>1, <1>2, <1>3, WindowTypes, PutInPlace

\* A room made the current one, with nothing unread.
LEMMA CurrentHolds ==
    ASSUME DashboardAssumption, WindowInv, NEW room \in Room
    PROVE  /\ Holds(Current(model, room), room, seen)
           /\ Current(model, room).messages = model.messages
<1>1. PICK m : m = Current(model, room)
  OBVIOUS
<1>2. Holds(model, sidebar, seen) /\ model \in Wide
  BY ModelHas DEF Holds
<1>3. m = [model EXCEPT !.room = room, !.rooms = @ \cup {room}, !.unread[room] = 0]
  BY <1>1 DEF Current
<1>4. /\ m \in Wide /\ m.rooms = model.rooms \cup {room} /\ m.messages = model.messages
      /\ \A r \in Room : m.unread[r] = IF r = room THEN 0 ELSE model.unread[r]
  BY <1>2, <1>3 DEF Wide
<1>5. \A r \in Room : FromOthers(m, r) = FromOthers(model, r)
  BY <1>4, SameMessages
<1>6. ASSUME NEW r \in Room PROVE m.unread[r] + seen[r] <= FromOthers(m, r)
  <2>1. /\ model.unread[r] \in Nat /\ seen[r] \in Nat /\ FromOthers(model, r) \in Nat
        /\ model.unread[r] + seen[r] <= FromOthers(model, r)
    BY <1>2, CountFits DEF Holds, Wide
  <2>2. m.unread[r] = 0 \/ m.unread[r] = model.unread[r]
    BY <1>4
  <2>3. FromOthers(m, r) = FromOthers(model, r)
    BY <1>5
  <2>. QED BY <2>1, <2>2, <2>3
<1>7. Holds(m, room, seen)
  BY <1>2, <1>4, <1>6 DEF Holds
<1>. QED BY <1>1, <1>4, <1>7

LEMMA OnSessionHolds ==
    ASSUME DashboardAssumption, WindowInv, NEW room \in Room, OnSession(room)
    PROVE  WindowInv'
<1>1. /\ model' = Current(model, room) /\ sidebar' = room
      /\ UNCHANGED <<target, header, shown, seen, voice, told>>
  BY DEF OnSession, Elsewhere
<1>2. Holds(model', sidebar', seen') /\ model'.messages = model.messages
  BY <1>1, CurrentHolds
<1>3. shown' \subseteq DOMAIN model'.messages /\ \A i \in shown' : model'.messages[i].with \in {NoName, target'}
  BY <1>1, <1>2 DEF WindowInv, ShownFits
<1>. QED BY <1>1, <1>2, <1>3, WindowTypes, PutInPlace

LEMMA VoiceKeepsItsType ==
    ASSUME WindowInv, NEW room \in Room, SetRoom(room)
    PROVE  /\ voice' \in [room : Room, in : BOOLEAN, muted : BOOLEAN, connected : BOOLEAN, held : BOOLEAN]
           /\ told' \in [room : Room \cup {NoName}, muted : BOOLEAN]
<1>1. /\ voice \in [room : Room, in : BOOLEAN, muted : BOOLEAN, connected : BOOLEAN, held : BOOLEAN]
      /\ told \in [room : Room \cup {NoName}, muted : BOOLEAN]
  BY WindowTypes
<1>2. PICK v : v = Left(voice)
  OBVIOUS
<1>3. v \in [room : Room, in : BOOLEAN, muted : BOOLEAN, connected : BOOLEAN, held : BOOLEAN]
  BY <1>1, <1>2 DEF Left
<1>4. voice' = [v EXCEPT !.room = room] \/ voice' = [voice EXCEPT !.room = room]
  BY <1>2 DEF SetRoom
<1>5. told' = told \/ told' = [room |-> NoName, muted |-> FALSE]
  BY DEF SetRoom
<1>6. ASSUME NEW w \in [room : Room, in : BOOLEAN, muted : BOOLEAN, connected : BOOLEAN, held : BOOLEAN]
      PROVE  [w EXCEPT !.room = room]
                \in [room : Room, in : BOOLEAN, muted : BOOLEAN, connected : BOOLEAN, held : BOOLEAN]
  OBVIOUS
<1>7. [room |-> NoName, muted |-> FALSE] \in [room : Room \cup {NoName}, muted : BOOLEAN]
  OBVIOUS
<1>8. told' \in [room : Room \cup {NoName}, muted : BOOLEAN]
  BY <1>1, <1>5, <1>7, Zenon
<1>. QED BY <1>1, <1>3, <1>4, <1>6, <1>8

LEMMA SelectRoomHolds ==
    ASSUME DashboardAssumption, WindowInv, NEW room \in Room, SelectRoom(room)
    PROVE  WindowInv'
<1>1. PICK m, counted : m = Current(model, room) /\ counted = seen
  OBVIOUS
<1>2. /\ sidebar' = room /\ target' = NoName /\ RenderRoom(m, room) /\ SetRoom(room)
  BY <1>1 DEF SelectRoom
<1>3. Holds(m, room, counted)
  BY <1>1, CurrentHolds
<1>4. /\ m \in Wide /\ counted \in [Room -> Nat] /\ Len(m.messages) <= MaxMessages /\ room \in m.rooms
      /\ \A i \in DOMAIN m.messages : m.messages[i].listed \in Room => m.messages[i].with = NoName
      /\ \A r \in Room \ {room} : m.unread[r] + counted[r] <= FromOthers(m, r)
  BY <1>3 DEF Holds
<1>. QED BY <1>1, <1>2, <1>4, VoiceKeepsItsType, RoomDrawn

\* Of what is in the window's area nothing changes.
LEMMA VoiceHolds ==
    ASSUME DashboardAssumption, WindowInv, UNCHANGED chat,
           voice' \in [room : Room, in : BOOLEAN, muted : BOOLEAN, connected : BOOLEAN, held : BOOLEAN],
           told' \in [room : Room \cup {NoName}, muted : BOOLEAN]
    PROVE  WindowInv'
<1>1. UNCHANGED <<model, sidebar, target, header, shown, seen>>
  BY DEF chat
<1>2. Holds(model', sidebar', seen')
  BY <1>1, ModelHas
<1>3. shown' \subseteq DOMAIN model'.messages /\ \A i \in shown' : model'.messages[i].with \in {NoName, target'}
  BY <1>1 DEF WindowInv, ShownFits
<1>. QED BY <1>1, <1>2, <1>3, WindowTypes, PutInPlace

LEMMA VoiceStepHolds ==
    ASSUME DashboardAssumption, WindowInv,
           StartVoice \/ StopVoice \/ ToggleMute \/ \E checked \in BOOLEAN : PushToTalk(checked)
    PROVE  WindowInv'
<1>. DEFINE Voice == [room : Room, in : BOOLEAN, muted : BOOLEAN, connected : BOOLEAN, held : BOOLEAN]
            Told == [room : Room \cup {NoName}, muted : BOOLEAN]
<1>1. UNCHANGED chat /\ voice \in Voice /\ told \in Told
  BY WindowTypes DEF StartVoice, StopVoice, ToggleMute, PushToTalk
<1>2. CASE StartVoice
  <2>1. voice' \in Voice /\ told' \in Told
    BY <1>1, <1>2 DEF StartVoice, Joined, JoinedSilent
  <2>. QED BY <1>1, <2>1, VoiceHolds
<1>3. CASE StopVoice
  <2>1. voice' \in Voice /\ told' \in Told
    BY <1>1, <1>3 DEF StopVoice, Left
  <2>. QED BY <1>1, <2>1, VoiceHolds
<1>4. CASE ToggleMute
  <2>1. voice' \in Voice /\ told' \in Told
    BY <1>1, <1>4 DEF ToggleMute
  <2>. QED BY <1>1, <2>1, VoiceHolds
<1>5. ASSUME NEW checked \in BOOLEAN, PushToTalk(checked) PROVE WindowInv'
  <2>1. voice' \in Voice /\ told' \in Told
    BY <1>1, <1>5 DEF PushToTalk
  <2>. QED BY <1>1, <2>1, VoiceHolds
<1>. QED BY <1>2, <1>3, <1>4, <1>5

LEMMA DashNextHolds == DashboardAssumption /\ WindowInv /\ DashNext => WindowInv'
<1>. SUFFICES ASSUME DashboardAssumption, WindowInv, DashNext PROVE WindowInv'
  OBVIOUS
<1>1. ASSUME NEW room \in Room, OnMessage(room) \/ OnEcho(room) \/ OnSystemMessage(room) PROVE WindowInv'
  <2>1. More /\ UNCHANGED <<sidebar, target, voice, told>>
    BY <1>1 DEF OnMessage, OnEcho, OnSystemMessage, Elsewhere
  <2>2. CASE OnMessage(room)
    <3>1. RoomMessageAdded(Unread(Added(model, "normal", room, NoName), room), room)
      BY <2>2 DEF OnMessage
    <3>. QED BY <2>1, <3>1, RoomMessageHolds
  <2>3. ASSUME NEW kind \in {"self", "system"}, RoomMessageAdded(Added(model, kind, room, NoName), room)
        PROVE  WindowInv'
    BY <2>1, <2>3, RoomMessageHolds
  <2>. QED BY <1>1, <2>2, <2>3 DEF OnEcho, OnSystemMessage
<1>2. ASSUME NEW u \in Person, OnPrivateMessage(u) PROVE WindowInv'
  BY <1>2, PrivateMessageHolds DEF OnPrivateMessage, Elsewhere
<1>3. CASE SendPrivate
  <2>1. target \in Person
    BY <1>3, WindowTypes DEF SendPrivate
  <2>. QED BY <1>3, <2>1, PrivateMessageHolds DEF SendPrivate, Elsewhere
<1>. QED BY <1>1, <1>2, <1>3, SelectRoomHolds, EnterPrivateModeHolds, ExitPrivateModeHolds, VoiceStepHolds
         DEF DashNext

LEMMA WindowInitHolds == DashboardAssumption /\ DashInit => WindowInv
<1>. SUFFICES ASSUME DashboardAssumption, DashInit PROVE WindowInv
  OBVIOUS
<1>1. DashInv /\ model \in Wide /\ seen \in [Room -> Nat] /\ sidebar = Global /\ Global \in model.rooms
  <2>1. DashInv
    BY DashInitInv
  <2>2. model \in Wide
    BY <2>1, ApplicationIsWide DEF DashInv, DashTypeOK
  <2>3. seen \in [Room -> Nat]
    BY DEF DashInit
  <2>. QED BY <2>1, <2>2, <2>3 DEF DashInit
<1>2. CountedOnce
  <2>1. ASSUME NEW r \in Room PROVE model.unread[r] + seen[r] <= FromOthers(model, r)
    <3>1. model.unread[r] + seen[r] = FromOthers(model, r) /\ FromOthers(model, r) \in Nat
      BY <1>1, CountFits DEF DashInv, UnreadIsExact
    <3>. QED BY <3>1
  <2>. QED BY <2>1 DEF CountedOnce
<1>3. ModelHolds
  BY <1>1 DEF ModelHolds, DashInv, ModelFits
<1>. QED BY <1>1, <1>2, <1>3 DEF WindowInv, DashInv

LEMMA DesktopStepHolds == DashboardAssumption /\ WindowInv /\ [DesktopNext]_desktopVars => WindowInv'
<1>. SUFFICES ASSUME DashboardAssumption, WindowInv, [DesktopNext]_desktopVars PROVE WindowInv'
  OBVIOUS
<1>1. CASE UNCHANGED dashVars
  <2>1. UNCHANGED <<chat, voice, told>>
    BY <1>1 DEF dashVars
  <2>. QED BY <2>1, WindowTypes, VoiceHolds
<1>2. CASE RestoredLate
  BY <1>2, OnSessionHolds DEF RestoredLate, DashboardAssumption
<1>3. CASE DashboardStep
  BY <1>3, DashNextHolds DEF DashboardStep
<1>4. CASE CloseDashboard
  <2>1. UNCHANGED chat /\ voice' = Left(voice) /\ told' = [room |-> NoName, muted |-> FALSE]
    BY <1>4 DEF CloseDashboard
  <2>2. /\ voice' \in [room : Room, in : BOOLEAN, muted : BOOLEAN, connected : BOOLEAN, held : BOOLEAN]
        /\ told' \in [room : Room \cup {NoName}, muted : BOOLEAN]
    BY <2>1, WindowTypes DEF Left
  <2>. QED BY <2>1, <2>2, VoiceHolds
<1>5. DesktopNext => UNCHANGED dashVars \/ RestoredLate \/ DashboardStep \/ CloseDashboard
  BY Zenon DEF DesktopNext, LoginStep
<1>6. UNCHANGED desktopVars => UNCHANGED dashVars
  BY Zenon DEF desktopVars
<1>. QED BY <1>1, <1>2, <1>3, <1>4, <1>5, <1>6

\* The window's part of the invariant that needs no patience of the user: whenever a room is
\* chosen, also before session_restored resets it (gui_state_manager.py:102, room_sidebar.py:92).
THEOREM WindowInvariant == DesktopSpec => []WindowInv
  BY DashboardAssumption, WindowInitHolds, DesktopStepHolds, PTL DEF DesktopSpec, DesktopInit

\* No message of a private conversation is drawn among a room's, whatever modes and rooms
\* have been entered and left before, and whenever (dashboard_window.py, app_model.py).
THEOREM PrivateStaysPrivate == DesktopSpec => []RoomsShowNothingPrivate
<1>1. WindowInv => RoomsShowNothingPrivate
  BY DEF WindowInv, ShownFits, RoomsShowNothingPrivate
<1>. QED BY <1>1, WindowInvariant, PTL

\* A message is counted as unread once at most, and never if its room was drawn with it, though
\* a room chosen before session_restored is left again behind the user's back: what may go
\* wrong then is that a message is neither drawn nor counted (gui_state_manager.py:77).
THEOREM NothingIsCountedTwice == DesktopSpec => []CountedOnce
<1>1. WindowInv => CountedOnce
  BY DEF WindowInv
<1>. QED BY <1>1, WindowInvariant, PTL

\* What is left of VoiceAsTold when the window may be moved back by itself: the room where
\* voice is may then be another than the current one.
ServerIsTold ==
    /\ told.room = IF voice.in THEN voice.room ELSE NoName
    /\ voice.in => told.muted = voice.muted /\ voice.muted = voice.held

\* Where this client is in voice, and whether it is muted, is the same to the controls, to the
\* controller and to the server (voice_controls.py), whenever rooms are chosen and whatever is
\* received: a room left by a click stops voice there, one left by session_restored does not.
THEOREM ServerKnowsTheVoice == DesktopSpec => []ServerIsTold
<1>1. DesktopInit => ServerIsTold
  BY DEF DesktopInit, DashInit, ServerIsTold
<1>2. ASSUME DashTypeOK, ServerIsTold, [DesktopNext]_desktopVars PROVE ServerIsTold'
  <2>1. /\ voice \in [room : Room, in : BOOLEAN, muted : BOOLEAN, connected : BOOLEAN, held : BOOLEAN]
        /\ told \in [room : Room \cup {NoName}, muted : BOOLEAN]
    BY <1>2 DEF DashTypeOK
  <2>2. CASE UNCHANGED <<voice, told>>
    BY <1>2, <2>2 DEF ServerIsTold
  <2>3. CASE StartVoice
    BY <1>2, <2>1, <2>3 DEF ServerIsTold, StartVoice, Joined, JoinedSilent
  <2>4. CASE StopVoice
    BY <1>2, <2>1, <2>4 DEF ServerIsTold, StopVoice, Left
  <2>5. CASE ToggleMute
    BY <1>2, <2>1, <2>5 DEF ServerIsTold, ToggleMute
  <2>6. ASSUME NEW checked \in BOOLEAN, PushToTalk(checked) PROVE ServerIsTold'
    BY <1>2, <2>1, <2>6 DEF ServerIsTold, PushToTalk
  <2>7. ASSUME NEW room \in Room, SelectRoom(room) PROVE ServerIsTold'
    <3>1. SetRoom(room)
      BY <2>7 DEF SelectRoom
    <3>2. CASE voice.in /\ room # voice.room
      <4>1. told.room = voice.room
        BY <1>2, <3>2 DEF ServerIsTold
      <4>2. voice' = [Left(voice) EXCEPT !.room = room] /\ told' = [room |-> NoName, muted |-> FALSE]
        BY <3>1, <3>2, <4>1 DEF SetRoom
      <4>3. ~voice'.in
        BY <2>1, <4>2 DEF Left
      <4>. QED BY <4>2, <4>3 DEF ServerIsTold
    <3>3. CASE ~(voice.in /\ room # voice.room)
      BY <1>2, <2>1, <3>1, <3>3 DEF ServerIsTold, SetRoom
    <3>. QED BY <3>2, <3>3
  <2>8. CASE CloseDashboard
    BY <2>1, <2>8 DEF ServerIsTold, CloseDashboard, Left
  <2>9. DashNext => \/ UNCHANGED <<voice, told>> \/ StartVoice \/ StopVoice \/ ToggleMute
                    \/ \E checked \in BOOLEAN : PushToTalk(checked)
                    \/ \E room \in Room : SelectRoom(room)
    <3>1. \A room \in Room : OnMessage(room) \/ OnEcho(room) \/ OnSystemMessage(room) => UNCHANGED <<voice, told>>
      BY Zenon DEF OnMessage, OnEcho, OnSystemMessage, Elsewhere
    <3>2. \A u \in Person : OnPrivateMessage(u) \/ EnterPrivateMode(u) => UNCHANGED <<voice, told>>
      BY Zenon DEF OnPrivateMessage, EnterPrivateMode, Elsewhere
    <3>3. SendPrivate \/ ExitPrivateMode => UNCHANGED <<voice, told>>
      BY Zenon DEF SendPrivate, ExitPrivateMode, Elsewhere
    <3>. QED BY Zenon, <3>1, <3>2, <3>3 DEF DashNext
  <2>10. DashNext => ServerIsTold'
    BY <2>2, <2>3, <2>4, <2>5, <2>6, <2>7, <2>9
  <2>11. UNCHANGED dashVars \/ RestoredLate => UNCHANGED <<voice, told>>
    BY Zenon DEF dashVars, RestoredLate, OnSession, Elsewhere
  <2>12. UNCHANGED dashVars \/ RestoredLate \/ DashNext \/ CloseDashboard
    BY Zenon, <1>2 DEF DesktopNext, LoginStep, DashboardStep, desktopVars
  <2>. QED BY <2>2, <2>8, <2>10, <2>11, <2>12
<1>3. WindowInv => DashTypeOK
  BY DEF WindowInv
<1>. QED BY <1>1, <1>2, <1>3, WindowInvariant, PTL DEF DesktopSpec

------------------------------------------------------------------------------
(* The window after the sign-in, for people who choose no room before the    *)
(* handshake's last packet has been delivered.                               *)

\* What is still to be delivered of the handshake finds the window on the first room.
FirstRoom ==
    \/ window.shows = "form"
    \/ window.shows = "dashboard" /\ Pacing
    => sidebar = Global

DesktopInv == LoginInv /\ DashInv /\ FirstRoom

\* session_restored on the first room changes nothing.
LEMMA OnSessionInv ==
    ASSUME DashboardAssumption, DashInv, sidebar = Global, OnSession(Global)
    PROVE  DashInv' /\ sidebar' = Global
<1>1. /\ sidebar' = Global /\ target' = target /\ header' = header /\ shown' = shown /\ seen' = seen
      /\ voice' = voice /\ told' = told
      /\ model' = Current(model, Global)
  BY DEF OnSession, Elsewhere
<1>2. /\ model \in Wide /\ model.room = Global /\ Global \in model.rooms
      /\ model.unread[Global] = 0
  BY ApplicationIsWide DEF DashInv, DashTypeOK, ShowsTheRoom, ModelFits
<1>3. /\ model' \in Wide /\ model'.room = model.room /\ model'.rooms = model.rooms
      /\ model'.messages = model.messages
      /\ \A r \in Room : model'.unread[r] = model.unread[r]
  <2>1. model' = [model EXCEPT !.room = Global, !.rooms = @ \cup {Global}, !.unread[Global] = 0]
    BY <1>1 DEF Current
  <2>2. /\ model'.room = Global /\ model'.rooms = model.rooms \cup {Global}
        /\ model'.messages = model.messages
    BY <1>2, <2>1 DEF Wide
  <2>3. model'.rooms = model.rooms
    BY <1>2, <2>2
  <2>4. ASSUME NEW r \in Room
        PROVE  model'.unread[r] = model.unread[r]
    BY <1>2, <2>1, <2>4 DEF Wide
  <2>5. model' \in Wide
    BY <1>2, <2>1 DEF Wide
  <2>. QED BY <1>2, <2>2, <2>3, <2>4, <2>5
<1>4. /\ \A r \in Room : FromOthers(model', r) = FromOthers(model, r)
      /\ \A r \in Room : RoomMessages(model', r) = RoomMessages(model, r)
  BY <1>3, SameMessages
<1>5. UnreadIsExact'
  BY <1>1, <1>3, <1>4 DEF DashInv, UnreadIsExact
<1>6. DashTypeOK'
  <2>1. seen \in [Room -> Nat] /\ Len(model'.messages) <= MaxMessages
    <3>1. seen \in [Room -> 0 .. MaxMessages]
      BY DEF DashInv, DashTypeOK
    <3>. QED BY <1>3, <3>1 DEF DashInv, ModelFits
  <2>2. model' \in Application
    BY <1>1, <1>3, <1>5, <2>1, WideFits DEF UnreadIsExact
  <2>. QED BY <1>1, <2>2 DEF DashInv, DashTypeOK, DashboardAssumption
<1>7. ModelFits' /\ ShownFits' /\ VoiceAsTold'
  BY <1>1, <1>2, <1>3 DEF DashInv, ModelFits, ShownFits, VoiceAsTold
<1>8. ShowsTheRoom'
  BY <1>1, <1>2, <1>3, <1>4 DEF DashInv, ShowsTheRoom, DashTypeOK
<1>. QED BY <1>1, <1>5, <1>6, <1>7, <1>8 DEF DashInv

\* Once the dashboard is there, nothing is sent or posted of the handshake that was not.
LEMMA PacingEnds ==
    ASSUME LoginInv, LoginNext, window.shows = "dashboard", Pacing'
    PROVE  Pacing
<1>1. /\ window.completed /\ gui = "loop" /\ server.in = <<>>
      /\ posted \in Seq(Signal)
  BY DEF LoginInv, LoginTypeOK, WindowFits, BusyAsks
<1>. SUFFICES ASSUME server.out = <<>>, \A i \in DOMAIN posted : posted[i] # "session_restored"
              PROVE  FALSE
  BY DEF Pacing
<1>2. CASE server'.out = <<>> /\ \A i \in DOMAIN posted' : posted'[i] # "session_restored"
  BY <1>2 DEF Pacing
<1>3. CASE Take /\ server' = server
  <2>1. \A i \in DOMAIN posted' : posted'[i] # "session_restored"
    BY <1>3, TakeFacts DEF LoginInv
  <2>. QED BY <1>2, <1>3, <2>1
<1>4. CASE posted' = posted /\ server'.out = server.out
  BY <1>2, <1>4
<1>5. ASSUME NEW ending \in Endings, posted' = posted \o ending, server' = server PROVE FALSE
  <2>1. /\ ending \in Seq(Signal)
        /\ \A i \in 1 .. Len(ending) : ending[i] # "session_restored"
    BY <1>5, EndingFacts
  <2>2. /\ Len(posted) \in Nat /\ DOMAIN posted = 1 .. Len(posted) /\ DOMAIN posted' = 1 .. Len(posted')
        /\ \A i \in 1 .. Len(posted') :
              IF i <= Len(posted) THEN posted'[i] = posted[i]
              ELSE i - Len(posted) \in 1 .. Len(ending) /\ posted'[i] = ending[i - Len(posted)]
        /\ Len(posted') \in Nat
    BY <1>1, <1>5, <2>1, PostFacts
  <2>3. \A i \in DOMAIN posted' : posted'[i] # "session_restored"
    BY <2>1, <2>2
  <2>. QED BY <1>2, <1>5, <2>3
<1>6. CASE GuiStep \/ Dismiss \/ CloseWindow \/ Over
  <2>1. ~Stopped /\ ~SendDropped /\ ~SendFails /\ ~Send
    BY <1>1 DEF Stopped, SendDropped, SendFails, Send, AuthRequest
  <2>2. (Take \/ posted' = posted) /\ server' = server
    BY <1>6, <2>1 DEF GuiStep, Dismiss, CloseWindow, Over, loginVars, OnLoginSuccess, OnSessionRestored,
       OnRegisterSuccess, OnFailure, OnDisconnected, OnFinished, ThreadDeleted, OpenDashboard
  <2>. QED BY <1>3, <1>4, <2>2
<1>7. CASE WorkerStep
  <2>1. ~Receive
    BY DEF Receive
  <2>2. CASE CreateSocket \/ ConnectSocket \/ Connected
    BY <1>4, <2>2 DEF CreateSocket, ConnectSocket, Connected
  <2>3. CASE ConnectFails
    BY <1>5, <2>3 DEF ConnectFails, Post, Endings
  <2>4. CASE ReceiveEnd
    <3>1. posted' = posted \o <<"disconnected", "thread.quit">> /\ server' = server
      BY <2>4 DEF ReceiveEnd, DisconnectSocket, Ending, Post
    <3>. QED BY <1>5, <3>1 DEF Endings
  <2>5. CASE ReceiveFails
    <3>1. <<"connection_error">> \o <<"disconnected", "thread.quit">>
             = <<"connection_error", "disconnected", "thread.quit">>
      BY OneBeforeTwo, Zenon
    <3>2. posted' = posted \o <<"connection_error", "disconnected", "thread.quit">> /\ server' = server
      BY <2>5, <3>1 DEF ReceiveFails, DisconnectSocket, Ending, Post
    <3>. QED BY <1>5, <3>2 DEF Endings
  <2>. QED BY <1>7, <2>1, <2>2, <2>3, <2>4, <2>5 DEF WorkerStep
<1>8. CASE ServerCloses
  <2>1. server'.out = <<>> /\ posted' = posted
    BY <1>8, ServerClosesFacts
  <2>. QED BY <1>4, <2>1
<1>9. ~Answer /\ \A request \in AuthRequest : ~Submit(request)
  BY <1>1 DEF Answer, Submit
<1>. QED BY <1>6, <1>7, <1>8, <1>9 DEF LoginNext

\* No step leads back to the form.
LEMMA FormIsLeft ==
    ASSUME LoginInv, LoginNext, window'.shows \in {"form", "dashboard"}
    PROVE  window.shows = "form" \/ (window.shows = "dashboard" /\ window'.shows = "dashboard")
<1>1. window \in Window
  BY DEF LoginInv, LoginTypeOK
<1>2. CASE GuiStep \/ Dismiss \/ CloseWindow \/ Over
  BY <1>1, <1>2 DEF GuiStep, Dismiss, CloseWindow, Over, loginVars, OnLoginSuccess, OnSessionRestored,
       OnRegisterSuccess, OnFailure, OnDisconnected, OnFinished, ThreadDeleted, OpenDashboard, Stopped,
       SendDropped, SendFails, Send, ResetAfterFailure, Ignored, Take, Running, Window
<1>3. CASE WorkerStep \/ Answer \/ ServerCloses
  <2>1. window' = window
    BY <1>3 DEF WorkerStep, CreateSocket, ConnectSocket, Connected, ConnectFails, ReceiveEnd, ReceiveFails,
                DisconnectSocket, Receive, Answer, ServerCloses
  <2>. QED BY <1>1, <2>1
<1>4. ASSUME NEW request \in AuthRequest, Submit(request) PROVE window.shows = "form"
  BY <1>4 DEF Submit
<1>. QED BY <1>2, <1>3, <1>4 DEF LoginNext

LEMMA CloseDashboardWindowInv ==
    ASSUME DashboardAssumption, DashInv, CloseDashboard PROVE DashInv'
<1>1. /\ model' = model /\ sidebar' = sidebar /\ target' = target /\ header' = header
      /\ shown' = shown /\ seen' = seen
      /\ voice' = Left(voice) /\ told' = [room |-> NoName, muted |-> FALSE]
  BY DEF CloseDashboard, chat
<1>2. DashTypeOK' /\ VoiceAsTold'
  BY <1>1 DEF DashInv, DashTypeOK, VoiceAsTold, Left
<1>3. ModelFits' /\ ShownFits' /\ ShowsTheRoom' /\ UnreadIsExact'
  BY <1>1 DEF DashInv, ModelFits, ShownFits, ShowsTheRoom, UnreadIsExact,
              FromOthers, OthersIn, RoomMessages
<1>. QED BY <1>2, <1>3 DEF DashInv

LEMMA DesktopStepInv ==
    ASSUME LoginAssumption, DashboardAssumption, ~MayChooseEarly,
           DesktopInv, [DesktopNext]_desktopVars
    PROVE  DesktopInv'
<1>a. LoginInv /\ DashInv /\ FirstRoom
  BY DEF DesktopInv
<1>1. CASE LoginStep
  <2>1. LoginInv' /\ DashInv' /\ sidebar' = sidebar
    BY <1>1, <1>a, LoginStepInv, DashStutterInv DEF LoginStep, LoginSteps, dashVars, chat
  <2>2. FirstRoom'
    BY <1>1, <1>a, <2>1, PacingEnds, FormIsLeft DEF LoginStep, FirstRoom
  <2>. QED BY <2>1, <2>2 DEF DesktopInv
<1>2. CASE RestoredLate
  <2>1. window.shows = "dashboard" /\ OnSessionRestored /\ OnSession(Global)
    BY <1>2 DEF RestoredLate
  <2>2. Pacing
    <3>1. Take /\ Delivered = "session_restored"
      BY <2>1 DEF OnSessionRestored
    <3>2. 1 \in DOMAIN posted /\ posted[1] = "session_restored"
      BY <1>a, <3>1, TakeFacts DEF LoginInv
    <3>. QED BY <3>2 DEF Pacing
  <2>3. DashInv' /\ sidebar' = Global
    BY <1>a, <2>1, <2>2, OnSessionInv DEF FirstRoom
  <2>4. LoginInv'
    BY <1>a, <2>1, LoginStepInv DEF LoginSteps, LoginNext, GuiStep
  <2>. QED BY <2>3, <2>4 DEF DesktopInv, FirstRoom
<1>3. CASE DashboardStep
  <2>1. /\ DashNext /\ UNCHANGED loginVars /\ window.shows = "dashboard"
        /\ sidebar' = sidebar \/ ~Pacing
    BY <1>3 DEF DashboardStep
  <2>2. LoginInv' /\ DashInv'
    BY <1>a, <2>1, LoginStepInv, DashNextInv
  <2>3. window' = window /\ posted' = posted /\ server' = server
    BY <2>1 DEF loginVars
  <2>. QED BY <1>a, <2>1, <2>2, <2>3 DEF DesktopInv, FirstRoom, Pacing
<1>4. CASE CloseDashboard
  <2>1. LoginInv' /\ DashInv'
    BY <1>a, <1>4, CloseDashboardInv, CloseDashboardWindowInv
  <2>2. window'.shows = "nothing"
    BY <1>a, <1>4 DEF CloseDashboard, LoginInv, LoginTypeOK, Window
  <2>. QED BY <2>1, <2>2 DEF DesktopInv, FirstRoom
<1>5. CASE UNCHANGED desktopVars
  <2>1. UNCHANGED loginVars /\ UNCHANGED dashVars
    BY <1>5 DEF desktopVars
  <2>2. LoginInv' /\ DashInv'
    BY <1>a, <2>1, LoginStepInv, DashStutterInv
  <2>3. window' = window /\ posted' = posted /\ server' = server /\ sidebar' = sidebar
    BY <2>1 DEF loginVars, dashVars, chat
  <2>. QED BY <1>a, <2>2, <2>3 DEF DesktopInv, FirstRoom, Pacing
<1>. QED BY <1>1, <1>2, <1>3, <1>4, <1>5 DEF DesktopNext

LEMMA DesktopInitInv == LoginAssumption /\ DashboardAssumption /\ DesktopInit => DesktopInv
  BY LoginInitInv, DashInitInv DEF DesktopInit, DesktopInv, FirstRoom, DashInit

\* The whole client, for people who choose a room only once the handshake is over: the
\* sign-in and the window keep their invariants together.
THEOREM DesktopInvariant == ASSUME ~MayChooseEarly PROVE DesktopSpec => []DesktopInv
<1>1. DesktopInv /\ [DesktopNext]_desktopVars => DesktopInv'
  BY LoginAssumption, DashboardAssumption, DesktopStepInv
<1>. QED BY <1>1, LoginAssumption, DashboardAssumption, DesktopInitInv, PTL DEF DesktopSpec

\* Out of private mode the window shows the current room, all of it and nothing else, and
\* the copies of the current room agree (dashboard_window.py, room_sidebar.py).
THEOREM WindowShowsTheRoom == ASSUME ~MayChooseEarly PROVE DesktopSpec => []ShowsTheRoom
<1>1. DesktopInv => ShowsTheRoom
  BY DEF DesktopInv, DashInv
<1>. QED BY <1>1, DesktopInvariant, PTL

\* Every message of another is counted as unread until its room is drawn with it
\* (gui_state_manager.py).
THEOREM NothingReadIsCounted == ASSUME ~MayChooseEarly PROVE DesktopSpec => []UnreadIsExact
<1>1. DesktopInv => UnreadIsExact
  BY DEF DesktopInv, DashInv
<1>. QED BY <1>1, DesktopInvariant, PTL

\* The server is told of every change of the voice state (voice_controls.py).
THEOREM VoiceIsTold == ASSUME ~MayChooseEarly PROVE DesktopSpec => []VoiceAsTold
<1>1. DesktopInv => VoiceAsTold
  BY DEF DesktopInv, DashInv
<1>. QED BY <1>1, DesktopInvariant, PTL
================================================================================
