-------------------------------- MODULE Desktop --------------------------------
(***************************************************************************)
(* The desktop client from the sign-in form to the end: GuiLogin until the *)
(* dashboard opens, then the Dashboard on the same GUI thread, while the   *)
(* worker goes on and signals of the sign-in may still be posted.          *)
(***************************************************************************)
EXTENDS GuiLogin, Dashboard

CONSTANT MayChooseEarly   \* a room may be chosen before the handshake's last packet is here

desktopVars == <<loginVars, dashVars>>

DesktopInit == LoginInit /\ DashInit

\* What of the handshake is still to be delivered.
Pacing == "session_restored" \in {posted[i] : i \in DOMAIN posted} \/ server.out # <<>>

\* session_restored goes to the form, which ignores it by now, and to the dashboard.
RestoredLate ==
    /\ window.shows = "dashboard"
    /\ OnSessionRestored
    /\ OnSession(Global)

\* A connection lost under the dashboard is not told to it, and is left out.
LoginStep ==
    /\ LoginNext
    /\ window.shows = "dashboard" => ~OnSessionRestored /\ ~ServerCloses
    /\ UNCHANGED dashVars

DashboardStep ==
    /\ window.shows = "dashboard" /\ gui = "loop" /\ dialogs = <<>>
    /\ worker.at = "receive" /\ worker.running /\ server.open
    /\ DashNext
    /\ sidebar' = sidebar \/ ~Pacing \/ MayChooseEarly
    /\ UNCHANGED loginVars

\* closeEvent and _cleanup: voice is left without a word to the server, which
\* forgets it with the connection.
CloseDashboard ==
    /\ window.shows = "dashboard" /\ gui = "loop"
    /\ window' = [window EXCEPT !.shows = "nothing"]
    /\ worker' = [worker EXCEPT !.running = FALSE, !.open = FALSE]
    /\ voice' = Left(voice) /\ told' = [room |-> NoName, muted |-> FALSE]
    /\ UNCHANGED <<dialogs, gui, posted, server, chat>>

DesktopNext == LoginStep \/ RestoredLate \/ DashboardStep \/ CloseDashboard

DesktopFairness ==
    /\ WF_desktopVars(GuiStep /\ LoginStep) /\ WF_desktopVars(WorkerStep /\ LoginStep)
    /\ WF_desktopVars(Answer /\ LoginStep) /\ WF_desktopVars(RestoredLate)

DesktopSpec == DesktopInit /\ [][DesktopNext]_desktopVars /\ DesktopFairness
==============================================================================
