------------------------------ MODULE MCDesktop ------------------------------
(* The desktop client, one other person and two rooms; apart from it, the voice  *)
(* of one user heard by another; and, apart from both, the server's chunked file *)
(* transfers.  The three share no state of these modules, so each is explored    *)
(* while the others have not begun.  Rooms of voice are interchangeable, and the *)
(* first to join joins Global.  Of the transfers, the first client sends one     *)
(* file, the second two; the first two go to one path.                           *)
EXTENDS Desktop, VoiceStream, ChunkTransfer, TLC

CONSTANTS u1, u2, t1, t2, t3, p1, p2

SenderOf == (t1 :> u1) @@ (t2 :> u2) @@ (t3 :> u2)
TargetOf == (t1 :> p1) @@ (t2 :> p1) @@ (t3 :> p2)

ClientInit == DesktopInit /\ StreamInit /\ Init

WindowsStep == StreamInit /\ Init /\ DesktopNext /\ UNCHANGED <<streamVars, vars>>
VoiceStep ==
    /\ DesktopInit /\ Init /\ StreamNext
    /\ clients = <<>> /\ clients' # <<>> => clients'[1].room = Global
    /\ UNCHANGED <<desktopVars, vars>>
FilesStep == DesktopInit /\ StreamInit /\ Next /\ UNCHANGED <<desktopVars, streamVars>>

ClientSpec ==
    /\ ClientInit
    /\ [][WindowsStep \/ VoiceStep \/ FilesStep]_<<desktopVars, streamVars, vars>>
    /\ DesktopFairness /\ StreamFairness

\* All of the client's state is of its kind; among others, the server reads no more
\* packets of a handshake than MaxPackets (server.py:70).
ClientTypeOK == LoginTypeOK /\ DashTypeOK /\ StreamTypeOK /\ JitterTypeOK
==============================================================================
