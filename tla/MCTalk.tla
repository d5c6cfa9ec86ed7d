-------------------------------- MODULE MCTalk --------------------------------
(* Two users who become friends or not; and, apart from it, two who talk.  The  *)
(* tables and sockets of the two are different, so each is explored while the   *)
(* other has not begun.                                                         *)
EXTENDS Friends, Chat

TalkInit == Init /\ ChatInit

FriendsStep == ChatInit /\ Next /\ UNCHANGED chatVars
ChatStep == Init /\ ChatNext /\ UNCHANGED vars

TalkSpec ==
    /\ TalkInit /\ [][FriendsStep \/ ChatStep]_<<vars, chatVars>>
    /\ ChatFairness
==============================================================================
