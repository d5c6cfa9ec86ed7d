-------------------------------- MODULE SignIn --------------------------------
(***************************************************************************)
(* What signing in promises, whatever threads, sockets and signals are     *)
(* used: a form asks one thing at a time, and the client is in only if     *)
(* the server let it in on what was asked last.                            *)
(***************************************************************************)
VARIABLES
    phase,    \* "form", "asked" or "in"
    granted   \* the server has let this client in

vars == <<phase, granted>>

Init == phase = "form" /\ granted = FALSE

Ask == phase = "form" /\ ~granted /\ phase' = "asked" /\ UNCHANGED granted

Grant == phase = "asked" /\ ~granted /\ granted' = TRUE /\ UNCHANGED phase

\* A refusal, or the loss of the connection, whatever the server had decided.
GiveUp == phase = "asked" /\ phase' = "form" /\ granted' = FALSE

Enter == phase = "asked" /\ granted /\ phase' = "in" /\ UNCHANGED granted

\* The client may be gone, or lose the connection, before it has heard of it.
Lose == phase = "asked" /\ granted' = FALSE /\ UNCHANGED phase

Next == Ask \/ Grant \/ GiveUp \/ Enter \/ Lose

Spec == Init /\ [][Next]_vars
==============================================================================
