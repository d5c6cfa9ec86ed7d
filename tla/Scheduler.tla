------------------------------- MODULE Scheduler -------------------------------
(***************************************************************************)
(* Scheduled broadcasts: ScheduledBroadcastRunner                          *)
(* (scheduler/scheduled_broadcast.py) on its thread, the requests that     *)
(* fill the table broadcasts, and dispatch_scheduled_broadcast of          *)
(* server/service.py, which the runner calls back.                         *)
(***************************************************************************)
EXTENDS Naturals, FiniteSets

CONSTANTS
    Broadcast,   \* ids of rows
    RoomName,
    MaxTime,     \* bound on the clock
    MaxSent,     \* bound on the dispatches of a broadcast the model counts
    None,
    Ops          \* requests and events of this instance

ASSUME SchedulerAssumption ==
    /\ MaxTime \in Nat /\ MaxSent \in Nat \ {0}
    /\ None \notin Broadcast
    /\ Ops \subseteq {"delete", "unpadded", "crash"}

VARIABLES
    now,
    rooms,      \* names in the table rooms
    row,        \* table broadcasts, None for no row
    dispatched, \* how often the members of its room were sent a broadcast
    runner

vars == <<now, rooms, row, dispatched, runner>>

------------------------------------------------------------------------------
Time == 0 .. MaxTime

\* text: where the text of send_time sorts among the texts of the clock.
Row == [room : RoomName, sendTime : Time, text : 0 .. MaxTime + 1, sent : BOOLEAN]

ASSUME NoneAssumption == None \notin Row

\* batch: what is left of the rows fetched; current: the one being handled.
\* A runner whose callback has raised is dead.
Runner == [at : {"fetch", "loop", "mark", "dead"}, batch : SUBSET Broadcast,
           current : Broadcast \cup {None}]

Started == [at |-> "fetch", batch |-> {}, current |-> None]
Scheduled(b) == row[b] # None

\* Mutant of Due: a row is due one unit early.
DueEarly == {b \in Broadcast : Scheduled(b) /\ ~row[b].sent /\ row[b].text <= now + 1}

\* fetch_due_broadcasts compares texts.
Due == {b \in Broadcast : Scheduled(b) /\ ~row[b].sent /\ row[b].text <= now}

\* strptime also takes months, days and hours of one digit, and the text is stored
\* as it came: "2026-9-01" sorts after "2026-09-01", by months or to the year's end.
Texts(t) == IF "unpadded" \in Ops THEN t .. MaxTime + 1 ELSE {t}

\* SCHEDULE_BROADCAST takes any room name and any time, past ones too.
Schedule(b, r, t) ==
    /\ ~Scheduled(b)
    /\ "delete" \in Ops \/ r \in rooms
    /\ \E text \in Texts(t) :
         row' = [row EXCEPT ![b] = [room |-> r, sendTime |-> t, text |-> text, sent |-> FALSE]]
    /\ UNCHANGED <<now, rooms, dispatched, runner>>

Tick ==
    /\ now < MaxTime
    /\ now' = now + 1
    /\ UNCHANGED <<rooms, row, dispatched, runner>>

\* A room is deleted, or created.
ChangeRoom(r) ==
    /\ "delete" \in Ops
    /\ rooms' = IF r \in rooms THEN rooms \ {r} ELSE rooms \cup {r}
    /\ UNCHANGED <<now, row, dispatched, runner>>

------------------------------------------------------------------------------
(* The runner. *)

Fetch ==
    /\ runner.at = "fetch"
    /\ Due # {}
    /\ runner' = [runner EXCEPT !.at = "loop", !.batch = Due]
    /\ UNCHANGED <<now, rooms, row, dispatched>>

\* The next row of the batch, ORDER BY send_time.
IsNext(b) ==
    /\ b \in runner.batch
    /\ \A other \in runner.batch : row[b].text <= row[other].text

\* The callback: save_message looks up the id of the room and raises when there
\* is none, which ends the thread; otherwise the members are sent the message.
Dispatch(b) ==
    /\ runner.at = "loop"
    /\ IsNext(b)
    /\ dispatched[b] < MaxSent
    /\ IF row[b].room \notin rooms
       THEN runner' = [Started EXCEPT !.at = "dead"] /\ UNCHANGED dispatched
       ELSE /\ dispatched' = [dispatched EXCEPT ![b] = @ + 1]
            /\ runner' = [at |-> "mark", batch |-> runner.batch \ {b}, current |-> b]
    /\ UNCHANGED <<now, rooms, row>>

\* Mutant of Mark: the whole batch is marked after its first row.
MarkBatch ==
    /\ runner.at = "mark"
    /\ row' = [b \in Broadcast |->
                 IF b = runner.current \/ b \in runner.batch
                 THEN [row[b] EXCEPT !.sent = TRUE] ELSE row[b]]
    /\ runner' = Started
    /\ UNCHANGED <<now, rooms, dispatched>>

\* mark_broadcast_sent; the thread sleeps when the batch is done.
Mark ==
    /\ runner.at = "mark"
    /\ row' = [row EXCEPT ![runner.current].sent = TRUE]
    /\ runner' = [runner EXCEPT !.at = IF runner.batch = {} THEN "fetch" ELSE "loop",
                                !.current = None]
    /\ UNCHANGED <<now, rooms, dispatched>>

\* The server dies and starts again.
Crash ==
    /\ "crash" \in Ops
    /\ runner' = Started
    /\ UNCHANGED <<now, rooms, row, dispatched>>

Init ==
    /\ now = 0
    /\ rooms = RoomName
    /\ row = [b \in Broadcast |-> None]
    /\ dispatched = [b \in Broadcast |-> 0]
    /\ runner = Started

RunnerStep == Fetch \/ Mark \/ \E b \in Broadcast : Dispatch(b)

Next ==
    \/ RunnerStep \/ Tick \/ Crash
    \/ \E r \in RoomName : ChangeRoom(r)
    \/ \E b \in Broadcast, r \in RoomName, t \in Time : Schedule(b, r, t)

Spec == Init /\ [][Next]_vars

\* The thread wakes up every five seconds, and time passes.
FairSpec == Spec /\ WF_vars(RunnerStep) /\ WF_vars(Tick)

------------------------------------------------------------------------------
(* Properties. *)

\* Only times get into the table, and the runner's locals are of its rows.
TypeOK ==
    /\ now \in Time
    /\ rooms \subseteq RoomName
    /\ row \in [Broadcast -> Row \cup {None}]
    /\ dispatched \in [Broadcast -> 0 .. MaxSent]
    /\ runner \in Runner

\* A broadcast marked as sent was sent, whatever the runner was doing when the
\* server died or a room went.
SentWasDispatched ==
    \A b \in Broadcast : Scheduled(b) /\ row[b].sent => dispatched[b] > 0

\* No broadcast is sent before its time.
NeverEarly ==
    \A b \in Broadcast : dispatched[b] > 0 => row[b].sendTime <= now

\* The same line, when rooms are deleted: a broadcast is delivered unless its own
\* room is missing.
DeliveredIfPossible ==
    \A b \in Broadcast :
        Scheduled(b) ~> dispatched[b] > 0 \/ (Scheduled(b) /\ row[b].room \notin rooms)
==============================================================================
