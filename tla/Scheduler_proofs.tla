--------------------------- MODULE Scheduler_proofs ---------------------------
(***************************************************************************)
(* Proofs about Scheduler, for any broadcasts, rooms and times.            *)
(***************************************************************************)
EXTENDS Scheduler, TLAPS

(* What must hold beside the properties for them to be inductive. *)

\* A text never sorts before the time it stands for.
TextsAreLate == \A b \in Broadcast : Scheduled(b) => row[b].sendTime <= row[b].text

DispatchedHaveRow == \A b \in Broadcast : dispatched[b] > 0 => Scheduled(b)

\* The runner holds rows that were due, and marks the one it has dispatched.
RunnerFits ==
    /\ \A b \in runner.batch : Scheduled(b) /\ row[b].text <= now
    /\ runner.at = "mark" => runner.current \in Broadcast /\ dispatched[runner.current] > 0

SchedulerInv ==
    /\ TypeOK
    /\ TextsAreLate
    /\ DispatchedHaveRow
    /\ RunnerFits
    /\ SentWasDispatched
    /\ NeverEarly

------------------------------------------------------------------------------
LEMMA StartedType == Started \in Runner /\ Started.batch = {} /\ Started.at # "mark"
BY DEF Started, Runner

LEMMA InitSchedulerInv == Init => SchedulerInv
BY SchedulerAssumption, StartedType
   DEF Init, SchedulerInv, TypeOK, TextsAreLate, DispatchedHaveRow, RunnerFits,
       SentWasDispatched, NeverEarly, Scheduled, Time

\* A new row has not been dispatched, marked or fetched.
LEMMA ScheduleStep ==
    ASSUME SchedulerInv, NEW b \in Broadcast, NEW r \in RoomName, NEW t \in Time,
           Schedule(b, r, t)
    PROVE  SchedulerInv'
<1> PICK text \in Texts(t) :
        row' = [row EXCEPT ![b] = [room |-> r, sendTime |-> t, text |-> text, sent |-> FALSE]]
    BY DEF Schedule
<1> DEFINE new == [room |-> r, sendTime |-> t, text |-> text, sent |-> FALSE]
<1>1. text \in 0 .. MaxTime + 1 /\ t <= text
    BY SchedulerAssumption DEF Texts, Time
<1>2. new \in Row
    BY <1>1 DEF Row
<1>3. /\ row' \in [Broadcast -> Row \cup {None}]
      /\ row'[b] = new
      /\ \A x \in Broadcast : x # b => row'[x] = row[x]
    BY <1>2 DEF SchedulerInv, TypeOK
<1>4. ~Scheduled(b) /\ UNCHANGED <<now, rooms, dispatched, runner>>
    BY DEF Schedule
<1>5. b \notin runner.batch /\ ~(dispatched[b] > 0)
    BY <1>4 DEF SchedulerInv, DispatchedHaveRow, RunnerFits
<1>6. runner.batch \subseteq Broadcast
    BY DEF SchedulerInv, TypeOK, Runner
<1>7. TypeOK'
    BY <1>3, <1>4 DEF SchedulerInv, TypeOK, Time
<1>8. TextsAreLate' /\ DispatchedHaveRow' /\ NeverEarly' /\ SentWasDispatched'
    BY <1>1, <1>3, <1>4, <1>5
       DEF SchedulerInv, TextsAreLate, DispatchedHaveRow, NeverEarly,
           SentWasDispatched, Scheduled
<1>9. RunnerFits'
    BY <1>3, <1>4, <1>5, <1>6 DEF SchedulerInv, RunnerFits, Scheduled
<1>10. QED
    BY <1>7, <1>8, <1>9 DEF SchedulerInv

\* What is fetched is due.
LEMMA FetchStep ==
    ASSUME SchedulerInv, Fetch
    PROVE  SchedulerInv'
<1>1. /\ runner' = [runner EXCEPT !.at = "loop", !.batch = Due]
      /\ UNCHANGED <<now, rooms, row, dispatched>>
    BY DEF Fetch
<1>2. /\ runner' \in Runner
      /\ runner'.batch = Due /\ runner'.at = "loop"
    BY <1>1 DEF SchedulerInv, TypeOK, Runner, Due
<1>3. RunnerFits'
    BY <1>1, <1>2 DEF RunnerFits, Due, Scheduled
<1>4. QED
    BY <1>1, <1>2, <1>3
       DEF SchedulerInv, TypeOK, TextsAreLate, DispatchedHaveRow, SentWasDispatched,
           NeverEarly, Scheduled, Time

\* What is dispatched has been fetched, so its time has come.
LEMMA DispatchStep ==
    ASSUME SchedulerInv, NEW b \in Broadcast, Dispatch(b)
    PROVE  SchedulerInv'
<1>1. /\ b \in runner.batch /\ Scheduled(b) /\ row[b].text <= now
      /\ UNCHANGED <<now, rooms, row>>
    BY DEF Dispatch, IsNext, SchedulerInv, RunnerFits
<1>2. row[b] \in Row /\ row[b].sendTime <= now
    BY <1>1, SchedulerAssumption
       DEF SchedulerInv, TypeOK, TextsAreLate, Scheduled, Row, Time
<1>3. CASE row[b].room \notin rooms
    <2>1. runner' = [Started EXCEPT !.at = "dead"] /\ UNCHANGED dispatched
        BY <1>3 DEF Dispatch
    <2>2. runner' \in Runner /\ runner'.batch = {} /\ runner'.at = "dead"
        BY <2>1 DEF Started, Runner
    <2>3. QED
        BY <1>1, <2>1, <2>2
           DEF SchedulerInv, TypeOK, TextsAreLate, DispatchedHaveRow, RunnerFits,
               SentWasDispatched, NeverEarly, Scheduled, Time
<1>4. CASE row[b].room \in rooms
    <2>1. /\ dispatched' = [dispatched EXCEPT ![b] = @ + 1]
          /\ runner' = [at |-> "mark", batch |-> runner.batch \ {b}, current |-> b]
          /\ dispatched[b] < MaxSent
        BY <1>4 DEF Dispatch
    <2>2. /\ dispatched' \in [Broadcast -> 0 .. MaxSent]
          /\ dispatched'[b] > 0
          /\ \A x \in Broadcast : x # b => dispatched'[x] = dispatched[x]
        BY <2>1, SchedulerAssumption DEF SchedulerInv, TypeOK
    <2>3. runner' \in Runner
        BY <2>1 DEF SchedulerInv, TypeOK, Runner
    <2>4. RunnerFits'
        BY <1>1, <2>1, <2>2 DEF SchedulerInv, RunnerFits, Scheduled
    <2>5. TypeOK'
        BY <1>1, <2>2, <2>3 DEF SchedulerInv, TypeOK, Time
    <2>6. QED
        BY <1>1, <1>2, <2>2, <2>4, <2>5
           DEF SchedulerInv, TextsAreLate, DispatchedHaveRow, SentWasDispatched,
               NeverEarly, Scheduled
<1>5. QED
    BY <1>3, <1>4

\* What is marked has been dispatched.
LEMMA MarkStep ==
    ASSUME SchedulerInv, Mark
    PROVE  SchedulerInv'
<1> DEFINE c == runner.current
<1>1. /\ c \in Broadcast /\ dispatched[c] > 0 /\ Scheduled(c)
      /\ UNCHANGED <<now, rooms, dispatched>>
    BY DEF Mark, SchedulerInv, RunnerFits, DispatchedHaveRow
<1>2. row[c] \in Row
    BY <1>1 DEF SchedulerInv, TypeOK, Scheduled
<1>3. /\ row' \in [Broadcast -> Row \cup {None}]
      /\ row'[c] \in Row
      /\ row'[c].sendTime = row[c].sendTime /\ row'[c].text = row[c].text
      /\ \A x \in Broadcast : x # c => row'[x] = row[x]
    BY <1>1, <1>2 DEF Mark, SchedulerInv, TypeOK, Row
<1>4. /\ runner' \in Runner
      /\ runner'.batch = runner.batch /\ runner'.at # "mark"
    BY DEF Mark, SchedulerInv, TypeOK, Runner
<1>5. runner.batch \subseteq Broadcast
    BY DEF SchedulerInv, TypeOK, Runner
<1>6. \A x \in Broadcast :
          /\ Scheduled(x)' = Scheduled(x)
          /\ Scheduled(x) => row'[x].sendTime = row[x].sendTime /\ row'[x].text = row[x].text
          /\ Scheduled(x)' /\ row'[x].sent => x = c \/ row[x].sent
    BY <1>1, <1>3, NoneAssumption DEF Scheduled
<1>7. QED
    BY <1>1, <1>3, <1>4, <1>5, <1>6
       DEF SchedulerInv, TypeOK, TextsAreLate, DispatchedHaveRow, RunnerFits,
           SentWasDispatched, NeverEarly, Time

LEMMA SchedulerStep == SchedulerInv /\ [Next]_vars => SchedulerInv'
<1> SUFFICES ASSUME SchedulerInv, [Next]_vars
             PROVE  SchedulerInv'
    OBVIOUS
<1>1. CASE Tick
    <2>1. now' \in Time /\ now <= now' /\ UNCHANGED <<rooms, row, dispatched, runner>>
        BY <1>1, SchedulerAssumption DEF Tick, SchedulerInv, TypeOK, Time
    <2>2. \A b \in Broadcast : Scheduled(b) => row[b].sendTime \in Nat /\ row[b].text \in Nat
        BY SchedulerAssumption DEF SchedulerInv, TypeOK, Scheduled, Row, Time
    <2>3. RunnerFits'
        <3>1. runner.batch \subseteq Broadcast
            BY DEF SchedulerInv, TypeOK, Runner
        <3>2. QED
            BY <2>1, <2>2, <3>1, SchedulerAssumption
               DEF SchedulerInv, TypeOK, RunnerFits, Scheduled, Time
    <2>4. NeverEarly'
        BY <2>1, <2>2, SchedulerAssumption
           DEF SchedulerInv, TypeOK, NeverEarly, DispatchedHaveRow, Scheduled, Time
    <2>5. QED
        BY <2>1, <2>3, <2>4
           DEF SchedulerInv, TypeOK, TextsAreLate, DispatchedHaveRow,
               SentWasDispatched, Scheduled
<1>2. ASSUME NEW r \in RoomName, ChangeRoom(r)
      PROVE  SchedulerInv'
    BY <1>2
       DEF ChangeRoom, SchedulerInv, TypeOK, TextsAreLate, DispatchedHaveRow, RunnerFits,
           SentWasDispatched, NeverEarly, Scheduled, Time
<1>3. CASE Crash
    BY <1>3, StartedType
       DEF Crash, SchedulerInv, TypeOK, TextsAreLate, DispatchedHaveRow, RunnerFits,
           SentWasDispatched, NeverEarly, Scheduled, Time
<1>4. CASE UNCHANGED vars
    BY <1>4
       DEF vars, SchedulerInv, TypeOK, TextsAreLate, DispatchedHaveRow, RunnerFits,
           SentWasDispatched, NeverEarly, Scheduled, Time
<1>5. QED
    BY <1>1, <1>2, <1>3, <1>4, ScheduleStep, FetchStep, DispatchStep, MarkStep
       DEF Next, RunnerStep

------------------------------------------------------------------------------
\* SchedulerInv holds of the table and the runner (scheduled_broadcast.py), across crashes.
THEOREM SchedulerInvariant == Spec => []SchedulerInv
<1>1. QED
    BY InitSchedulerInv, SchedulerStep, PTL DEF Spec

\* A crash between the dispatch and the mark, a deleted room or a dead runner
\* never loses a broadcast to the mark: SentWasDispatched for any number of rows.
THEOREM MarkedWereDispatched == Spec => []SentWasDispatched
<1>1. SchedulerInv => SentWasDispatched
    BY DEF SchedulerInv
<1>2. QED
    BY <1>1, SchedulerInvariant, PTL

\* No broadcast is sent before its time, however its time was typed.
THEOREM NoneEarly == Spec => []NeverEarly
<1>1. SchedulerInv => NeverEarly
    BY DEF SchedulerInv
<1>2. QED
    BY <1>1, SchedulerInvariant, PTL

\* What clients schedule (service.py:223) is a row with a time and a text, and the runner
\* only ever holds such rows.
THEOREM SchedulerTypes == Spec => []TypeOK
<1>1. SchedulerInv => TypeOK
    BY DEF SchedulerInv
<1>2. QED
    BY <1>1, SchedulerInvariant, PTL
==============================================================================
