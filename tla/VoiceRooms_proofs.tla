--------------------------- MODULE VoiceRooms_proofs ---------------------------
(***************************************************************************)
(* Proofs about the server's voice rooms, for any clients and rooms.       *)
(***************************************************************************)
EXTENDS VoiceRooms, TLAPS

------------------------------------------------------------------------------
(* VoiceRooms: the inductive invariant. *)

\* What a thread's locals are for at its label.
FitsIn(local) ==
    /\ local \in Thread
    /\ local.at \in {"start.find", "start.remove", "start.get", "start.add", "stop.remove", "bye.remove"}
          => local.room \in RoomName
    /\ local.at = "start.remove" => local.old \in RoomName
    /\ local.at \in {"start.add", "status.set"} => local.object \in Object
    /\ local.at = "status.set" => local.status \in Status

\* Where a thread with these locals may find its client.
MayBeIn(local, s) ==
    /\ local.at # "gone"
    /\ local.at = "start.remove" => s = local.old
    /\ local.at \in {"start.get", "start.add", "bye.remove"} => s = local.room

LocalsFit == \A u \in User : FitsIn(thread[u])

WhereLocalsSay == \A u \in User, s \in RoomName : In(u, s) => MayBeIn(thread[u], s)

InOneRoom == \A u \in User, r, s \in RoomName : In(u, r) /\ In(u, s) => r = s

\* An object is the voice room of one text room.
OneNameEach == \A r, s \in RoomName : rooms[r] # None /\ rooms[r] = rooms[s] => r = s

\* The object a thread is about to enter is that of its room or of none any more.
HeldIsRooms ==
    \A u \in User, s \in RoomName :
        At(u, "start.add") /\ rooms[s] = thread[u].object => s = thread[u].room

VoiceInv ==
    /\ TypeOK /\ LocalsFit /\ OneNameEach /\ HeldIsRooms
    /\ InOneRoom /\ WhereLocalsSay
    /\ NoEmptyVoiceRoom

LEMMA InvGivesOneVoiceRoom == VoiceInv => OneVoiceRoom
BY DEF VoiceInv, InOneRoom, WhereLocalsSay, MayBeIn, OneVoiceRoom, At

LEMMA RestFits ==
    ASSUME NEW label \in {"gone", "idle", "stop.find", "bye.find"}
    PROVE  FitsIn(Rest(label)) /\ Rest(label).at = label
BY DEF FitsIn, Rest, Thread, Label

------------------------------------------------------------------------------
(* What a step of u's thread must do for the invariant to stay. *)

LEMMA StepKeepsInv ==
    ASSUME VoiceInv, NEW u \in User, NEW local, Become(u, local), FitsIn(local),
           member' \in [RoomName -> SUBSET User],
           rooms' \in [RoomName -> Object \cup {None}],
           voice' \in [Object -> [User -> {f \in SUBSET Flag : f # Out => "in" \in f}]],
           OneNameEach',
           \A s \in RoomName : rooms'[s] # None =>
              rooms'[s] = rooms[s] \/ \A v \in User \ {u} : thread[v].object # rooms'[s],
           \A s \in RoomName : local.at = "start.add" /\ rooms'[s] = local.object => s = local.room,
           \A v \in User \ {u}, s \in RoomName : In(v, s)' => In(v, s),
           \A r, s \in RoomName : In(u, r)' /\ In(u, s)' => r = s,
           \A s \in RoomName : In(u, s)' => MayBeIn(local, s),
           \A s \in RoomName : rooms'[s] # None /\ voice'[rooms'[s]] = NewVoiceRoom =>
              \/ /\ rooms'[s] = rooms[s] /\ voice[rooms[s]] = NewVoiceRoom
                 /\ ~(At(u, "start.add") /\ thread[u].object = rooms[s])
              \/ local.at = "start.add" /\ local.object = rooms'[s]
    PROVE  VoiceInv'
<1>1. /\ thread' \in [User -> Thread] /\ thread'[u] = local
      /\ \A v \in User \ {u} : thread'[v] = thread[v]
    BY DEF VoiceInv, TypeOK, Become, FitsIn
<1>2. TypeOK'
    BY <1>1 DEF TypeOK
<1>3. LocalsFit'
    BY <1>1 DEF VoiceInv, LocalsFit
<1>4. HeldIsRooms'
    <2> SUFFICES ASSUME NEW v \in User, NEW s \in RoomName,
                        At(v, "start.add")', rooms'[s] = thread'[v].object
                 PROVE  s = thread'[v].room
        BY DEF HeldIsRooms
    <2>1. CASE v = u
        BY <1>1, <2>1 DEF At
    <2>2. CASE v # u
        <3>1. thread'[v] = thread[v] /\ At(v, "start.add") /\ thread[v].object \in Object
            BY <1>1, <2>2 DEF At, VoiceInv, LocalsFit, FitsIn
        <3>2. rooms'[s] # None
            BY <3>1, VoiceAssumption
        <3>3. rooms'[s] = rooms[s]
            BY <2>2, <3>1, <3>2
        <3>. QED BY <3>1, <3>3 DEF VoiceInv, HeldIsRooms
    <2>. QED BY <2>1, <2>2
<1>5. InOneRoom'
    <2> SUFFICES ASSUME NEW v \in User, NEW r \in RoomName, NEW s \in RoomName, In(v, r)', In(v, s)'
                 PROVE  r = s
        BY DEF InOneRoom
    <2>1. CASE v = u
        BY <2>1
    <2>2. CASE v # u
        BY <2>2 DEF VoiceInv, InOneRoom
    <2>. QED BY <2>1, <2>2
<1>6. WhereLocalsSay'
    <2> SUFFICES ASSUME NEW v \in User, NEW s \in RoomName, In(v, s)'
                 PROVE  MayBeIn(thread'[v], s)
        BY DEF WhereLocalsSay, MayBeIn
    <2>1. CASE v = u
        BY <1>1, <2>1
    <2>2. CASE v # u
        BY <1>1, <2>2 DEF VoiceInv, WhereLocalsSay
    <2>. QED BY <2>1, <2>2
<1>7. NoEmptyVoiceRoom'
    <2> SUFFICES ASSUME NEW s \in RoomName, rooms'[s] # None, voice'[rooms'[s]] = NewVoiceRoom
                 PROVE  \E v \in User : thread'[v].at = "start.add" /\ thread'[v].object = rooms'[s]
        BY DEF NoEmptyVoiceRoom, At, NewVoiceRoom
    <2>1. CASE local.at = "start.add" /\ local.object = rooms'[s]
        BY <1>1, <2>1
    <2>2. CASE /\ rooms'[s] = rooms[s] /\ voice[rooms[s]] = NewVoiceRoom
               /\ ~(At(u, "start.add") /\ thread[u].object = rooms[s])
        <3>1. PICK v \in User : At(v, "start.add") /\ thread[v].object = rooms[s]
            BY <2>2 DEF VoiceInv, NoEmptyVoiceRoom
        <3>. QED BY <1>1, <2>2, <3>1 DEF At
    <2>. QED BY <2>1, <2>2
<1>. QED BY <1>2, <1>3, <1>4, <1>5, <1>6, <1>7 DEF VoiceInv

\* A step that leaves the voice rooms alone, from a label other than start.add.
LEMMA LocalStep ==
    ASSUME VoiceInv, NEW u \in User, NEW local, Become(u, local), FitsIn(local),
           UNCHANGED <<member, rooms, voice>>, ~At(u, "start.add"), local.at # "start.add",
           \A s \in RoomName : In(u, s) => MayBeIn(local, s)
    PROVE  VoiceInv'
<1>1. \A v \in User, s \in RoomName : In(v, s)' <=> In(v, s)
    BY DEF In, Out
<1>2. OneNameEach'
    BY DEF VoiceInv, OneNameEach
<1>. QED
    BY <1>1, <1>2, StepKeepsInv DEF VoiceInv, TypeOK, InOneRoom

\* A step that takes u out of a room.
LEMMA RemoveStep ==
    ASSUME VoiceInv, NEW u \in User, NEW r \in RoomName, NEW local, Become(u, local), FitsIn(local),
           RemoveFromRoom(r, u), UNCHANGED member,
           ~At(u, "start.add"), local.at # "start.add",
           \A s \in RoomName : In(u, s) /\ s # r => MayBeIn(local, s)
    PROVE  VoiceInv'
<1>1. CASE rooms[r] = None
    <2>1. UNCHANGED <<member, rooms, voice>>
        BY <1>1 DEF RemoveFromRoom
    <2>2. ~In(u, r)
        BY <1>1 DEF In
    <2>. QED BY <2>1, <2>2, LocalStep
<1>2. CASE rooms[r] # None
    <2> DEFINE left == [voice[rooms[r]] EXCEPT ![u] = Out]
    <2>1. rooms[r] \in Object /\ voice' = [voice EXCEPT ![rooms[r]] = left]
        BY <1>2 DEF RemoveFromRoom, VoiceInv, TypeOK
    <2>2. /\ left \in [User -> {f \in SUBSET Flag : f # Out => "in" \in f}]
          /\ left[u] = Out /\ \A v \in User \ {u} : left[v] = voice[rooms[r]][v]
        BY <2>1 DEF VoiceInv, TypeOK, Out
    <2>3. /\ voice' \in [Object -> [User -> {f \in SUBSET Flag : f # Out => "in" \in f}]]
          /\ voice'[rooms[r]] = left
          /\ \A o \in Object \ {rooms[r]} : voice'[o] = voice[o]
        BY <2>1, <2>2 DEF VoiceInv, TypeOK
    <2>4. /\ rooms' \in [RoomName -> Object \cup {None}]
          /\ \A s \in RoomName : rooms'[s] # None => rooms'[s] = rooms[s]
          /\ left = NewVoiceRoom => rooms'[r] = None
        BY <1>2 DEF RemoveFromRoom, VoiceInv, TypeOK
    <2>5. OneNameEach'
        BY <2>4 DEF VoiceInv, OneNameEach
    <2>6. \A s \in RoomName : rooms'[s] # None /\ s # r => voice'[rooms'[s]] = voice[rooms[s]]
        <3> SUFFICES ASSUME NEW s \in RoomName, rooms'[s] # None, s # r
                     PROVE  voice'[rooms'[s]] = voice[rooms[s]]
            OBVIOUS
        <3>1. rooms'[s] = rooms[s] /\ rooms[s] \in Object
            BY <2>4 DEF VoiceInv, TypeOK
        <3>2. rooms[s] # rooms[r]
            BY <1>2 DEF VoiceInv, OneNameEach
        <3>. QED BY <2>3, <3>1, <3>2
    <2>7. \A v \in User, s \in RoomName : In(v, s)' => In(v, s) /\ ~(v = u /\ s = r)
        <3> SUFFICES ASSUME NEW v \in User, NEW s \in RoomName, rooms'[s] # None, voice'[rooms'[s]][v] # Out
                     PROVE  In(v, s) /\ ~(v = u /\ s = r)
            BY DEF In, Out
        <3>1. CASE s = r
            BY <2>2, <2>3, <2>4, <3>1 DEF In
        <3>2. CASE s # r
            BY <2>4, <2>6, <3>2 DEF In
        <3>. QED BY <3>1, <3>2
    <2>8. \A s \in RoomName : rooms'[s] # None /\ voice'[rooms'[s]] = NewVoiceRoom =>
             rooms'[s] = rooms[s] /\ voice[rooms[s]] = NewVoiceRoom
        BY <2>3, <2>4, <2>6
    <2>9. member' \in [RoomName -> SUBSET User]
        BY DEF VoiceInv, TypeOK
    <2>10. \A a, b \in RoomName : In(u, a)' /\ In(u, b)' => a = b
        BY <2>7 DEF VoiceInv, InOneRoom
    <2>. QED BY <2>3, <2>4, <2>5, <2>7, <2>8, <2>9, <2>10, StepKeepsInv
<1>. QED BY <1>1, <1>2

\* create_or_get_room; a new VoiceRoom is one nobody refers to.
LEMMA StartGetInv ==
    ASSUME VoiceInv, NEW u \in User, StartGet(u)
    PROVE  VoiceInv'
<1> DEFINE r == thread[u].room
<1>1. At(u, "start.get") /\ FitsIn(thread[u]) /\ r \in RoomName
    BY DEF StartGet, VoiceInv, LocalsFit, FitsIn, At
<1>2. PICK o \in Object :
         /\ IF rooms[r] # None THEN o = rooms[r] /\ UNCHANGED <<rooms, voice>>
            ELSE /\ ~Referred(o)
                 /\ rooms' = [rooms EXCEPT ![r] = o]
                 /\ voice' = [voice EXCEPT ![o] = NewVoiceRoom]
         /\ Become(u, [thread[u] EXCEPT !.at = "start.add", !.object = o])
    BY DEF StartGet
<1> DEFINE local == [thread[u] EXCEPT !.at = "start.add", !.object = o]
<1>3. FitsIn(local) /\ local.at = "start.add" /\ local.object = o /\ local.room = r
    BY <1>1 DEF FitsIn, Thread, Label
<1>4. /\ member' \in [RoomName -> SUBSET User]
      /\ rooms' \in [RoomName -> Object \cup {None}]
      /\ rooms'[r] = o /\ o # None
      /\ \A s \in RoomName \ {r} : rooms'[s] = rooms[s]
    BY <1>1, <1>2, VoiceAssumption DEF StartGet, VoiceInv, TypeOK
<1>5. \A s \in RoomName \ {r} : rooms[s] # o
    BY <1>1, <1>2 DEF Referred, VoiceInv, OneNameEach
<1>6. OneNameEach'
    BY <1>4, <1>5 DEF VoiceInv, OneNameEach
<1>7. voice' \in [Object -> [User -> {f \in SUBSET Flag : f # Out => "in" \in f}]]
    BY <1>2 DEF VoiceInv, TypeOK, NewVoiceRoom, Out
<1>8. \A s \in RoomName \ {r} : rooms'[s] # None => voice'[rooms'[s]] = voice[rooms[s]]
    BY <1>2, <1>4, <1>5, <1>7 DEF VoiceInv, TypeOK
<1>9. rooms[r] # None => voice'[rooms'[r]] = voice[rooms[r]]
    BY <1>2
<1>10. rooms[r] = None => voice'[rooms'[r]] = NewVoiceRoom
    BY <1>2, <1>4 DEF VoiceInv, TypeOK
<1>11. \A v \in User, s \in RoomName : In(v, s)' => In(v, s)
    <2> SUFFICES ASSUME NEW v \in User, NEW s \in RoomName, rooms'[s] # None, voice'[rooms'[s]][v] # Out
                 PROVE  In(v, s)
        BY DEF In, Out
    <2>1. CASE s # r
        BY <1>4, <1>8, <2>1 DEF In
    <2>2. CASE s = r /\ rooms[r] # None
        BY <1>9, <2>2 DEF In
    <2>3. CASE s = r /\ rooms[r] = None
        BY <1>10, <2>3 DEF NewVoiceRoom
    <2>. QED BY <2>1, <2>2, <2>3
<1>12. \A s \in RoomName : In(u, s)' => MayBeIn(local, s)
    BY <1>1, <1>3, <1>11 DEF VoiceInv, WhereLocalsSay, MayBeIn, At
<1>13. \A s \in RoomName : rooms'[s] # None =>
          rooms'[s] = rooms[s] \/ \A v \in User \ {u} : thread[v].object # rooms'[s]
    BY <1>2, <1>4 DEF Referred
<1>14. \A s \in RoomName : rooms'[s] = o => s = r
    BY <1>4, <1>5
<1>15. \A s \in RoomName : rooms'[s] # None /\ voice'[rooms'[s]] = NewVoiceRoom =>
          \/ /\ rooms'[s] = rooms[s] /\ voice[rooms[s]] = NewVoiceRoom
             /\ ~(At(u, "start.add") /\ thread[u].object = rooms[s])
          \/ o = rooms'[s]
    BY <1>1, <1>4, <1>8 DEF At
<1>16. \A a, b \in RoomName : In(u, a)' /\ In(u, b)' => a = b
    BY <1>11 DEF VoiceInv, InOneRoom
<1>17. Become(u, local)
    BY <1>2
<1> HIDE DEF local
<1>. QED
    BY <1>3, <1>4, <1>6, <1>7, <1>11, <1>12, <1>13, <1>14, <1>15, <1>16, <1>17, StepKeepsInv

\* A step that changes u's flags in one object.
LEMMA FlagsStep ==
    ASSUME VoiceInv, NEW u \in User, NEW o \in Object, NEW flags \in {f \in SUBSET Flag : f # Out => "in" \in f},
           voice' = [voice EXCEPT ![o][u] = flags]
    PROVE  /\ voice' \in [Object -> [User -> {f \in SUBSET Flag : f # Out => "in" \in f}]]
           /\ voice'[o][u] = flags
           /\ \A v \in User \ {u} : voice'[o][v] = voice[o][v]
           /\ \A p \in Object \ {o} : voice'[p] = voice[p]
<1> DEFINE Room == [User -> {f \in SUBSET Flag : f # Out => "in" \in f}]
<1> DEFINE new == [voice[o] EXCEPT ![u] = flags]
<1>1. voice[o] \in Room /\ voice \in [Object -> Room]
    BY DEF VoiceInv, TypeOK
<1>2. new \in Room /\ new[u] = flags /\ \A v \in User \ {u} : new[v] = voice[o][v]
    BY <1>1
<1>3. voice' = [voice EXCEPT ![o] = new]
    BY <1>1
<1>. QED BY <1>1, <1>2, <1>3

LEMMA StartAddInv ==
    ASSUME VoiceInv, NEW u \in User, StartAdd(u)
    PROVE  VoiceInv'
<1> DEFINE o == thread[u].object
<1> DEFINE r == thread[u].room
<1>1. At(u, "start.add") /\ o \in Object /\ UNCHANGED <<member, rooms>>
    BY DEF StartAdd, VoiceInv, LocalsFit, FitsIn, At
<1>2. NewParticipant \in {f \in SUBSET Flag : f # Out => "in" \in f} /\ NewParticipant # Out
    BY DEF NewParticipant, Flag, Out
<1>3. /\ voice' \in [Object -> [User -> {f \in SUBSET Flag : f # Out => "in" \in f}]]
      /\ voice'[o][u] = NewParticipant
      /\ \A v \in User \ {u} : voice'[o][v] = voice[o][v]
      /\ \A p \in Object \ {o} : voice'[p] = voice[p]
    BY <1>1, <1>2, FlagsStep DEF StartAdd
<1>4. Become(u, Rest("idle")) /\ FitsIn(Rest("idle")) /\ Rest("idle").at = "idle"
    BY RestFits DEF StartAdd
<1>5. \A s \in RoomName : rooms[s] # None => rooms[s] \in Object
    BY DEF VoiceInv, TypeOK
<1>6. \A v \in User \ {u}, s \in RoomName : In(v, s)' => In(v, s)
    BY <1>1, <1>3, <1>5 DEF In, Out
<1>7. \A s \in RoomName : In(u, s)' => s = r
    <2> SUFFICES ASSUME NEW s \in RoomName, rooms[s] # None, voice'[rooms[s]][u] # Out
                 PROVE  s = r
        BY <1>1 DEF In, Out
    <2>1. CASE rooms[s] = o
        BY <1>1, <2>1 DEF VoiceInv, HeldIsRooms
    <2>2. CASE rooms[s] # o
        <3>1. In(u, s)
            BY <1>3, <1>5, <2>2 DEF In
        <3>. QED BY <1>1, <3>1 DEF VoiceInv, WhereLocalsSay, MayBeIn, At
    <2>. QED BY <2>1, <2>2
<1>8. \A s \in RoomName : rooms'[s] # None /\ voice'[rooms'[s]] = NewVoiceRoom =>
         rooms[s] # o /\ voice[rooms[s]] = NewVoiceRoom
    BY <1>1, <1>2, <1>3, <1>5 DEF NewVoiceRoom
<1>9. \A s \in RoomName : MayBeIn(Rest("idle"), s)
    BY <1>4 DEF MayBeIn
<1>10. OneNameEach' /\ member' \in [RoomName -> SUBSET User]
       /\ rooms' \in [RoomName -> Object \cup {None}]
    BY <1>1 DEF VoiceInv, OneNameEach, TypeOK
<1>. QED
    BY <1>1, <1>3, <1>4, <1>6, <1>7, <1>8, <1>9, <1>10, StepKeepsInv

\* set_muted and set_speaking change nobody's presence.
LEMMA StatusSetInv ==
    ASSUME VoiceInv, NEW u \in User, StatusSet(u)
    PROVE  VoiceInv'
<1> DEFINE o == thread[u].object
<1> DEFINE s == thread[u].status
<1> DEFINE old == voice[o][u]
<1> DEFINE flags == IF old = Out THEN Out ELSE With(old, s)
<1>1. At(u, "status.set") /\ o \in Object /\ s \in Status /\ UNCHANGED <<member, rooms>>
    BY DEF StatusSet, VoiceInv, LocalsFit, FitsIn, At
<1>2. old \in SUBSET Flag /\ (old # Out => "in" \in old)
    BY <1>1 DEF VoiceInv, TypeOK
<1>3. /\ flags \in {f \in SUBSET Flag : f # Out => "in" \in f}
      /\ old = Out <=> flags = Out
    <2>1. CASE old = Out
        <3>1. flags = Out
            BY <2>1
        <3>2. Out \in SUBSET Flag
            BY DEF Out
        <3> HIDE DEF flags
        <3>. QED BY <2>1, <3>1, <3>2
    <2>2. CASE old # Out
        <3>1. "in" \in flags /\ flags \subseteq Flag
            BY <1>1, <1>2, <2>2 DEF With, Status, Flag
        <3> HIDE DEF flags
        <3>. QED BY <2>2, <3>1 DEF Out
    <2>. QED BY <2>1, <2>2
<1>4. voice' = [voice EXCEPT ![o][u] = flags]
    BY DEF StatusSet
<1> HIDE DEF flags
<1>5. /\ voice' \in [Object -> [User -> {f \in SUBSET Flag : f # Out => "in" \in f}]]
      /\ voice'[o][u] = flags
      /\ \A v \in User \ {u} : voice'[o][v] = voice[o][v]
      /\ \A p \in Object \ {o} : voice'[p] = voice[p]
    BY <1>1, <1>3, <1>4, FlagsStep
<1>6. \A p \in Object, v \in User : voice'[p][v] = Out <=> voice[p][v] = Out
    BY <1>1, <1>3, <1>5
<1>7. \A p \in Object : voice'[p] = NewVoiceRoom => voice[p] = NewVoiceRoom
    <2> SUFFICES ASSUME NEW p \in Object, voice'[p] = NewVoiceRoom
                 PROVE  voice[p] = NewVoiceRoom
        OBVIOUS
    <2>1. \A v \in User : voice[p][v] = Out
        BY <1>6 DEF NewVoiceRoom
    <2>2. voice[p] \in [User -> {f \in SUBSET Flag : f # Out => "in" \in f}]
        BY DEF VoiceInv, TypeOK
    <2>. QED BY <2>1, <2>2 DEF NewVoiceRoom
<1>8. \A q \in RoomName : rooms[q] # None => rooms[q] \in Object
    BY DEF VoiceInv, TypeOK
<1>9. \A v \in User, q \in RoomName : In(v, q)' => In(v, q)
    BY <1>1, <1>6, <1>8 DEF In, Out
<1>10. Become(u, Rest("idle")) /\ FitsIn(Rest("idle")) /\ Rest("idle").at = "idle"
    BY RestFits DEF StatusSet
<1>11. \A q \in RoomName : MayBeIn(Rest("idle"), q)
    BY <1>10 DEF MayBeIn
<1>12. OneNameEach' /\ member' \in [RoomName -> SUBSET User]
       /\ rooms' \in [RoomName -> Object \cup {None}]
    BY <1>1 DEF VoiceInv, OneNameEach, TypeOK
<1>13. \A a, b \in RoomName : In(u, a)' /\ In(u, b)' => a = b
    BY <1>9 DEF VoiceInv, InOneRoom
<1>14. \A q \in RoomName : rooms'[q] # None /\ voice'[rooms'[q]] = NewVoiceRoom =>
          /\ rooms'[q] = rooms[q] /\ voice[rooms[q]] = NewVoiceRoom
          /\ ~(At(u, "start.add") /\ thread[u].object = rooms[q])
    BY <1>1, <1>7, <1>8 DEF At
<1>. QED
    BY <1>1, <1>5, <1>9, <1>10, <1>11, <1>12, <1>13, <1>14, StepKeepsInv

------------------------------------------------------------------------------
(* The other steps. *)

\* What user_voice_room may return.
LEMMA FoundRoomFacts ==
    ASSUME VoiceInv, NEW u \in User, NEW found \in FoundRoom(u)
    PROVE  /\ found \in RoomName \cup {None}
           /\ \A s \in RoomName : In(u, s) => found = s
<1>1. CASE \E r \in RoomName : In(u, r)
    BY <1>1 DEF FoundRoom, VoiceInv, InOneRoom
<1>2. CASE ~\E r \in RoomName : In(u, r)
    BY <1>2 DEF FoundRoom
<1>. QED BY <1>1, <1>2

LEMMA StartFindInv == ASSUME VoiceInv, NEW u \in User, StartFind(u) PROVE VoiceInv'
<1>1. At(u, "start.find") /\ FitsIn(thread[u]) /\ thread[u].room \in RoomName
      /\ UNCHANGED <<member, rooms, voice>>
    BY DEF StartFind, VoiceInv, LocalsFit, FitsIn, At
<1>2. PICK old \in FoundRoom(u) :
         Become(u, IF old \in {None, thread[u].room}
                   THEN [thread[u] EXCEPT !.at = "start.get"]
                   ELSE [thread[u] EXCEPT !.at = "start.remove", !.old = old])
    BY DEF StartFind
<1>3. old \in RoomName \cup {None} /\ \A s \in RoomName : In(u, s) => old = s
    BY FoundRoomFacts
<1>4. CASE old \in {None, thread[u].room}
    <2> DEFINE local == [thread[u] EXCEPT !.at = "start.get"]
    <2>1. FitsIn(local) /\ local.at = "start.get" /\ local.room = thread[u].room
        BY <1>1 DEF FitsIn, Thread, Label
    <2>2. \A s \in RoomName : In(u, s) => MayBeIn(local, s)
        BY <1>3, <1>4, <2>1, VoiceAssumption DEF MayBeIn
    <2>. QED BY <1>1, <1>2, <1>4, <2>1, <2>2, LocalStep DEF At
<1>5. CASE old \notin {None, thread[u].room}
    <2> DEFINE local == [thread[u] EXCEPT !.at = "start.remove", !.old = old]
    <2>1. FitsIn(local) /\ local.at = "start.remove" /\ local.old = old
        BY <1>1, <1>3, <1>5 DEF FitsIn, Thread, Label
    <2>2. \A s \in RoomName : In(u, s) => MayBeIn(local, s)
        BY <1>3, <2>1 DEF MayBeIn
    <2>. QED BY <1>1, <1>2, <1>5, <2>1, <2>2, LocalStep DEF At
<1>. QED BY <1>4, <1>5

LEMMA StartRemoveInv == ASSUME VoiceInv, NEW u \in User, StartRemove(u) PROVE VoiceInv'
<1> DEFINE local == [thread[u] EXCEPT !.at = "start.get", !.old = None]
<1>1. At(u, "start.remove") /\ FitsIn(thread[u]) /\ thread[u].old \in RoomName
    BY DEF StartRemove, VoiceInv, LocalsFit, FitsIn, At
<1>2. FitsIn(local) /\ local.at = "start.get"
    BY <1>1 DEF FitsIn, Thread, Label, At
<1>3. \A s \in RoomName : In(u, s) => s = thread[u].old
    BY <1>1 DEF VoiceInv, WhereLocalsSay, MayBeIn, At
<1>. QED BY <1>1, <1>2, <1>3, RemoveStep DEF StartRemove, At

\* Steps that end at a label without locals.
LEMMA ToRest ==
    ASSUME VoiceInv, NEW u \in User, NEW label \in {"gone", "idle", "stop.find", "bye.find"},
           Become(u, Rest(label)), UNCHANGED <<member, rooms, voice>>, ~At(u, "start.add"),
           label = "gone" => \A s \in RoomName : ~In(u, s)
    PROVE  VoiceInv'
<1>1. FitsIn(Rest(label)) /\ Rest(label).at = label
    BY RestFits
<1>2. \A s \in RoomName : In(u, s) => MayBeIn(Rest(label), s)
    BY <1>1 DEF MayBeIn
<1>. QED BY <1>1, <1>2, LocalStep

\* Steps that go on to take u out of a room.
LEMMA ToRemove ==
    ASSUME VoiceInv, NEW u \in User, NEW label \in {"stop.remove", "bye.remove"}, NEW r \in RoomName,
           Become(u, [Rest(label) EXCEPT !.room = r]), UNCHANGED <<member, rooms, voice>>, ~At(u, "start.add"),
           label = "bye.remove" => \A s \in RoomName : In(u, s) => s = r
    PROVE  VoiceInv'
<1> DEFINE local == [Rest(label) EXCEPT !.room = r]
<1>1. FitsIn(local) /\ local.at = label /\ local.room = r
    BY DEF FitsIn, Thread, Label, Rest
<1>2. \A s \in RoomName : In(u, s) => MayBeIn(local, s)
    BY <1>1 DEF MayBeIn
<1>. QED BY <1>1, <1>2, LocalStep

LEMMA StopInv == ASSUME VoiceInv, NEW u \in User, Stop(u) \/ StopFind(u) PROVE VoiceInv'
<1>1. ~At(u, "start.add") /\ UNCHANGED <<member, rooms, voice>>
    BY DEF Stop, StopFind, At
<1>2. CASE Stop(u)
    BY <1>1, <1>2, ToRest, ToRemove DEF Stop
<1>3. CASE StopFind(u)
    <2>1. PICK r \in FoundRoom(u) :
             Become(u, IF r = None THEN Rest("idle") ELSE [Rest("stop.remove") EXCEPT !.room = r])
        BY <1>3 DEF StopFind
    <2>2. r \in RoomName \cup {None}
        BY FoundRoomFacts
    <2>3. CASE r = None
        BY <1>1, <2>1, <2>3, ToRest
    <2>4. CASE r # None
        BY <1>1, <2>1, <2>2, <2>4, ToRemove
    <2>. QED BY <2>3, <2>4
<1>. QED BY <1>2, <1>3

LEMMA ByeFindInv == ASSUME VoiceInv, NEW u \in User, ByeFind(u) PROVE VoiceInv'
<1>1. ~At(u, "start.add") /\ UNCHANGED <<member, rooms, voice>>
    BY DEF ByeFind, At
<1>2. PICK r \in FoundRoom(u) :
         Become(u, IF r = None THEN Rest("gone") ELSE [Rest("bye.remove") EXCEPT !.room = r])
    BY DEF ByeFind
<1>3. r \in RoomName \cup {None} /\ \A s \in RoomName : In(u, s) => r = s
    BY FoundRoomFacts
<1>4. CASE r = None
    BY <1>1, <1>2, <1>3, <1>4, ToRest, VoiceAssumption
<1>5. CASE r # None
    BY <1>1, <1>2, <1>3, <1>5, ToRemove
<1>. QED BY <1>4, <1>5

LEMMA RemoveInv == ASSUME VoiceInv, NEW u \in User, StopRemove(u) \/ ByeRemove(u) PROVE VoiceInv'
<1>1. FitsIn(thread[u])
    BY DEF VoiceInv, LocalsFit
<1>2. CASE StopRemove(u)
    <2>1. At(u, "stop.remove") /\ thread[u].room \in RoomName
        BY <1>1, <1>2 DEF StopRemove, FitsIn, At
    <2>2. FitsIn(Rest("idle")) /\ Rest("idle").at = "idle"
        BY RestFits
    <2>3. \A s \in RoomName : MayBeIn(Rest("idle"), s)
        BY <2>2 DEF MayBeIn
    <2>. QED BY <1>2, <2>1, <2>2, <2>3, RemoveStep DEF StopRemove, At
<1>3. CASE ByeRemove(u)
    <2>1. At(u, "bye.remove") /\ thread[u].room \in RoomName
        BY <1>1, <1>3 DEF ByeRemove, FitsIn, At
    <2>2. FitsIn(Rest("gone")) /\ Rest("gone").at = "gone"
        BY RestFits
    <2>3. \A s \in RoomName : In(u, s) => s = thread[u].room
        BY <2>1 DEF VoiceInv, WhereLocalsSay, MayBeIn, At
    <2>. QED BY <1>3, <2>1, <2>2, <2>3, RemoveStep DEF ByeRemove, At
<1>. QED BY <1>2, <1>3

LEMMA StartInv == ASSUME VoiceInv, NEW u \in User, NEW r \in RoomName, Start(u, r) PROVE VoiceInv'
<1> DEFINE local == [Rest("start.find") EXCEPT !.room = r]
<1>1. FitsIn(local) /\ local.at = "start.find"
    BY DEF FitsIn, Thread, Label, Rest
<1>2. \A s \in RoomName : MayBeIn(local, s)
    BY <1>1 DEF MayBeIn
<1>. QED BY <1>1, <1>2, LocalStep DEF Start, At

LEMMA VoiceStatusInv ==
    ASSUME VoiceInv, NEW u \in User, NEW r \in RoomName, NEW s \in Status, VoiceStatus(u, r, s)
    PROVE  VoiceInv'
<1> DEFINE local == [Rest("status.set") EXCEPT !.object = rooms[r], !.status = s]
<1>1. rooms[r] \in Object
    BY DEF VoiceStatus, VoiceInv, TypeOK
<1>2. FitsIn(local) /\ local.at = "status.set"
    BY <1>1 DEF FitsIn, Thread, Label, Rest
<1>3. \A q \in RoomName : MayBeIn(local, q)
    BY <1>2 DEF MayBeIn
<1>. QED BY <1>2, <1>3, LocalStep DEF VoiceStatus, At

\* Connections come and go between calls.
LEMMA ConnectInv == ASSUME VoiceInv, NEW u \in User, Connect(u) \/ Disconnect(u) PROVE VoiceInv'
BY ToRest DEF Connect, Disconnect, At

\* Membership of text rooms is on nobody's mind once voice has started.
LEMMA MembershipInv ==
    ASSUME VoiceInv, NEW u \in User, NEW r \in RoomName, JoinText(u, r) \/ LeaveText(u, r)
    PROVE  VoiceInv'
<1>1. UNCHANGED <<rooms, voice, thread>> /\ member' \in [RoomName -> SUBSET User]
    BY DEF JoinText, LeaveText, VoiceInv, TypeOK
<1>. QED
    BY <1>1 DEF VoiceInv, TypeOK, LocalsFit, OneNameEach, HeldIsRooms, InOneRoom, WhereLocalsSay,
                NoEmptyVoiceRoom, In, At, MayBeIn

LEMMA VoiceInitInv == Init => VoiceInv
<1> SUFFICES ASSUME Init PROVE VoiceInv
    OBVIOUS
<1>1. FitsIn(Rest("gone")) /\ \A u \in User : thread[u] = Rest("gone")
    BY RestFits DEF Init
<1>2. TypeOK
    BY <1>1 DEF Init, TypeOK, NewVoiceRoom, Out, FitsIn
<1>3. \A u \in User, r \in RoomName : ~In(u, r)
    BY DEF Init, In
<1>4. \A u \in User : ~At(u, "start.add")
    BY <1>1 DEF At, Rest
<1>5. LocalsFit
    BY <1>1 DEF LocalsFit
<1>6. OneNameEach /\ NoEmptyVoiceRoom
    BY <1>3 DEF Init, OneNameEach, NoEmptyVoiceRoom
<1>7. HeldIsRooms
    BY <1>4 DEF HeldIsRooms
<1>8. InOneRoom /\ WhereLocalsSay
    BY <1>3 DEF InOneRoom, WhereLocalsSay
<1>. QED BY <1>2, <1>5, <1>6, <1>7, <1>8 DEF VoiceInv

LEMMA VoiceNextInv == VoiceInv /\ [Next]_vars => VoiceInv'
<1> SUFFICES ASSUME VoiceInv, [Next]_vars PROVE VoiceInv'
    OBVIOUS
<1>1. CASE UNCHANGED vars
    BY <1>1 DEF vars, VoiceInv, TypeOK, LocalsFit, OneNameEach, HeldIsRooms, InOneRoom, WhereLocalsSay,
                NoEmptyVoiceRoom, In, At, MayBeIn
<1>2. ASSUME NEW u \in User, Step(u) PROVE VoiceInv'
    BY <1>2, StartFindInv, StartRemoveInv, StartGetInv, StartAddInv, StopInv, StatusSetInv,
       ByeFindInv, RemoveInv DEF Step
<1>3. ASSUME NEW u \in User, Request(u) PROVE VoiceInv'
    BY <1>3, ConnectInv, StopInv, StartInv, MembershipInv, VoiceStatusInv DEF Request
<1>4. ASSUME NEW u \in User, NEW r \in RoomName, LeaveText(u, r) PROVE VoiceInv'
    BY <1>4, MembershipInv
<1>. QED BY <1>1, <1>2, <1>3, <1>4 DEF Next

------------------------------------------------------------------------------
\* The invariant holds, and with it that voice_room.py's maps hold values of their kind.
THEOREM VoiceInvariant == Spec => []VoiceInv
BY VoiceInitInv, VoiceNextInv, PTL DEF Spec

\* Flags are only on those who are in the voice room (voice_room.py:35), and a thread
\* only ever uses an object it has been given.
THEOREM VoiceTypes == Spec => []TypeOK
<1>1. VoiceInv => TypeOK
    BY DEF VoiceInv
<1>. QED BY <1>1, VoiceInvariant, PTL

\* However VOICE_START, VOICE_STOP and disconnections of any number of clients
\* interleave (service.py:484), a client is in one voice room at most, and in none
\* when it has gone.
THEOREM InOneVoiceRoom == Spec => []OneVoiceRoom
BY VoiceInvariant, InvGivesOneVoiceRoom, PTL

\* An emptied voice room goes from the map, though threads use rooms after the
\* manager's lock is released (voice_room.py:84).
THEOREM NoneLeftEmpty == Spec => []NoEmptyVoiceRoom
<1>1. VoiceInv => NoEmptyVoiceRoom
    BY DEF VoiceInv
<1>. QED BY <1>1, VoiceInvariant, PTL
================================================================================
