----------------------------- MODULE Client_proofs -----------------------------
(***************************************************************************)
(* Proofs about the parts of MCDesktop beside the windows: the server's    *)
(* chunked transfers (ChunkTransfer), the buffer that a listener plays     *)
(* from (JitterBuffer) and the way of a voice from one microphone to the   *)
(* others of a room (VoiceStream); and about the three together.           *)
(***************************************************************************)
EXTENDS MCDesktop, Desktop_proofs, FiniteSetTheorems, SequenceTheorems, TLAPS

------------------------------------------------------------------------------
(* ChunkTransfer: any clients, transfers, paths and sizes of the buffer.                      *)

(* What must hold beside the properties for them to be inductive. *)

Busy == {"start.row", "chunk.add", "end.save", "end.row", "end.send"}

\* A handler in progress has a transfer, and the file it is about to record is
\* written.
LocalsFit ==
    \A u \in User :
        /\ thread[u].at \in Busy => thread[u].transfer \in Transfer
        /\ At(u, "chunk.add") => thread[u].chunk \in Index
        /\ thread[u].at \in {"end.row", "end.send"} =>
              file[Target[thread[u].transfer]] # None

TransferInv ==
    /\ TypeOK
    /\ LocalsFit
    /\ BufferBounded
    /\ WrittenIsWhole
    /\ CompleteIsOnDisk

------------------------------------------------------------------------------
(* The buffer: a sequence without repetitions. *)

IsBuffer(s) == s \in Seq(Transfer) /\ IsInjective(s)

\* Dropping the oldest transfer makes room for one.
LEMMA EvictedType ==
    ASSUME IsBuffer(order), Len(order) <= MaxBuffer
    PROVE  IsBuffer(Evicted) /\ Len(Evicted) < MaxBuffer
<1> USE DEF IsBuffer
<1>1. CASE Len(order) >= MaxBuffer
    <2>1. order # <<>> /\ Evicted = Tail(order)
        BY <1>1, TransferAssumption DEF Evicted
    <2>2. /\ Tail(order) \in Seq(Transfer)
          /\ Len(Tail(order)) = Len(order) - 1
          /\ \A i \in 1 .. Len(Tail(order)) : Tail(order)[i] = order[i + 1]
        BY <2>1, HeadTailProperties
    <2>3. IsInjective(Tail(order))
        <3>1. /\ DOMAIN order = 1 .. Len(order)
              /\ DOMAIN Tail(order) = 1 .. Len(Tail(order))
              /\ Len(order) \in Nat
            BY <2>2, LenProperties
        <3>2. ASSUME NEW i \in 1 .. Len(Tail(order)), NEW j \in 1 .. Len(Tail(order)),
                     Tail(order)[i] = Tail(order)[j]
              PROVE  i = j
            <4>1. i + 1 \in DOMAIN order /\ j + 1 \in DOMAIN order
                BY <2>2, <3>1
            <4>2. order[i + 1] = order[j + 1]
                BY <2>2, <3>2
            <4>3. i + 1 = j + 1
                BY <4>1, <4>2 DEF IsInjective
            <4>4. QED
                BY <4>3
        <3>3. QED
            BY <3>1, <3>2 DEF IsInjective
    <2>4. QED
        BY <1>1, <2>1, <2>2, <2>3, TransferAssumption
<1>2. CASE ~(Len(order) >= MaxBuffer)
    <2>1. QED
        BY <1>2, LenProperties, TransferAssumption DEF Evicted
<1>3. QED
    BY <1>1, <1>2

LEMMA AppendedType ==
    ASSUME NEW s, IsBuffer(s), NEW t \in Transfer, ~Contains(s, t)
    PROVE  IsBuffer(Append(s, t)) /\ Len(Append(s, t)) = Len(s) + 1
<1>1. /\ Append(s, t) \in Seq(Transfer)
      /\ Len(Append(s, t)) = Len(s) + 1
      /\ \A i \in 1 .. Len(s) : Append(s, t)[i] = s[i]
      /\ Append(s, t)[Len(s) + 1] = t
    BY AppendProperties DEF IsBuffer
<1>2. /\ Len(s) \in Nat
      /\ DOMAIN s = 1 .. Len(s)
      /\ DOMAIN Append(s, t) = 1 .. Len(s) + 1
    BY <1>1, LenProperties DEF IsBuffer
<1>3. ASSUME NEW i \in 1 .. Len(s) + 1, NEW j \in 1 .. Len(s) + 1,
             Append(s, t)[i] = Append(s, t)[j]
      PROVE  i = j
    <2>1. CASE i \in 1 .. Len(s) /\ j \in 1 .. Len(s)
        BY <1>1, <1>2, <1>3, <2>1 DEF IsBuffer, IsInjective
    <2>2. CASE i = Len(s) + 1 /\ j \in 1 .. Len(s)
        BY <1>1, <1>3, <2>2 DEF Contains
    <2>3. CASE j = Len(s) + 1 /\ i \in 1 .. Len(s)
        BY <1>1, <1>3, <2>3 DEF Contains
    <2>4. QED
        BY <1>2, <2>1, <2>2, <2>3
<1>4. QED
    BY <1>1, <1>2, <1>3 DEF IsBuffer, IsInjective

\* Taking a transfer out keeps the others once and in their order.
LEMMA RemovedType ==
    ASSUME NEW s, IsBuffer(s), NEW i \in DOMAIN s
    PROVE  IsBuffer(RemoveAt(s, i)) /\ Len(RemoveAt(s, i)) = Len(s) - 1
<1> DEFINE first == SubSeq(s, 1, i - 1)
           last == SubSeq(s, i + 1, Len(s))
           At2(j) == IF j <= i - 1 THEN j ELSE j + 1
<1>1. /\ Len(s) \in Nat /\ DOMAIN s = 1 .. Len(s) /\ i \in 1 .. Len(s)
      /\ \A j \in 1 .. Len(s) : s[j] \in Transfer
    BY LenProperties, ElementOfSeq DEF IsBuffer
<1>2. /\ first \in Seq(Transfer) /\ Len(first) = i - 1
      /\ \A j \in 1 .. i - 1 : first[j] = s[j]
    <2>1. \A j \in 1 .. i - 1 : s[j] \in Transfer
        BY <1>1
    <2>2. 1 \in Int /\ i - 1 \in Int
        BY <1>1
    <2>3. /\ first \in Seq(Transfer)
          /\ Len(first) = IF 1 <= i - 1 THEN i - 1 - 1 + 1 ELSE 0
          /\ \A j \in 1 .. i - 1 - 1 + 1 : first[j] = s[1 + j - 1]
        BY <2>1, <2>2, SubSeqProperties
    <2>4. QED
        BY <1>1, <2>3
<1>3. /\ last \in Seq(Transfer) /\ Len(last) = Len(s) - i
      /\ \A j \in 1 .. Len(s) - i : last[j] = s[i + j]
    <2>1. \A j \in i + 1 .. Len(s) : s[j] \in Transfer
        BY <1>1
    <2>2. i + 1 \in Int /\ Len(s) \in Int
        BY <1>1
    <2>3. /\ last \in Seq(Transfer)
          /\ Len(last) = IF i + 1 <= Len(s) THEN Len(s) - (i + 1) + 1 ELSE 0
          /\ \A j \in 1 .. Len(s) - (i + 1) + 1 : last[j] = s[i + 1 + j - 1]
        BY <2>1, <2>2, SubSeqProperties
    <2>4. QED
        BY <1>1, <2>3
<1>4. /\ RemoveAt(s, i) \in Seq(Transfer)
      /\ Len(RemoveAt(s, i)) = Len(s) - 1
      /\ \A j \in 1 .. Len(s) - 1 : RemoveAt(s, i)[j] = s[At2(j)]
    <2>1. RemoveAt(s, i) = first \o last
        BY DEF RemoveAt
    <2>2. /\ first \o last \in Seq(Transfer)
          /\ Len(first \o last) = Len(first) + Len(last)
          /\ \A j \in 1 .. Len(first) + Len(last) :
                (first \o last)[j] = IF j <= Len(first) THEN first[j] ELSE last[j - Len(first)]
        BY <1>2, <1>3, ConcatProperties
    <2>3. Len(first) + Len(last) = Len(s) - 1
        BY <1>1, <1>2, <1>3
    <2>4. ASSUME NEW j \in 1 .. Len(s) - 1
          PROVE  (first \o last)[j] = s[At2(j)]
        <3>1. CASE j <= i - 1
            BY <1>1, <1>2, <2>2, <2>3, <2>4, <3>1
        <3>2. CASE ~(j <= i - 1)
            <4>1. j - (i - 1) \in 1 .. Len(s) - i
                BY <1>1, <2>4, <3>2
            <4>2. last[j - (i - 1)] = s[i + (j - (i - 1))]
                BY <1>3, <4>1
            <4>3. i + (j - (i - 1)) = j + 1
                BY <1>1, <2>4
            <4>4. QED
                BY <1>2, <2>2, <2>3, <2>4, <3>2, <4>2, <4>3
        <3>3. QED
            BY <3>1, <3>2
    <2>5. QED
        BY <2>1, <2>2, <2>3, <2>4
<1>5. DOMAIN RemoveAt(s, i) = 1 .. Len(s) - 1
    BY <1>4, LenProperties
<1>6. ASSUME NEW j \in 1 .. Len(s) - 1, NEW k \in 1 .. Len(s) - 1,
             RemoveAt(s, i)[j] = RemoveAt(s, i)[k]
      PROVE  j = k
    <2>1. At2(j) \in DOMAIN s /\ At2(k) \in DOMAIN s
        BY <1>1
    <2>2. s[At2(j)] = s[At2(k)]
        BY <1>4, <1>6
    <2>3. At2(j) = At2(k)
        BY <2>1, <2>2 DEF IsBuffer, IsInjective
    <2>4. QED
        BY <1>1, <2>3
<1>7. QED
    BY <1>4, <1>5, <1>6 DEF IsBuffer, IsInjective

------------------------------------------------------------------------------
\* As many chunks as there must be and none of them missing: these are the
\* chunks of the file and no others.
LEMMA CompleteIsWhole ==
    ASSUME NEW t \in Transfer, received[t] \subseteq Index,
           IsComplete(t), MissingChunks(t) = {}
    PROVE  received[t] = Whole
<1>1. Whole \subseteq received[t]
    BY DEF MissingChunks
<1>2. IsFiniteSet(received[t])
    <2>1. IsFiniteSet(Index)
        BY FS_Interval, TransferAssumption DEF Index
    <2>2. QED
        BY <2>1, FS_Subset
<1>3. Cardinality(Whole) = TotalChunks
    BY FS_Interval, TransferAssumption DEF Whole
<1>4. QED
    BY <1>1, <1>2, <1>3, FS_Subset DEF IsComplete

\* What a step of thread u must do for the invariant to stay.
LEMMA StepKeepsInv ==
    ASSUME TransferInv, NEW u \in User, NEW local \in Thread,
           Become(u, local),
           local.at \in Busy => local.transfer \in Transfer,
           local.at = "chunk.add" => local.chunk \in Index,
           local.at \in {"end.row", "end.send"} => file'[Target[local.transfer]] # None,
           local.at = "end.save" => local.bytes = Whole,
           IsBuffer(order') /\ Len(order') <= MaxBuffer,
           received' \in [Transfer -> SUBSET Index],
           row' \in [Transfer -> {None, "PENDING", "COMPLETE"}],
           file' \in [Path -> Transfer \cup {None}],
           \A p \in Path : file[p] # None => file'[p] # None,
           \A t \in Transfer :
              row'[t] = "COMPLETE" => row[t] = "COMPLETE" \/ file[Target[t]] # None
    PROVE  TransferInv'
<1>1. /\ thread' \in [User -> Thread]
      /\ thread'[u] = local
      /\ \A x \in User : x # u => thread'[x] = thread[x]
    BY DEF TransferInv, TypeOK, Become
<1>2. \A t \in Transfer : Target[t] \in Path
    BY TransferAssumption
<1>3. TypeOK'
    BY <1>1 DEF TypeOK, IsBuffer
<1>4. LocalsFit'
    <2>1. ASSUME NEW x \in User, x # u
          PROVE  /\ thread[x].at \in Busy => thread[x].transfer \in Transfer
                 /\ thread[x].at = "chunk.add" => thread[x].chunk \in Index
                 /\ thread[x].at \in {"end.row", "end.send"} =>
                       file'[Target[thread[x].transfer]] # None
        BY <1>2 DEF TransferInv, LocalsFit, At, Busy
    <2>2. QED
        BY <1>1, <2>1 DEF LocalsFit, At
<1>5. BufferBounded'
    BY DEF BufferBounded
<1>6. WrittenIsWhole'
    BY <1>1 DEF TransferInv, WrittenIsWhole, At
<1>7. CompleteIsOnDisk'
    BY <1>2 DEF TransferInv, CompleteIsOnDisk
<1>8. QED
    BY <1>3, <1>4, <1>5, <1>6, <1>7 DEF TransferInv

LEMMA StayedFacts ==
    ASSUME TransferInv
    PROVE  /\ IsBuffer(order) /\ Len(order) <= MaxBuffer
           /\ received \in [Transfer -> SUBSET Index]
           /\ row \in [Transfer -> {None, "PENDING", "COMPLETE"}]
           /\ file \in [Path -> Transfer \cup {None}]
           /\ thread \in [User -> Thread]
           /\ \A t \in Transfer : row[t] = "COMPLETE" => file[Target[t]] # None
BY DEF TransferInv, TypeOK, IsBuffer, BufferBounded, CompleteIsOnDisk

LEMMA FileStartStep ==
    ASSUME TransferInv, NEW u \in User, NEW t \in Transfer, FileStart(u, t)
    PROVE  TransferInv'
<1> DEFINE local == [Rest("start.row") EXCEPT !.transfer = t]
<1>1. local \in Thread /\ local.at = "start.row" /\ local.transfer = t
    BY DEF Rest, Thread, Label
<1>2. IsBuffer(Evicted) /\ Len(Evicted) < MaxBuffer /\ Len(Evicted) \in Nat
    <2>1. QED
        BY EvictedType, StayedFacts, LenProperties DEF IsBuffer
<1>3. IsBuffer(order') /\ Len(order') <= MaxBuffer
    BY <1>2, AppendedType, TransferAssumption DEF FileStart
<1>4. received' \in [Transfer -> SUBSET Index]
    BY StayedFacts DEF FileStart
<1>5. Become(u, local) /\ UNCHANGED <<row, file>>
    BY DEF FileStart
<1>6. QED
    BY <1>1, <1>3, <1>4, <1>5, StayedFacts, StepKeepsInv

LEMMA FileChunkStep ==
    ASSUME TransferInv, NEW u \in User, NEW t \in Transfer, NEW i \in Index, FileChunk(u, t, i)
    PROVE  TransferInv'
<1> DEFINE local == [Rest("chunk.add") EXCEPT !.transfer = t, !.chunk = i]
<1>1. local \in Thread /\ local.at = "chunk.add" /\ local.transfer = t /\ local.chunk = i
    BY DEF Rest, Thread, Label
<1>2. Become(u, local) /\ UNCHANGED <<order, received, row, file>>
    BY DEF FileChunk
<1>3. QED
    BY <1>1, <1>2, StayedFacts, StepKeepsInv

LEMMA FileEndStep ==
    ASSUME TransferInv, NEW u \in User, NEW t \in Transfer, FileEnd(u, t)
    PROVE  TransferInv'
<1> DEFINE local == IF MissingChunks(t) # {} THEN thread[u]
                    ELSE [Rest("end.save") EXCEPT !.transfer = t, !.bytes = received[t]]
<1>1. IsBuffer(order') /\ Len(order') <= MaxBuffer
    <2>1. PICK i \in DOMAIN order : order' = RemoveAt(order, i)
        BY DEF FileEnd
    <2>2. IsBuffer(order') /\ Len(order') = Len(order) - 1
        BY <2>1, RemovedType, StayedFacts
    <2>3. Len(order) \in Nat
        BY StayedFacts, LenProperties DEF IsBuffer
    <2>4. QED
        BY <2>2, <2>3, StayedFacts, TransferAssumption
<1>2. received' \in [Transfer -> SUBSET Index]
    BY StayedFacts DEF FileEnd
<1>3. UNCHANGED <<row, file>> /\ thread[u].at = "idle" /\ thread[u] \in Thread
    BY StayedFacts DEF FileEnd, At
<1>4. CASE MissingChunks(t) # {}
    <2>1. Become(u, thread[u])
        BY <1>4, StayedFacts DEF FileEnd, Become
    <2>2. QED
        BY <1>1, <1>2, <1>3, <2>1, StayedFacts, StepKeepsInv DEF Busy
<1>5. CASE MissingChunks(t) = {}
    <2>1. received[t] = Whole
        BY <1>5, CompleteIsWhole, StayedFacts DEF FileEnd
    <2>2. /\ local \in Thread
          /\ local.at = "end.save" /\ local.transfer = t /\ local.bytes = Whole
        BY <1>5, <2>1, StayedFacts DEF Rest, Thread, Label
    <2>3. Become(u, local)
        BY <1>5 DEF FileEnd
    <2>4. QED
        BY <1>1, <1>2, <1>3, <2>2, <2>3, StayedFacts, StepKeepsInv
<1>6. QED
    BY <1>4, <1>5

\* A handler that comes to rest.
LEMMA RestType ==
    ASSUME NEW label \in {"idle", "gone"}
    PROVE  Rest(label) \in Thread /\ Rest(label).at = label
BY DEF Rest, Thread, Label

LEMMA HandlerStep ==
    ASSUME TransferInv, NEW u \in User, Step(u)
    PROVE  TransferInv'
<1> DEFINE t == thread[u].transfer
<1>1. Rest("idle") \in Thread /\ Rest("idle").at = "idle"
    BY RestType
<1>2. thread[u] \in Thread /\ t \in Transfer /\ Target[t] \in Path
    BY StayedFacts, TransferAssumption
       DEF Step, StartRow, ChunkAdd, EndSave, EndRow, EndSend, TransferInv, LocalsFit,
           At, Busy
<1>3. CASE StartRow(u)
    <2>1. row' \in [Transfer -> {None, "PENDING", "COMPLETE"}]
        BY <1>3, StayedFacts DEF StartRow
    <2>2. \A x \in Transfer : row'[x] = "COMPLETE" => row[x] = "COMPLETE"
        BY <1>2, <1>3, StayedFacts DEF StartRow
    <2>3. Become(u, Rest("idle")) /\ UNCHANGED <<order, received, file>>
        BY <1>3 DEF StartRow
    <2>4. QED
        BY <1>1, <2>1, <2>2, <2>3, StayedFacts, StepKeepsInv DEF Busy
<1>4. CASE ChunkAdd(u)
    <2>1. thread[u].chunk \in Index
        BY <1>4 DEF ChunkAdd, TransferInv, LocalsFit
    <2>2. received' \in [Transfer -> SUBSET Index]
        BY <1>2, <1>4, <2>1, StayedFacts DEF ChunkAdd
    <2>3. Become(u, Rest("idle")) /\ UNCHANGED <<order, row, file>>
        BY <1>4 DEF ChunkAdd
    <2>4. QED
        BY <1>1, <2>2, <2>3, StayedFacts, StepKeepsInv DEF Busy
<1>5. CASE EndSave(u)
    <2> DEFINE local == [thread[u] EXCEPT !.at = "end.row"]
    <2>1. local \in Thread /\ local.at = "end.row" /\ local.transfer = t
        BY <1>2 DEF Thread, Label
    <2>2. /\ file' \in [Path -> Transfer \cup {None}]
          /\ file'[Target[t]] = t
          /\ \A p \in Path : file[p] # None => file'[p] # None
        BY <1>2, <1>5, StayedFacts, TransferAssumption DEF EndSave
    <2>3. t # None
        BY <1>2, TransferAssumption
    <2>4. Become(u, local) /\ UNCHANGED <<order, received, row>>
        BY <1>5 DEF EndSave, Goto, Become
    <2>5. QED
        BY <1>2, <2>1, <2>2, <2>3, <2>4, StayedFacts, StepKeepsInv
<1>6. CASE EndRow(u)
    <2> DEFINE local == [thread[u] EXCEPT !.at = "end.send"]
    <2>1. local \in Thread /\ local.at = "end.send" /\ local.transfer = t
        BY <1>2 DEF Thread, Label
    <2>2. file[Target[t]] # None
        BY <1>6 DEF EndRow, TransferInv, LocalsFit, At
    <2>3. /\ row' \in [Transfer -> {None, "PENDING", "COMPLETE"}]
          /\ \A x \in Transfer :
                row'[x] = "COMPLETE" => row[x] = "COMPLETE" \/ file[Target[x]] # None
        BY <1>2, <1>6, <2>2, StayedFacts DEF EndRow
    <2>4. Become(u, local) /\ UNCHANGED <<order, received, file>>
        BY <1>6 DEF EndRow, Goto, Become
    <2>5. QED
        BY <1>2, <2>1, <2>2, <2>3, <2>4, StayedFacts, StepKeepsInv
<1>7. CASE EndSend(u)
    <2>1. Become(u, Rest("idle")) /\ UNCHANGED <<order, received, row, file>>
        BY <1>7 DEF EndSend
    <2>2. QED
        BY <1>1, <2>1, StayedFacts, StepKeepsInv DEF Busy
<1>8. QED
    BY <1>3, <1>4, <1>5, <1>6, <1>7 DEF Step

\* The invariant of transfers: the buffer is bounded, what is written is whole,
\* and what is recorded as complete has been written.
THEOREM TransferInvariant == Spec => []TransferInv
<1>1. Init => TransferInv
    <2> SUFFICES ASSUME Init PROVE TransferInv
        OBVIOUS
    <2>1. IsBuffer(order) /\ Len(order) = 0
        BY EmptySeq DEF Init, IsBuffer, IsInjective
    <2>2. Rest("gone") \in Thread /\ Rest("gone").at = "gone"
        BY RestType
    <2>3. TypeOK
        BY <2>1, <2>2 DEF Init, TypeOK, IsBuffer
    <2>4. QED
        BY <2>1, <2>2, <2>3, TransferAssumption
           DEF Init, TransferInv, LocalsFit, BufferBounded, WrittenIsWhole,
               CompleteIsOnDisk, At, Busy
<1>2. TransferInv /\ [Next]_vars => TransferInv'
    <2> SUFFICES ASSUME TransferInv, [Next]_vars
                 PROVE  TransferInv'
        OBVIOUS
    <2>1. ASSUME NEW u \in User, Connect(u) \/ Disconnect(u)
          PROVE  TransferInv'
        <3>1. PICK label \in {"idle", "gone"} : Become(u, Rest(label))
            BY <2>1 DEF Connect, Disconnect
        <3>2. UNCHANGED <<order, received, row, file>>
            BY <2>1 DEF Connect, Disconnect
        <3>3. Rest(label) \in Thread /\ Rest(label).at = label
            BY RestType
        <3>4. QED
            BY <3>1, <3>2, <3>3, StayedFacts, StepKeepsInv DEF Busy
    <2>2. CASE Crash
        <3>1. IsBuffer(order') /\ Len(order') = 0
            BY <2>2, EmptySeq DEF Crash, IsBuffer, IsInjective
        <3>2. Rest("gone") \in Thread /\ Rest("gone").at = "gone"
            BY RestType
        <3>3. TypeOK'
            BY <2>2, <3>1, <3>2, StayedFacts DEF Crash, TypeOK, IsBuffer
        <3>4. QED
            BY <2>2, <3>1, <3>2, <3>3, TransferAssumption
               DEF Crash, TransferInv, LocalsFit, BufferBounded, WrittenIsWhole,
                   CompleteIsOnDisk, At, Busy
    <2>3. CASE UNCHANGED vars
        BY <2>3
           DEF vars, TransferInv, TypeOK, LocalsFit, BufferBounded, WrittenIsWhole,
               CompleteIsOnDisk, At, InFlight
    <2>4. QED
        BY <2>1, <2>2, <2>3, FileStartStep, FileChunkStep, FileEndStep, HandlerStep
           DEF Next, Request
<1>3. QED
    BY <1>1, <1>2, PTL DEF Spec

\* BufferBounded for any number of transfers and any MAX_CHUNK_BUFFER.
THEOREM BufferNeverOverflows == Spec => []BufferBounded
<1>1. TransferInv => BufferBounded
    BY DEF TransferInv
<1>2. QED
    BY <1>1, TransferInvariant, PTL

\* WrittenIsWhole for any number of chunks and any indexes clients send.
THEOREM OnlyWholeFiles == Spec => []WrittenIsWhole
<1>1. TransferInv => WrittenIsWhole
    BY DEF TransferInv
<1>2. QED
    BY <1>1, TransferInvariant, PTL

\* CompleteIsOnDisk, across crashes.
THEOREM CompletedAreWritten == Spec => []CompleteIsOnDisk
<1>1. TransferInv => CompleteIsOnDisk
    BY DEF TransferInv
<1>2. QED
    BY <1>1, TransferInvariant, PTL

\* The buffer (chunk_manager.py), the table and the uploads hold values of their kind: a
\* transfer begun again keeps its one place in the buffer.
THEOREM TransferTypes == Spec => []TypeOK
<1>1. TransferInv => TypeOK
    BY DEF TransferInv
<1>2. QED
    BY <1>1, TransferInvariant, PTL

------------------------------------------------------------------------------
(* JitterBuffer: any limit, any order of arrival. *)

\* Each number is held once.
Distinct(frames) == \A i, j \in DOMAIN frames : frames[i] = frames[j] => i = j

\* What is left of a list of distinct frames without one of them.
LEMMA WithoutOne ==
    ASSUME NEW frames \in Seq(Nat), Distinct(frames), NEW i \in DOMAIN frames
    PROVE  /\ Without(frames, i) \in Seq(Nat)
           /\ Len(Without(frames, i)) = Len(frames) - 1
           /\ Distinct(Without(frames, i))
<1>. DEFINE rest == Without(frames, i)
<1>1. i \in 1 .. Len(frames) /\ Len(frames) \in Nat
  OBVIOUS
<1>2. DOMAIN rest = 1 .. Len(frames) - 1
  BY DEF Without
<1>3. \A j \in 1 .. Len(frames) - 1 :
        rest[j] = (IF j < i THEN frames[j] ELSE frames[j + 1]) /\ rest[j] \in Nat
  BY <1>1 DEF Without
<1>4. rest \in [1 .. Len(frames) - 1 -> Nat]
  BY <1>1 DEF Without
<1>. HIDE DEF rest
<1>5. rest \in Seq(Nat) /\ Len(rest) = Len(frames) - 1
  <2>1. ASSUME NEW n \in Nat, rest \in [1 .. n -> Nat] PROVE rest \in Seq(Nat) /\ Len(rest) = n
    BY <2>1
  <2>2. Len(frames) - 1 \in Nat
    BY <1>1
  <2>. QED BY <1>4, <2>1, <2>2
<1>6. ASSUME NEW j \in DOMAIN rest, NEW k \in DOMAIN rest, rest[j] = rest[k]
      PROVE  j = k
  <2>1. ASSUME NEW m \in DOMAIN rest
        PROVE  \E p \in DOMAIN frames : rest[m] = frames[p] /\ p = IF m < i THEN m ELSE m + 1
    <3>1. DOMAIN frames = 1 .. Len(frames) /\ m \in 1 .. Len(frames) - 1
      BY <1>2
    <3>2. CASE m < i
      BY <1>1, <1>3, <3>1, <3>2
    <3>3. CASE ~(m < i)
      <4>1. m + 1 \in 1 .. Len(frames)
        BY <1>1, <3>1
      <4>. QED BY <1>3, <3>1, <3>3, <4>1
    <3>. QED BY <3>2, <3>3
  <2>2. PICK p \in DOMAIN frames : rest[j] = frames[p] /\ p = IF j < i THEN j ELSE j + 1
    BY <2>1
  <2>3. PICK q \in DOMAIN frames : rest[k] = frames[q] /\ q = IF k < i THEN k ELSE k + 1
    BY <2>1
  <2>4. p = q
    BY <1>6, <2>2, <2>3 DEF Distinct
  <2>5. j \in Nat /\ k \in Nat /\ i \in Nat
    BY <1>1, <1>2
  <2>. QED BY <2>2, <2>3, <2>4, <2>5
<1>7. Distinct(rest)
  BY <1>6 DEF Distinct
<1>. QED BY <1>5, <1>7 DEF rest

\* A new frame at the end, and the first one gone if there are too many.
LEMMA KeptFrames ==
    ASSUME JitterAssumption,
           NEW frames \in Seq(Nat), Distinct(frames), Len(frames) <= MaxFrames,
           NEW n \in Nat, \A i \in DOMAIN frames : frames[i] # n
    PROVE  /\ Kept(Append(frames, n)) \in Seq(Nat)
           /\ Len(Kept(Append(frames, n))) <= MaxFrames
           /\ Distinct(Kept(Append(frames, n)))
<1>. DEFINE more == Append(frames, n)
<1>1. /\ more \in Seq(Nat) /\ Len(more) = Len(frames) + 1 /\ Len(frames) \in Nat
      /\ \A i \in 1 .. Len(frames) : more[i] = frames[i]
      /\ more[Len(frames) + 1] = n
  OBVIOUS
<1>2. Distinct(more)
  <2>1. DOMAIN more = 1 .. Len(frames) + 1 /\ DOMAIN frames = 1 .. Len(frames)
    BY <1>1
  <2>2. ASSUME NEW j \in DOMAIN more, NEW k \in DOMAIN more, more[j] = more[k]
        PROVE  j = k
    <3>1. CASE j \in DOMAIN frames /\ k \in DOMAIN frames
      BY <1>1, <2>1, <2>2, <3>1 DEF Distinct
    <3>2. CASE j \notin DOMAIN frames \/ k \notin DOMAIN frames
      BY <1>1, <2>1, <2>2, <3>2
    <3>. QED BY <3>1, <3>2
  <2>. QED BY <2>2 DEF Distinct
<1>3. CASE Len(more) > MaxFrames
  <2>1. /\ Tail(more) \in Seq(Nat) /\ Len(Tail(more)) = Len(more) - 1
        /\ \A i \in 1 .. Len(more) - 1 : Tail(more)[i] = more[i + 1]
    BY <1>1
  <2>2. Distinct(Tail(more))
    <3>1. ASSUME NEW j \in DOMAIN Tail(more), NEW k \in DOMAIN Tail(more),
                 Tail(more)[j] = Tail(more)[k]
          PROVE  j = k
      <4>1. /\ j \in 1 .. Len(more) - 1 /\ k \in 1 .. Len(more) - 1
            /\ j + 1 \in DOMAIN more /\ k + 1 \in DOMAIN more
        <5>1. DOMAIN Tail(more) = 1 .. Len(Tail(more)) /\ DOMAIN more = 1 .. Len(more)
          BY <1>1, <2>1
        <5>2. Len(Tail(more)) = Len(frames) /\ Len(more) = Len(frames) + 1 /\ Len(frames) \in Nat
          BY <1>1, <2>1
        <5>3. j \in 1 .. Len(frames) /\ k \in 1 .. Len(frames)
          BY <5>1, <5>2
        <5>. HIDE DEF more
        <5>. QED BY <5>1, <5>2, <5>3
      <4>2. more[j + 1] = more[k + 1]
        BY <2>1, <3>1, <4>1
      <4>3. j + 1 = k + 1
        BY <1>2, <4>1, <4>2 DEF Distinct
      <4>. QED BY <4>1, <4>3
    <3>. QED BY <3>1 DEF Distinct
  <2>. QED BY <1>1, <1>3, <2>1, <2>2 DEF Kept, JitterAssumption
<1>4. CASE ~(Len(more) > MaxFrames)
  BY <1>1, <1>2, <1>4 DEF Kept, JitterAssumption
<1>. QED BY <1>3, <1>4

\* The inductive invariant, with numbers of any size.
JitterInv ==
    /\ buffer \in Seq(Nat) /\ next \in Nat /\ started \in BOOLEAN /\ played \in Seq(Nat)
    /\ Len(buffer) <= MaxFrames /\ Distinct(buffer)
    /\ \A i \in DOMAIN played : played[i] + Len(played) = next + (i - 1)

LEMMA EmptyFrames ==
    JitterAssumption => /\ <<>> \in Seq(Nat) /\ Len(<<>>) <= MaxFrames /\ Distinct(<<>>)
                        /\ \A i \in DOMAIN <<>> : FALSE
<1>1. <<>> \in Seq(Nat) /\ Len(<<>>) = 0
  OBVIOUS
<1>2. \A i \in DOMAIN <<>> : FALSE
  OBVIOUS
<1>. QED BY <1>1, <1>2 DEF Distinct, JitterAssumption

LEMMA JitterInitInv == JitterInit /\ JitterAssumption => JitterInv
<1>. SUFFICES ASSUME JitterInit, JitterAssumption PROVE JitterInv
  OBVIOUS
<1>1. buffer = <<>> /\ played = <<>> /\ next \in Nat
  BY DEF JitterInit
<1>2. started \in BOOLEAN
  BY DEF JitterInit
<1>3. \A i \in DOMAIN played : played[i] + Len(played) = next + (i - 1)
  BY <1>1, EmptyFrames
<1>. QED BY <1>1, <1>2, <1>3, EmptyFrames DEF JitterInv

LEMMA AddFrameInv ==
    ASSUME JitterInv, JitterAssumption, NEW n \in Nat, AddFrame(n)
    PROVE  JitterInv'
<1>1. next' \in Nat /\ started' \in BOOLEAN /\ played' \in Seq(Nat)
  BY DEF JitterInv, AddFrame
<1>2. \A i \in DOMAIN played' : played'[i] + Len(played') = next' + (i - 1)
  BY DEF JitterInv, AddFrame
<1>3. buffer' \in Seq(Nat) /\ Len(buffer') <= MaxFrames /\ Distinct(buffer')
  <2>1. CASE n \in Held
    BY <2>1 DEF JitterInv, AddFrame
  <2>2. CASE n \notin Held
    <3>1. \A i \in DOMAIN buffer : buffer[i] # n
      BY <2>2 DEF Held
    <3>. QED BY <2>2, <3>1, KeptFrames DEF JitterInv, AddFrame
  <2>. QED BY <2>1, <2>2
<1>. QED BY <1>1, <1>2, <1>3 DEF JitterInv

LEMMA GetFrameInv ==
    ASSUME JitterInv, JitterAssumption, GetFrame
    PROVE  JitterInv'
<1>1. PICK i \in DOMAIN buffer :
        /\ buffer[i] = next
        /\ buffer' = Without(buffer, i)
        /\ next' = next + 1 /\ played' = Append(played, next)
        /\ UNCHANGED started
  BY DEF GetFrame
<1>2. buffer' \in Seq(Nat) /\ Len(buffer') <= MaxFrames /\ Distinct(buffer')
  BY <1>1, WithoutOne DEF JitterInv, JitterAssumption
<1>3. next' \in Nat /\ started' \in BOOLEAN /\ played' \in Seq(Nat)
  BY <1>1 DEF JitterInv
<1>4. \A j \in DOMAIN played' : played'[j] + Len(played') = next' + (j - 1)
  <2>1. /\ Len(played') = Len(played) + 1 /\ DOMAIN played' = 1 .. Len(played) + 1
        /\ Len(played) \in Nat /\ DOMAIN played = 1 .. Len(played)
        /\ played'[Len(played) + 1] = next
        /\ \A j \in 1 .. Len(played) : played'[j] = played[j] /\ played[j] \in Nat
    <3>1. played \in Seq(Nat) /\ next \in Nat /\ played' = Append(played, next)
      BY <1>1 DEF JitterInv
    <3>. QED BY <3>1
  <2>2. \A j \in 1 .. Len(played) : played[j] + Len(played) = next + (j - 1)
    BY <2>1 DEF JitterInv
  <2>3. ASSUME NEW j \in 1 .. Len(played) + 1
        PROVE  played'[j] + Len(played') = next' + (j - 1)
    <3>1. CASE j \in 1 .. Len(played)
      <4>1. played[j] + Len(played) = next + (j - 1) /\ played[j] \in Nat /\ next \in Nat
        BY <2>1, <2>2, <3>1 DEF JitterInv
      <4>2. played'[j] = played[j] /\ Len(played') = Len(played) + 1 /\ next' = next + 1
        BY <1>1, <2>1, <3>1
      <4>. QED BY <2>1, <3>1, <4>1, <4>2
    <3>2. CASE j = Len(played) + 1
      BY <1>1, <2>1, <3>2 DEF JitterInv
    <3>. QED BY <2>1, <2>3, <3>1, <3>2
  <2>. QED BY <2>1, <2>3
<1>. QED BY <1>2, <1>3, <1>4 DEF JitterInv

LEMMA FlushInv ==
    ASSUME JitterInv, JitterAssumption, Flush
    PROVE  JitterInv'
  BY EmptyFrames DEF JitterInv, Flush

LEMMA JitterStepInv ==
    ASSUME JitterInv, JitterAssumption, [JitterNext]_jitterVars
    PROVE  JitterInv'
<1>1. CASE \E n \in Sequence : AddFrame(n)
  BY <1>1, AddFrameInv DEF Sequence, JitterAssumption
<1>2. CASE GetFrame
  BY <1>2, GetFrameInv
<1>3. CASE Flush
  BY <1>3, FlushInv
<1>4. CASE UNCHANGED jitterVars
  BY <1>4 DEF JitterInv, Distinct, jitterVars
<1>. QED BY <1>1, <1>2, <1>3, <1>4 DEF JitterNext

\* JitterInv holds of the buffer (jitter_buffer.py), whoever calls its methods.
THEOREM JitterInvariant == JitterSpec => []JitterInv
  BY JitterAssumption, JitterInitInv, JitterStepInv, PTL DEF JitterSpec

\* However frames come in, the buffer holds at most max_frames, each once
\* (jitter_buffer.py:25).
THEOREM WithinMaxFramesAlways == JitterSpec => []WithinMaxFrames
<1>1. JitterInv => WithinMaxFrames
  BY DEF JitterInv, WithinMaxFrames, Distinct
<1>. QED BY <1>1, JitterInvariant, PTL

\* What get_frame returns is in order, without gaps and without repetitions, for every
\* order, loss and doubling of what comes in (jitter_buffer.py:35).
THEOREM PlayedInOrderAlways == JitterSpec => []PlayedInOrder
<1>1. JitterInv => PlayedInOrder
  BY DEF JitterInv, PlayedInOrder
<1>. QED BY <1>1, JitterInvariant, PTL

------------------------------------------------------------------------------
(* VoiceStream: the inductive invariant. *)

\* Frame f, said by u, on its way to room: to the room it was said in, or it was in the
\* hands of a capture thread as u left.
Carried(f, u, room) ==
    /\ ~f.muted /\ f.by = u
    /\ room = Absent \/ f.said = room \/ f.id \in overtaken

\* A controller's client is its user's; it is in a room until leave().
ControllersFit ==
    \A u \in Talker :
        /\ HasClient(u) => controller[u].client \in DOMAIN clients /\ clients[controller[u].client].user = u
        /\ HasClient(u) /\ ~controller[u].leaving => clients[controller[u].client].room \in VoiceRoom
        /\ controller[u].leaving => HasClient(u) /\ clients[controller[u].client].room = Absent

\* The frames that a client's threads hold.
ContentsFit(c) ==
    /\ c.captured # Absent =>
          /\ ~c.captured.muted /\ c.captured.by = c.user
          /\ c.captured.said = c.room \/ c.captured.id \in overtaken
    /\ c.hand # Absent => Carried(c.hand, c.user, c.room)
    /\ \A i \in DOMAIN c.queue : Carried(c.queue[i], c.user, c.room)

\* A client that is in a room is the one its user's controller has.
ClientsFit ==
    \A k \in DOMAIN clients :
        /\ clients[k].recording => clients[k].room # Absent
        /\ clients[k].room # Absent => controller[clients[k].user].client = k
        /\ ContentsFit(clients[k])

\* A datagram, and one from the server to a client: never to who said it.
DatagramFits(d) == Carried(d.frame, d.sender, d.room)
Relayed(d) == d.room # Absent /\ d.to \in DOMAIN clients /\ clients[d.to].user # d.sender

NetFits == \A d \in net : DatagramFits(d) /\ (d.to # Server => Relayed(d))

RelayFits ==
    relay.todo # {} =>
        /\ relay.packet \in Datagram /\ DatagramFits(relay.packet)
        /\ relay.packet.room # Absent /\ relay.packet.sender \notin relay.todo

ParticipantsFit ==
    \A u \in Talker : participant[u] # Absent =>
        participant[u].port \in DOMAIN clients /\ clients[participant[u].port].user = u

StreamInv ==
    /\ StreamTypeOK /\ JitterInv
    /\ ControllersFit /\ ClientsFit /\ NetFits /\ RelayFits /\ ParticipantsFit
    /\ HeardWhereSaid

------------------------------------------------------------------------------
(* What stays as it is when a step leaves it alone. *)

\* No client is forgotten, nor given to another user, and what was overtaken stays so.
Grown ==
    /\ overtaken \subseteq overtaken' /\ DOMAIN clients \subseteq DOMAIN clients'
    /\ \A k \in DOMAIN clients : clients'[k].user = clients[k].user

\* A client's frames in the state after.
LEMMA ContentsStay ==
    ASSUME overtaken \subseteq overtaken', NEW c, ContentsFit(c)
    PROVE  ContentsFit(c)'
  BY DEF ContentsFit, Carried

LEMMA NetStays == StreamInv /\ Grown /\ net' \subseteq net => NetFits'
<1>. SUFFICES ASSUME StreamInv, Grown, net' \subseteq net, NEW d \in net'
              PROVE  DatagramFits(d)' /\ (d.to # Server => Relayed(d)')
  BY DEF NetFits
<1>1. d \in net /\ DatagramFits(d) /\ (d.to # Server => Relayed(d))
  BY DEF StreamInv, NetFits
<1>2. DatagramFits(d)'
  BY <1>1 DEF DatagramFits, Carried, Grown
<1>3. d.to # Server => Relayed(d)'
  BY <1>1 DEF Relayed, Grown
<1>. QED BY <1>2, <1>3

LEMMA RelayStays == StreamInv /\ Grown /\ relay' = relay => RelayFits'
<1>. SUFFICES ASSUME StreamInv, Grown, relay' = relay
              PROVE  RelayFits'
  OBVIOUS
<1>1. DatagramFits(relay.packet) => DatagramFits(relay.packet)'
  BY DEF DatagramFits, Carried, Grown
<1>. QED BY <1>1 DEF StreamInv, RelayFits

LEMMA ParticipantsStay == StreamInv /\ Grown /\ participant' = participant => ParticipantsFit'
<1>. SUFFICES ASSUME StreamInv, Grown, participant' = participant,
                     NEW u \in Talker, participant'[u] # Absent
              PROVE  participant'[u].port \in DOMAIN clients' /\ clients'[participant'[u].port].user = u
  BY DEF ParticipantsFit
<1>. QED BY DEF StreamInv, ParticipantsFit, Grown

LEMMA HeardStays == StreamInv /\ Grown /\ heard' = heard => HeardWhereSaid'
  BY DEF StreamInv, HeardWhereSaid, Grown

\* A step that leaves the people alone.
LEMMA PeopleStay ==
    StreamInv /\ UNCHANGED <<controller, clients, overtaken>> => Grown /\ ControllersFit' /\ ClientsFit'
<1>. SUFFICES ASSUME StreamInv, controller' = controller, clients' = clients, overtaken' = overtaken
              PROVE  Grown /\ ControllersFit' /\ ClientsFit'
  OBVIOUS
<1>1. Grown
  BY DEF Grown
<1>2. ControllersFit'
  BY DEF StreamInv, ControllersFit, HasClient
<1>3. \A k \in DOMAIN clients : ContentsFit(clients[k]) => ContentsFit(clients[k])'
  BY ContentsStay
<1>4. ClientsFit'
  BY <1>3 DEF StreamInv, ClientsFit
<1>. QED BY <1>1, <1>2, <1>4

LEMMA JitterStays == StreamInv /\ UNCHANGED jitterVars => JitterInv'
  BY DEF StreamInv, JitterInv, Distinct, jitterVars

\* Another client in the place of the k-th.
LEMMA ClientChanged ==
    ASSUME NEW s \in Seq(VoiceClient), NEW k \in DOMAIN s, NEW c \in VoiceClient,
           NEW t, t = [s EXCEPT ![k] = c]
    PROVE  /\ t \in Seq(VoiceClient) /\ Len(t) = Len(s) /\ DOMAIN t = DOMAIN s
           /\ t[k] = c
           /\ \A j \in DOMAIN s : j # k => t[j] = s[j]
  OBVIOUS

\* The threads of the clients move frames; nobody joins, leaves or is relabelled.
LEMMA FramesMoved ==
    ASSUME StreamInv, controller' = controller, overtaken' = overtaken,
           NEW after, clients' = after, DOMAIN after = DOMAIN clients,
           \A j \in DOMAIN clients :
              /\ after[j].user = clients[j].user /\ after[j].room = clients[j].room
              /\ after[j].recording = clients[j].recording
              /\ ContentsFit(after[j])
    PROVE  Grown /\ ControllersFit' /\ ClientsFit'
<1>1. Grown
  BY DEF Grown
<1>2. ControllersFit'
  <2>1. ASSUME NEW u \in Talker, HasClient(u)
        PROVE  /\ controller[u].client \in DOMAIN clients
               /\ after[controller[u].client].user = clients[controller[u].client].user
               /\ after[controller[u].client].room = clients[controller[u].client].room
    BY <2>1 DEF StreamInv, ControllersFit
  <2>. QED BY <2>1 DEF StreamInv, ControllersFit, HasClient
<1>3. \A k \in DOMAIN clients : ContentsFit(after[k])'
  BY ContentsStay
<1>4. ClientsFit'
  BY <1>3 DEF StreamInv, ClientsFit
<1>. QED BY <1>1, <1>2, <1>4

------------------------------------------------------------------------------
(* UDPVoiceController *)

LEMMA JoinInv ==
    ASSUME StreamAssumption, StreamInv, NEW u \in Talker, NEW room \in VoiceRoom, Join(u, room)
    PROVE  StreamInv'
<1>. DEFINE new == [user |-> u, room |-> room, running |-> TRUE, recording |-> TRUE, sequence |-> 0,
                    captured |-> Absent, queue |-> <<>>, hand |-> Absent]
            k == Len(clients) + 1
<1>1. /\ controller \in [Talker -> [client : ClientId \cup {Absent}, muted : BOOLEAN, leaving : BOOLEAN]]
      /\ clients \in Seq(VoiceClient) /\ Len(clients) < MaxClients /\ Len(clients) \in Nat
      /\ DOMAIN clients = 1 .. Len(clients)
  BY DEF StreamInv, StreamTypeOK, Join
<1>2. new \in VoiceClient
  BY DEF VoiceClient
<1>3. /\ clients' = Append(clients, new)
      /\ controller' = [controller EXCEPT ![u] = [client |-> k, muted |-> FALSE, leaving |-> FALSE]]
      /\ UNCHANGED <<participant, relay, net, said, overtaken, heard, faults, disturbed, jitterVars>>
      /\ ~HasClient(u)
  BY DEF Join
<1>4. k \in ClientId /\ k \notin DOMAIN clients /\ k # Absent
  BY <1>1 DEF ClientId, StreamAssumption
<1>. HIDE DEF new
<1>5. /\ clients' \in Seq(VoiceClient) /\ Len(clients') = k /\ DOMAIN clients' = DOMAIN clients \cup {k}
      /\ clients'[k] = new /\ \A j \in DOMAIN clients : clients'[j] = clients[j]
  BY <1>1, <1>2, <1>3
<1>. HIDE DEF k
<1>6. Grown
  BY <1>3, <1>5 DEF Grown
<1>7. /\ controller' \in [Talker -> [client : ClientId \cup {Absent}, muted : BOOLEAN, leaving : BOOLEAN]]
      /\ controller'[u].client = k /\ ~controller'[u].leaving
      /\ \A v \in Talker : v # u => controller'[v] = controller[v]
  BY <1>1, <1>3, <1>4
<1>8. StreamTypeOK'
  <2>1. Len(clients') <= MaxClients
    BY <1>1, <1>5 DEF k, StreamAssumption
  <2>. QED BY <1>3, <1>5, <1>7, <2>1 DEF StreamInv, StreamTypeOK
<1>9. new.user = u /\ new.room = room /\ room # Absent
  BY DEF new, StreamAssumption
<1>10. ControllersFit'
  <2>1. ASSUME NEW v \in Talker, v # u
        PROVE  /\ HasClient(v)' => controller'[v].client \in DOMAIN clients' /\ clients'[controller'[v].client].user = v
               /\ HasClient(v)' /\ ~controller'[v].leaving => clients'[controller'[v].client].room \in VoiceRoom
               /\ controller'[v].leaving => HasClient(v)' /\ clients'[controller'[v].client].room = Absent
    BY <1>5, <1>7, <2>1 DEF StreamInv, ControllersFit, HasClient
  <2>. QED BY <1>4, <1>5, <1>7, <1>9, <2>1 DEF ControllersFit, HasClient
<1>11. ClientsFit'
  <2>1. ASSUME NEW j \in DOMAIN clients
        PROVE  /\ clients'[j].recording => clients'[j].room # Absent
               /\ clients'[j].room # Absent => controller'[clients'[j].user].client = j
               /\ ContentsFit(clients[j])'
    <3>1. /\ clients[j].recording => clients[j].room # Absent
          /\ clients[j].room # Absent => controller[clients[j].user].client = j
          /\ ContentsFit(clients[j])
      BY DEF StreamInv, ClientsFit
    <3>2. clients[j].user \in Talker /\ j # Absent
      <4>1. clients[j] \in VoiceClient /\ j \in ClientId
        BY <1>1 DEF ClientId, StreamAssumption
      <4>. QED BY <4>1 DEF VoiceClient, ClientId, StreamAssumption
    <3>3. ContentsFit(clients[j])'
      BY <1>3, <1>5, <3>1 DEF ContentsFit, Carried
    <3>4. clients[j].room # Absent => clients[j].user # u
      BY <1>3, <3>1, <3>2 DEF HasClient
    <3>. QED BY <1>5, <1>7, <3>1, <3>2, <3>3, <3>4
  <2>2. ContentsFit(new)'
    BY DEF new, ContentsFit
  <2>. QED BY <1>5, <1>7, <1>9, <2>1, <2>2 DEF ClientsFit
<1>. QED
  BY <1>3, <1>6, <1>8, <1>10, <1>11, NetStays, RelayStays, ParticipantsStay, HeardStays, JitterStays
     DEF StreamInv

LEMMA ClientLeft ==
    ASSUME NEW d \in VoiceClient
    PROVE  \E c \in VoiceClient :
              /\ c = [d EXCEPT !.recording = FALSE, !.room = Absent]
              /\ c.user = d.user /\ c.room = Absent /\ ~c.recording
              /\ c.captured = d.captured /\ c.queue = d.queue /\ c.hand = d.hand
<1>. DEFINE c == [d EXCEPT !.recording = FALSE, !.room = Absent]
<1>1. c \in VoiceClient
  BY DEF VoiceClient
<1>2. /\ c.user = d.user /\ c.room = Absent /\ ~c.recording
      /\ c.captured = d.captured /\ c.queue = d.queue /\ c.hand = d.hand
  BY DEF VoiceClient
<1>. QED BY <1>1, <1>2

LEMMA LeaveRoomInv ==
    ASSUME StreamAssumption, StreamInv, NEW u \in Talker, LeaveRoom(u)
    PROVE  StreamInv'
<1>. DEFINE k == controller[u].client
<1>1. /\ controller \in [Talker -> [client : ClientId \cup {Absent}, muted : BOOLEAN, leaving : BOOLEAN]]
      /\ clients \in Seq(VoiceClient) /\ Len(clients) <= MaxClients
      /\ k \in DOMAIN clients /\ clients[k].user = u /\ clients[k] \in VoiceClient
  BY DEF StreamInv, StreamTypeOK, ControllersFit, LeaveRoom
<1>2. /\ clients' = [clients EXCEPT ![k].recording = FALSE, ![k].room = Absent]
      /\ controller' = [controller EXCEPT ![u].leaving = TRUE]
      /\ overtaken' = (IF clients[k].captured = Absent THEN overtaken
                       ELSE overtaken \cup {clients[k].captured.id})
      /\ disturbed' = TRUE
      /\ UNCHANGED <<participant, relay, net, said, heard, faults, jitterVars>>
      /\ HasClient(u)
  BY DEF LeaveRoom
<1>. HIDE DEF k
<1>3. PICK c \in VoiceClient :
        /\ c = [clients[k] EXCEPT !.recording = FALSE, !.room = Absent]
        /\ c.user = u /\ c.room = Absent /\ ~c.recording
        /\ c.captured = clients[k].captured /\ c.queue = clients[k].queue /\ c.hand = clients[k].hand
  BY <1>1, ClientLeft
<1>4. clients' = [clients EXCEPT ![k] = c]
  BY <1>1, <1>2, <1>3
<1>5. /\ clients' \in Seq(VoiceClient) /\ Len(clients') = Len(clients) /\ DOMAIN clients' = DOMAIN clients
      /\ clients'[k] = c /\ \A j \in DOMAIN clients : j # k => clients'[j] = clients[j]
  BY <1>1, <1>3, <1>4, ClientChanged
<1>6. /\ controller' \in [Talker -> [client : ClientId \cup {Absent}, muted : BOOLEAN, leaving : BOOLEAN]]
      /\ controller'[u].client = k /\ controller'[u].leaving
      /\ \A v \in Talker : v # u => controller'[v] = controller[v]
  BY <1>1, <1>2 DEF k
<1>7. overtaken \subseteq overtaken' /\ overtaken' \subseteq 1 .. MaxSaid
  <2>1. clients[k].captured # Absent => clients[k].captured.id \in 1 .. MaxSaid
    BY <1>1 DEF VoiceClient, Frame
  <2>. QED BY <1>2, <2>1 DEF StreamInv, StreamTypeOK
<1>8. Grown
  BY <1>1, <1>3, <1>5, <1>7 DEF Grown
<1>9. StreamTypeOK'
  BY <1>1, <1>2, <1>5, <1>6, <1>7 DEF StreamInv, StreamTypeOK
<1>10. ControllersFit'
  <2>1. ASSUME NEW v \in Talker, v # u
        PROVE  /\ HasClient(v)' => controller'[v].client \in DOMAIN clients' /\ clients'[controller'[v].client].user = v
               /\ HasClient(v)' /\ ~controller'[v].leaving => clients'[controller'[v].client].room \in VoiceRoom
               /\ controller'[v].leaving => HasClient(v)' /\ clients'[controller'[v].client].room = Absent
    BY <1>1, <1>5, <1>6, <2>1 DEF StreamInv, ControllersFit, HasClient
  <2>2. HasClient(u)'
    BY <1>2, <1>6 DEF HasClient, k
  <2>. QED BY <1>1, <1>3, <1>5, <1>6, <2>1, <2>2 DEF ControllersFit
<1>11. ClientsFit'
  <2>1. ASSUME NEW j \in DOMAIN clients, j # k
        PROVE  /\ clients[j].recording => clients[j].room # Absent
               /\ clients[j].room # Absent => controller'[clients[j].user].client = j
               /\ ContentsFit(clients[j])'
    <3>1. /\ clients[j].recording => clients[j].room # Absent
          /\ clients[j].room # Absent => controller[clients[j].user].client = j
          /\ ContentsFit(clients[j])
      BY DEF StreamInv, ClientsFit
    <3>2. clients[j].user \in Talker
      <4>1. clients[j] \in VoiceClient
        BY <1>1
      <4>. QED BY <4>1 DEF VoiceClient
    <3>3. ContentsFit(clients[j])'
      BY <1>5, <1>7, <2>1, <3>1 DEF ContentsFit, Carried
    <3>4. clients[j].room # Absent => clients[j].user # u
      BY <2>1, <3>1 DEF k
    <3>. QED BY <1>6, <3>1, <3>2, <3>3, <3>4
  <2>2. ContentsFit(c)'
    <3>1. ContentsFit(clients[k])
      BY <1>1 DEF StreamInv, ClientsFit
    <3>2. c.captured # Absent => /\ ~c.captured.muted /\ c.captured.by = c.user
                                 /\ c.captured.id \in overtaken'
      BY <1>1, <1>2, <1>3, <3>1 DEF ContentsFit
    <3>3. c.hand # Absent => ~c.hand.muted /\ c.hand.by = c.user
      BY <1>1, <1>3, <3>1 DEF ContentsFit, Carried
    <3>4. \A i \in DOMAIN c.queue : ~c.queue[i].muted /\ c.queue[i].by = c.user
      BY <1>1, <1>3, <3>1 DEF ContentsFit, Carried
    <3>5. c.room = Absent
      BY <1>3
    <3>. QED BY <1>5, <3>2, <3>3, <3>4, <3>5 DEF ContentsFit, Carried
  <2>. QED BY <1>3, <1>5, <2>1, <2>2 DEF ClientsFit
<1>. QED
  BY <1>2, <1>8, <1>9, <1>10, <1>11, NetStays, RelayStays, ParticipantsStay, HeardStays, JitterStays
     DEF StreamInv

LEMMA LeaveInv ==
    ASSUME StreamAssumption, JitterAssumption, StreamInv, NEW u \in Talker, Leave(u)
    PROVE  StreamInv'
<1>. DEFINE k == controller[u].client
<1>1. /\ controller \in [Talker -> [client : ClientId \cup {Absent}, muted : BOOLEAN, leaving : BOOLEAN]]
      /\ clients \in Seq(VoiceClient) /\ Len(clients) <= MaxClients
      /\ k \in DOMAIN clients /\ clients[k].user = u /\ clients[k].room = Absent
      /\ clients[k] \in VoiceClient
  BY DEF StreamInv, StreamTypeOK, ControllersFit, Leave
<1>2. /\ clients' = [clients EXCEPT ![k].running = FALSE]
      /\ controller' = [controller EXCEPT ![u] = [client |-> Absent, muted |-> FALSE, leaving |-> FALSE]]
      /\ UNCHANGED <<participant, relay, net, said, overtaken, heard, faults, disturbed>>
      /\ Flush \/ UNCHANGED jitterVars
  BY DEF Leave
<1>3. \A v \in Talker : v # u => /\ controller'[v] = controller[v]
                                 /\ HasClient(v) => controller[v].client # k
  BY <1>1, <1>2 DEF StreamInv, ControllersFit
<1>4. \A j \in DOMAIN clients : clients[j].room # Absent => j # k /\ controller[clients[j].user].client = j
  BY <1>1 DEF StreamInv, ClientsFit
<1>5. \A j \in DOMAIN clients : clients[j].room # Absent => clients[j].user # u
  BY <1>4
<1>. HIDE DEF k
<1>6. PICK c \in VoiceClient :
        /\ c = [clients[k] EXCEPT !.running = FALSE]
        /\ c.user = u /\ c.room = clients[k].room /\ c.recording = clients[k].recording
        /\ c.captured = clients[k].captured /\ c.queue = clients[k].queue /\ c.hand = clients[k].hand
  <2>1. [clients[k] EXCEPT !.running = FALSE] \in VoiceClient
    BY <1>1 DEF VoiceClient
  <2>2. ASSUME NEW c, c = [clients[k] EXCEPT !.running = FALSE]
        PROVE  /\ c.user = u /\ c.room = clients[k].room /\ c.recording = clients[k].recording
               /\ c.captured = clients[k].captured /\ c.queue = clients[k].queue /\ c.hand = clients[k].hand
    BY <1>1, <2>2 DEF VoiceClient
  <2>. QED BY <2>1, <2>2
<1>7. clients' = [clients EXCEPT ![k] = c]
  BY <1>1, <1>2, <1>6
<1>8. /\ clients' \in Seq(VoiceClient) /\ Len(clients') = Len(clients) /\ DOMAIN clients' = DOMAIN clients
      /\ clients'[k] = c /\ \A j \in DOMAIN clients : j # k => clients'[j] = clients[j]
  BY <1>1, <1>6, <1>7, ClientChanged
<1>9. /\ controller' \in [Talker -> [client : ClientId \cup {Absent}, muted : BOOLEAN, leaving : BOOLEAN]]
      /\ controller'[u].client = Absent /\ ~controller'[u].leaving
  BY <1>1, <1>2
<1>10. Grown
  BY <1>1, <1>2, <1>6, <1>8 DEF Grown
<1>11. StreamTypeOK'
  BY <1>1, <1>2, <1>8, <1>9 DEF StreamInv, StreamTypeOK
<1>12. ControllersFit'
  <2>1. ASSUME NEW v \in Talker, v # u
        PROVE  /\ HasClient(v)' => controller'[v].client \in DOMAIN clients' /\ clients'[controller'[v].client].user = v
               /\ HasClient(v)' /\ ~controller'[v].leaving => clients'[controller'[v].client].room \in VoiceRoom
               /\ controller'[v].leaving => HasClient(v)' /\ clients'[controller'[v].client].room = Absent
    BY <1>3, <1>8, <2>1 DEF StreamInv, ControllersFit, HasClient
  <2>2. ~HasClient(u)'
    BY <1>9 DEF HasClient
  <2>. QED BY <1>9, <2>1, <2>2 DEF ControllersFit
<1>13. ClientsFit'
  <2>1. ASSUME NEW j \in DOMAIN clients
        PROVE  /\ clients'[j].recording => clients'[j].room # Absent
               /\ clients'[j].room # Absent => controller'[clients'[j].user].client = j
               /\ ContentsFit(clients'[j])
    <3>1. /\ clients[j].recording => clients[j].room # Absent
          /\ ContentsFit(clients[j])
      BY DEF StreamInv, ClientsFit
    <3>2. clients[j].room # Absent => controller'[clients[j].user].client = j
      <4>1. clients[j].user \in Talker
        <5>1. clients[j] \in VoiceClient
          BY <1>1
        <5>. QED BY <5>1 DEF VoiceClient
      <4>. QED BY <1>3, <1>4, <1>5, <4>1
    <3>3. CASE j # k
      BY <1>8, <3>1, <3>2, <3>3
    <3>4. CASE j = k
      <4>1. ContentsFit(c)
        BY <1>1, <1>6, <3>1, <3>4 DEF ContentsFit
      <4>. QED BY <1>1, <1>6, <1>8, <3>1, <3>4, <4>1
    <3>. QED BY <3>3, <3>4
  <2>2. PICK after : after = clients'
    OBVIOUS
  <2>3. \A j \in DOMAIN clients : ContentsFit(after[j])'
    BY <1>2, <2>1, <2>2, ContentsStay
  <2>. QED BY <1>8, <2>1, <2>2, <2>3 DEF ClientsFit
<1>14. JitterInv'
  BY <1>2, FlushInv, JitterStays DEF StreamInv
<1>. QED
  BY <1>2, <1>10, <1>11, <1>12, <1>13, <1>14, NetStays, RelayStays, ParticipantsStay, HeardStays
     DEF StreamInv

LEMMA MuteInv ==
    ASSUME StreamInv, NEW u \in Talker, Mute(u)
    PROVE  StreamInv'
<1>1. /\ controller \in [Talker -> [client : ClientId \cup {Absent}, muted : BOOLEAN, leaving : BOOLEAN]]
      /\ controller' = [controller EXCEPT ![u].muted = ~@]
      /\ UNCHANGED <<clients, participant, relay, net, said, overtaken, heard, faults, disturbed, jitterVars>>
  BY DEF Mute, StreamInv, StreamTypeOK
<1>2. /\ controller' \in [Talker -> [client : ClientId \cup {Absent}, muted : BOOLEAN, leaving : BOOLEAN]]
      /\ \A v \in Talker : controller'[v].client = controller[v].client /\ controller'[v].leaving = controller[v].leaving
  BY <1>1
<1>3. StreamTypeOK'
  BY <1>1, <1>2 DEF StreamInv, StreamTypeOK
<1>4. Grown
  BY <1>1 DEF Grown
<1>5. ControllersFit'
  BY <1>1, <1>2 DEF StreamInv, ControllersFit, HasClient
<1>6. ClientsFit'
  <2>1. ASSUME NEW j \in DOMAIN clients
        PROVE  /\ clients[j].recording => clients[j].room # Absent
               /\ clients[j].room # Absent => controller'[clients[j].user].client = j
               /\ ContentsFit(clients[j])'
    <3>1. /\ clients[j].recording => clients[j].room # Absent
          /\ clients[j].room # Absent => controller[clients[j].user].client = j
          /\ ContentsFit(clients[j])
      BY DEF StreamInv, ClientsFit
    <3>2. clients[j].user \in Talker
      <4>1. clients[j] \in VoiceClient
        BY DEF StreamInv, StreamTypeOK
      <4>. QED BY <4>1 DEF VoiceClient
    <3>3. ContentsFit(clients[j])'
      BY <1>1, <3>1 DEF ContentsFit, Carried
    <3>. QED BY <1>2, <3>1, <3>2, <3>3
  <2>. QED BY <1>1, <2>1 DEF ClientsFit
<1>. QED
  BY <1>1, <1>3, <1>4, <1>5, <1>6, NetStays, RelayStays, ParticipantsStay, HeardStays, JitterStays
     DEF StreamInv

------------------------------------------------------------------------------
(* The threads of a client *)

LEMMA ThreadStep ==
    ASSUME StreamInv,
           UNCHANGED <<controller, participant, relay, overtaken, heard, faults, disturbed, jitterVars>>,
           said' \in 0 .. MaxSaid, net' \subseteq Datagram,
           NEW after \in Seq(VoiceClient), clients' = after, Len(after) = Len(clients),
           DOMAIN after = DOMAIN clients,
           \A j \in DOMAIN clients :
              /\ after[j].user = clients[j].user /\ after[j].room = clients[j].room
              /\ after[j].recording = clients[j].recording
              /\ ContentsFit(after[j])
    PROVE  Grown /\ (NetFits' => StreamInv')
<1>1. Grown /\ ControllersFit' /\ ClientsFit'
  BY FramesMoved
<1>2. StreamTypeOK'
  BY DEF StreamInv, StreamTypeOK
<1>3. RelayFits' /\ ParticipantsFit' /\ HeardWhereSaid' /\ JitterInv'
  BY <1>1, RelayStays, ParticipantsStay, HeardStays, JitterStays
<1>. QED BY <1>1, <1>2, <1>3 DEF StreamInv

\* A client with other frames.
LEMMA Captured ==
    ASSUME NEW d \in VoiceClient, NEW f \in Frame \cup {Absent}
    PROVE  \E c \in VoiceClient :
              /\ c = [d EXCEPT !.captured = f]
              /\ c.user = d.user /\ c.room = d.room /\ c.recording = d.recording
              /\ c.captured = f /\ c.queue = d.queue /\ c.hand = d.hand
<1>. DEFINE c == [d EXCEPT !.captured = f]
<1>1. c \in VoiceClient
  BY DEF VoiceClient
<1>2. /\ c.user = d.user /\ c.room = d.room /\ c.recording = d.recording
      /\ c.captured = f /\ c.queue = d.queue /\ c.hand = d.hand
  BY DEF VoiceClient
<1>. QED BY <1>1, <1>2

LEMMA Queued ==
    ASSUME NEW d \in VoiceClient, NEW q \in Seq(Frame)
    PROVE  \E c \in VoiceClient :
              /\ c = [d EXCEPT !.queue = q]
              /\ c.user = d.user /\ c.room = d.room /\ c.recording = d.recording
              /\ c.captured = d.captured /\ c.queue = q /\ c.hand = d.hand
<1>. DEFINE c == [d EXCEPT !.queue = q]
<1>1. c \in VoiceClient
  BY DEF VoiceClient
<1>2. /\ c.user = d.user /\ c.room = d.room /\ c.recording = d.recording
      /\ c.captured = d.captured /\ c.queue = q /\ c.hand = d.hand
  BY DEF VoiceClient
<1>. QED BY <1>1, <1>2

LEMMA Handed ==
    ASSUME NEW d \in VoiceClient, NEW f \in Frame \cup {Absent}
    PROVE  \E c \in VoiceClient :
              /\ c = [d EXCEPT !.hand = f]
              /\ c.user = d.user /\ c.room = d.room /\ c.recording = d.recording
              /\ c.captured = d.captured /\ c.queue = d.queue /\ c.hand = f
<1>. DEFINE c == [d EXCEPT !.hand = f]
<1>1. c \in VoiceClient
  BY DEF VoiceClient
<1>2. /\ c.user = d.user /\ c.room = d.room /\ c.recording = d.recording
      /\ c.captured = d.captured /\ c.queue = d.queue /\ c.hand = f
  BY DEF VoiceClient
<1>. QED BY <1>1, <1>2

LEMMA HandEmptied ==
    ASSUME NEW d \in VoiceClient, NEW n \in Nat
    PROVE  \E c \in VoiceClient :
              /\ c = [d EXCEPT !.hand = Absent, !.sequence = n]
              /\ c.user = d.user /\ c.room = d.room /\ c.recording = d.recording
              /\ c.captured = d.captured /\ c.queue = d.queue /\ c.hand = Absent
<1>. DEFINE c == [d EXCEPT !.hand = Absent, !.sequence = n]
<1>1. c \in VoiceClient
  BY DEF VoiceClient
<1>2. /\ c.user = d.user /\ c.room = d.room /\ c.recording = d.recording
      /\ c.captured = d.captured /\ c.queue = d.queue /\ c.hand = Absent
  BY DEF VoiceClient
<1>. QED BY <1>1, <1>2

LEMMA ClientFacts ==
    ASSUME StreamInv, NEW k \in DOMAIN clients
    PROVE  /\ clients \in Seq(VoiceClient) /\ clients[k] \in VoiceClient
           /\ clients[k].user \in Talker /\ clients[k].room \in VoiceRoom \cup {Absent}
           /\ clients[k].sequence \in Nat
           /\ clients[k].captured \in Frame \cup {Absent} /\ clients[k].hand \in Frame \cup {Absent}
           /\ clients[k].queue \in Seq(Frame)
           /\ clients[k].recording => clients[k].room # Absent
           /\ clients[k].room # Absent => controller[clients[k].user].client = k
           /\ ContentsFit(clients[k])
<1>1. clients \in Seq(VoiceClient) /\ clients[k] \in VoiceClient
  BY DEF StreamInv, StreamTypeOK
<1>2. /\ clients[k].user \in Talker /\ clients[k].room \in VoiceRoom \cup {Absent}
      /\ clients[k].sequence \in Nat
      /\ clients[k].captured \in Frame \cup {Absent} /\ clients[k].hand \in Frame \cup {Absent}
      /\ clients[k].queue \in Seq(Frame)
  BY <1>1 DEF VoiceClient
<1>3. /\ clients[k].recording => clients[k].room # Absent
      /\ clients[k].room # Absent => controller[clients[k].user].client = k
      /\ ContentsFit(clients[k])
  BY DEF StreamInv, ClientsFit
<1>. QED BY <1>1, <1>2, <1>3

\* One client of them with other frames.
LEMMA OneThread ==
    ASSUME StreamInv,
           UNCHANGED <<controller, participant, relay, overtaken, heard, faults, disturbed, jitterVars>>,
           said' \in 0 .. MaxSaid, net' \subseteq Datagram,
           NEW k \in DOMAIN clients, NEW c \in VoiceClient, clients' = [clients EXCEPT ![k] = c],
           c.user = clients[k].user, c.room = clients[k].room, c.recording = clients[k].recording,
           ContentsFit(c)
    PROVE  Grown /\ (NetFits' => StreamInv')
<1>1. PICK after : after = [clients EXCEPT ![k] = c]
  OBVIOUS
<1>2. /\ after \in Seq(VoiceClient) /\ Len(after) = Len(clients) /\ DOMAIN after = DOMAIN clients
      /\ after[k] = c /\ \A j \in DOMAIN clients : j # k => after[j] = clients[j]
  BY <1>1, ClientFacts, ClientChanged
<1>3. ASSUME NEW j \in DOMAIN clients
      PROVE  /\ after[j].user = clients[j].user /\ after[j].room = clients[j].room
             /\ after[j].recording = clients[j].recording
             /\ ContentsFit(after[j])
  <2>1. ContentsFit(clients[j])
    BY ClientFacts
  <2>2. CASE j = k
    BY <1>2, <2>2
  <2>3. CASE j # k
    BY <1>2, <2>1, <2>3
  <2>. QED BY <2>2, <2>3
<1>. QED BY <1>1, <1>2, <1>3, ThreadStep

LEMMA CaptureFrameInv ==
    ASSUME StreamAssumption, StreamInv, NEW k \in DOMAIN clients, CaptureFrame(k)
    PROVE  StreamInv'
<1>1. PICK f : f = [id |-> said + 1, by |-> clients[k].user, said |-> clients[k].room,
                    muted |-> controller[clients[k].user].muted]
  OBVIOUS
<1>2. /\ clients[k].recording /\ ~controller[clients[k].user].muted /\ said < MaxSaid
      /\ said' = said + 1 /\ clients' = [clients EXCEPT ![k].captured = f]
      /\ UNCHANGED <<controller, participant, relay, net, overtaken, heard, faults, disturbed, jitterVars>>
  BY <1>1 DEF CaptureFrame, MayHandOver
<1>3. /\ said \in 0 .. MaxSaid /\ net \subseteq Datagram
      /\ controller[clients[k].user].muted = FALSE
      /\ clients[k].user \in Talker /\ clients[k].room \in VoiceRoom
  <2>1. /\ said \in 0 .. MaxSaid /\ net \subseteq Datagram
        /\ controller \in [Talker -> [client : ClientId \cup {Absent}, muted : BOOLEAN, leaving : BOOLEAN]]
    BY DEF StreamInv, StreamTypeOK
  <2>2. clients[k].user \in Talker /\ clients[k].room \in VoiceRoom
    BY <1>2, ClientFacts
  <2>. QED BY <1>2, <2>1, <2>2
<1>4. said' \in 0 .. MaxSaid /\ said + 1 \in 1 .. MaxSaid
  BY <1>2, <1>3 DEF StreamAssumption
<1>5. f \in Frame /\ f.by = clients[k].user /\ f.said = clients[k].room /\ ~f.muted
  BY <1>1, <1>3, <1>4 DEF Frame
<1>6. PICK c \in VoiceClient :
        /\ c = [clients[k] EXCEPT !.captured = f]
        /\ c.user = clients[k].user /\ c.room = clients[k].room /\ c.recording = clients[k].recording
        /\ c.captured = f /\ c.queue = clients[k].queue /\ c.hand = clients[k].hand
  BY <1>5, ClientFacts, Captured
<1>7. clients' = [clients EXCEPT ![k] = c]
  BY <1>2, <1>6
<1>8. ContentsFit(c)
  <2>1. ContentsFit(clients[k])
    BY ClientFacts
  <2>. QED BY <1>5, <1>6, <2>1 DEF ContentsFit
<1>9. Grown /\ (NetFits' => StreamInv')
  BY <1>2, <1>3, <1>4, <1>6, <1>7, <1>8, OneThread
<1>. QED BY <1>2, <1>9, NetStays

LEMMA SendFrameInv ==
    ASSUME StreamAssumption, StreamInv, NEW k \in DOMAIN clients, SendFrame(k)
    PROVE  StreamInv'
<1>. DEFINE now == controller[clients[k].user].client
            f == clients[k].captured
            handed == [clients EXCEPT ![k].captured = Absent]
<1>1. /\ clients' = (IF now = Absent THEN handed ELSE [handed EXCEPT ![now].queue = Append(@, f)])
      /\ UNCHANGED <<controller, participant, relay, net, said, overtaken, heard, faults, disturbed, jitterVars>>
      /\ f # Absent
  BY DEF SendFrame
<1>2. said \in 0 .. MaxSaid /\ net \subseteq Datagram
  BY DEF StreamInv, StreamTypeOK
<1>3. /\ clients \in Seq(VoiceClient) /\ clients[k] \in VoiceClient /\ f \in Frame
      /\ ContentsFit(clients[k]) /\ clients[k].user \in Talker
      /\ clients[k].room # Absent => now = k
  BY <1>1, ClientFacts
<1>4. /\ ~f.muted /\ f.by = clients[k].user
      /\ f.said = clients[k].room \/ f.id \in overtaken
      /\ f.said # Absent
  BY <1>1, <1>3 DEF ContentsFit, Frame, StreamAssumption
<1>5. PICK c \in VoiceClient :
        /\ c = [clients[k] EXCEPT !.captured = Absent]
        /\ c.user = clients[k].user /\ c.room = clients[k].room /\ c.recording = clients[k].recording
        /\ c.captured = Absent /\ c.queue = clients[k].queue /\ c.hand = clients[k].hand
  BY <1>3, Captured
<1>6. handed = [clients EXCEPT ![k] = c] /\ ContentsFit(c)
  BY <1>3, <1>5 DEF ContentsFit
<1>7. CASE now = Absent
  <2>1. clients' = [clients EXCEPT ![k] = c]
    BY <1>1, <1>6, <1>7
  <2>2. Grown /\ (NetFits' => StreamInv')
    BY <1>1, <1>2, <1>5, <1>6, <2>1, OneThread
  <2>. QED BY <1>1, <2>2, NetStays
<1>8. CASE now # Absent
  <2>1. now \in DOMAIN clients /\ clients[now].user = clients[k].user
    BY <1>3, <1>8 DEF StreamInv, ControllersFit, HasClient
  <2>2. PICK s : s = handed
    OBVIOUS
  <2>3. /\ s \in Seq(VoiceClient) /\ Len(s) = Len(clients) /\ DOMAIN s = DOMAIN clients
        /\ s[k] = c /\ \A j \in DOMAIN clients : j # k => s[j] = clients[j]
    BY <1>3, <1>5, <1>6, <2>2, ClientChanged
  <2>4. /\ s[now] \in VoiceClient /\ s[now].user = f.by
        /\ s[now].room = clients[now].room /\ s[now].recording = clients[now].recording
        /\ s[now].queue \in Seq(Frame) /\ ContentsFit(s[now])
    <3>1. s[now] \in VoiceClient
      BY <2>1, <2>3
    <3>2. s[now].queue \in Seq(Frame)
      BY <3>1 DEF VoiceClient
    <3>3. CASE now = k
      BY <1>4, <1>5, <1>6, <2>3, <3>1, <3>2, <3>3
    <3>4. CASE now # k
      <4>1. ContentsFit(clients[now])
        BY <2>1, ClientFacts
      <4>. QED BY <1>4, <2>1, <2>3, <3>1, <3>2, <3>4, <4>1
    <3>. QED BY <3>3, <3>4
  <2>5. Carried(f, f.by, clients[now].room)
    <3>1. clients[k].room # Absent => clients[now].room = clients[k].room
      BY <1>3
    <3>2. f.said = clients[k].room => clients[k].room # Absent
      BY <1>4
    <3>. QED BY <1>4, <3>1, <3>2 DEF Carried
  <2>6. PICK q \in Seq(Frame) :
          /\ q = Append(s[now].queue, f)
          /\ \A i \in DOMAIN q : q[i] = f \/ (\E n \in DOMAIN s[now].queue : q[i] = s[now].queue[n])
    <3>1. ASSUME NEW old \in Seq(Frame)
          PROVE  /\ Append(old, f) \in Seq(Frame)
                 /\ \A i \in DOMAIN Append(old, f) :
                       Append(old, f)[i] = f \/ (\E n \in DOMAIN old : Append(old, f)[i] = old[n])
      <4>1. f \in Frame
        BY <1>3
      <4>. HIDE DEF f
      <4>. QED BY <4>1
    <3>. QED BY <2>4, <3>1
  <2>7. PICK d \in VoiceClient :
          /\ d = [s[now] EXCEPT !.queue = q]
          /\ d.user = s[now].user /\ d.room = s[now].room /\ d.recording = s[now].recording
          /\ d.captured = s[now].captured /\ d.queue = q /\ d.hand = s[now].hand
    BY <2>4, <2>6, Queued
  <2>8. ContentsFit(d)
    <3>1. /\ ContentsFit(s[now]) /\ d.captured = s[now].captured /\ d.hand = s[now].hand
          /\ d.user = s[now].user /\ d.room = s[now].room
      BY <2>4, <2>7
    <3>2. Carried(f, d.user, d.room)
      BY <2>4, <2>5, <2>7
    <3>3. ASSUME NEW i \in DOMAIN d.queue PROVE Carried(d.queue[i], d.user, d.room)
      <4>1. CASE d.queue[i] = f
        BY <3>2, <4>1
      <4>2. CASE \E n \in DOMAIN s[now].queue : d.queue[i] = s[now].queue[n]
        BY <3>1, <4>2 DEF ContentsFit
      <4>3. d.queue = q
        BY <2>7
      <4>. HIDE DEF f
      <4>. QED BY <2>6, <3>3, <4>1, <4>2, <4>3
    <3>. QED BY <3>1, <3>3 DEF ContentsFit
  <2>9. PICK after : after = [s EXCEPT ![now] = d]
    OBVIOUS
  <2>10. clients' = after
    BY <1>1, <1>8, <2>1, <2>2, <2>3, <2>6, <2>7, <2>9
  <2>11. /\ after \in Seq(VoiceClient) /\ Len(after) = Len(s) /\ DOMAIN after = DOMAIN s
         /\ after[now] = d /\ \A j \in DOMAIN s : j # now => after[j] = s[j]
    BY <2>1, <2>3, <2>7, <2>9, ClientChanged
  <2>12. ASSUME NEW j \in DOMAIN clients
         PROVE  /\ after[j].user = clients[j].user /\ after[j].room = clients[j].room
                /\ after[j].recording = clients[j].recording
                /\ ContentsFit(after[j])
    <3>1. CASE j = now
      BY <1>4, <2>1, <2>3, <2>4, <2>7, <2>8, <2>11, <3>1
    <3>2. CASE j # now /\ j = k
      BY <1>5, <1>6, <2>3, <2>11, <3>2
    <3>3. CASE j # now /\ j # k
      <4>1. ContentsFit(clients[j])
        BY ClientFacts
      <4>. QED BY <2>3, <2>11, <3>3, <4>1
    <3>. QED BY <3>1, <3>2, <3>3
  <2>13. Grown /\ (NetFits' => StreamInv')
    <3>1. said' \in 0 .. MaxSaid /\ net' \subseteq Datagram
      BY <1>1, <1>2
    <3>. QED BY <1>1, <2>3, <2>10, <2>11, <2>12, <3>1, ThreadStep
  <2>. QED BY <1>1, <2>13, NetStays
<1>. QED BY <1>7, <1>8

LEMMA TakeFrameInv ==
    ASSUME StreamInv, NEW k \in DOMAIN clients, TakeFrame(k)
    PROVE  StreamInv'
<1>1. /\ clients[k].queue # <<>>
      /\ clients' = [clients EXCEPT
             ![k].queue = Tail(@),
             ![k].hand = IF clients[k].room = Absent THEN Absent ELSE Head(clients[k].queue)]
      /\ UNCHANGED <<controller, participant, relay, net, said, overtaken, heard, faults, disturbed, jitterVars>>
  BY DEF TakeFrame
<1>2. said \in 0 .. MaxSaid /\ net \subseteq Datagram
  BY DEF StreamInv, StreamTypeOK
<1>3. PICK q \in Seq(Frame), f \in Frame :
        /\ q = Tail(clients[k].queue) /\ f = Head(clients[k].queue)
        /\ f = clients[k].queue[1] /\ 1 \in DOMAIN clients[k].queue
        /\ \A i \in DOMAIN q : i + 1 \in DOMAIN clients[k].queue /\ q[i] = clients[k].queue[i + 1]
  <2>1. ASSUME NEW old \in Seq(Frame), old # <<>>
        PROVE  /\ Tail(old) \in Seq(Frame) /\ Head(old) \in Frame /\ Head(old) = old[1] /\ 1 \in DOMAIN old
               /\ \A i \in DOMAIN Tail(old) : i + 1 \in DOMAIN old /\ Tail(old)[i] = old[i + 1]
    BY <2>1
  <2>2. clients[k].queue \in Seq(Frame)
    BY ClientFacts
  <2>. QED BY <1>1, <2>1, <2>2
<1>4. PICK h \in Frame \cup {Absent} : h = IF clients[k].room = Absent THEN Absent ELSE f
  OBVIOUS
<1>5. PICK c \in VoiceClient :
        /\ clients' = [clients EXCEPT ![k] = c]
        /\ c.user = clients[k].user /\ c.room = clients[k].room /\ c.recording = clients[k].recording
        /\ c.captured = clients[k].captured /\ c.queue = q /\ c.hand = h
  <2>1. PICK d \in VoiceClient :
          /\ d = [clients[k] EXCEPT !.queue = q]
          /\ d.user = clients[k].user /\ d.room = clients[k].room /\ d.recording = clients[k].recording
          /\ d.captured = clients[k].captured /\ d.queue = q
    <3>1. clients[k] \in VoiceClient
      BY ClientFacts
    <3>. QED BY <1>3, <3>1, Queued
  <2>2. PICK c \in VoiceClient :
          /\ c = [d EXCEPT !.hand = h]
          /\ c.user = d.user /\ c.room = d.room /\ c.recording = d.recording
          /\ c.captured = d.captured /\ c.queue = d.queue /\ c.hand = h
    BY <1>4, <2>1, Handed
  <2>3. clients' = [clients EXCEPT ![k].queue = q, ![k].hand = h]
    BY <1>1, <1>3, <1>4
  <2>4. clients' = [clients EXCEPT ![k] = c]
    BY <2>1, <2>2, <2>3
  <2>. QED BY <2>1, <2>2, <2>4
<1>6. ContentsFit(c)
  <2>1. ContentsFit(clients[k])
    BY ClientFacts
  <2>. QED BY <1>3, <1>4, <1>5, <2>1 DEF ContentsFit
<1>7. Grown /\ (NetFits' => StreamInv')
  BY <1>1, <1>2, <1>5, <1>6, OneThread
<1>. QED BY <1>1, <1>7, NetStays

LEMMA SendDatagramInv ==
    ASSUME StreamAssumption, StreamInv, NEW k \in DOMAIN clients, SendDatagram(k)
    PROVE  StreamInv'
<1>1. PICK d : d = [to |-> Server, sender |-> clients[k].user, room |-> clients[k].room,
                    sequence |-> clients[k].sequence, frame |-> clients[k].hand, copy |-> FALSE]
  OBVIOUS
<1>2. /\ clients[k].hand # Absent
      /\ UNCHANGED <<controller, participant, relay, said, overtaken, heard, faults, disturbed, jitterVars>>
      /\ \/ /\ net' = net \cup {d}
            /\ clients' = [clients EXCEPT ![k].hand = Absent, ![k].sequence = @ + 1]
         \/ clients' = [clients EXCEPT ![k].hand = Absent] /\ net' = net
  BY <1>1 DEF SendDatagram
<1>3. said \in 0 .. MaxSaid /\ net \subseteq Datagram
  BY DEF StreamInv, StreamTypeOK
<1>4. /\ d \in Datagram /\ d.to = Server /\ d.frame = clients[k].hand
      /\ d.sender = clients[k].user /\ d.room = clients[k].room
  <2>1. /\ clients[k].user \in Talker /\ clients[k].room \in VoiceRoom \cup {Absent}
        /\ clients[k].sequence \in Nat /\ clients[k].hand \in Frame
    BY <1>2, ClientFacts
  <2>. QED BY <1>1, <2>1 DEF Datagram
<1>5. DatagramFits(d)
  <2>1. ContentsFit(clients[k])
    BY ClientFacts
  <2>. QED BY <1>2, <1>4, <2>1 DEF ContentsFit, DatagramFits
<1>6. PICK c \in VoiceClient :
        /\ clients' = [clients EXCEPT ![k] = c]
        /\ c.user = clients[k].user /\ c.room = clients[k].room /\ c.recording = clients[k].recording
        /\ c.captured = clients[k].captured /\ c.queue = clients[k].queue /\ c.hand = Absent
  <2>1. clients[k] \in VoiceClient /\ clients[k].sequence \in Nat
    BY ClientFacts
  <2>2. clients[k].sequence + 1 \in Nat
    BY <2>1
  <2>3. CASE clients' = [clients EXCEPT ![k].hand = Absent, ![k].sequence = @ + 1]
    <3>1. PICK c \in VoiceClient :
            /\ c = [clients[k] EXCEPT !.hand = Absent, !.sequence = clients[k].sequence + 1]
            /\ c.user = clients[k].user /\ c.room = clients[k].room /\ c.recording = clients[k].recording
            /\ c.captured = clients[k].captured /\ c.queue = clients[k].queue /\ c.hand = Absent
      BY <2>1, <2>2, HandEmptied
    <3>2. clients' = [clients EXCEPT ![k] = c]
      BY <2>3, <3>1
    <3>. QED BY <3>1, <3>2
  <2>4. CASE clients' = [clients EXCEPT ![k].hand = Absent]
    <3>1. PICK c \in VoiceClient :
            /\ c = [clients[k] EXCEPT !.hand = Absent, !.sequence = clients[k].sequence]
            /\ c.user = clients[k].user /\ c.room = clients[k].room /\ c.recording = clients[k].recording
            /\ c.captured = clients[k].captured /\ c.queue = clients[k].queue /\ c.hand = Absent
      BY <2>1, HandEmptied
    <3>2. c = [clients[k] EXCEPT !.hand = Absent]
      BY <2>1, <3>1 DEF VoiceClient
    <3>3. clients' = [clients EXCEPT ![k] = c]
      BY <2>4, <3>2
    <3>. QED BY <3>1, <3>3
  <2>. QED BY <1>2, <2>3, <2>4
<1>7. ContentsFit(c)
  <2>1. ContentsFit(clients[k])
    BY ClientFacts
  <2>. QED BY <1>6, <2>1 DEF ContentsFit
<1>8. Grown /\ (NetFits' => StreamInv')
  <2>1. said' \in 0 .. MaxSaid /\ net' \subseteq Datagram
    BY <1>2, <1>3, <1>4
  <2>. QED BY <1>2, <1>6, <1>7, <2>1, OneThread
<1>9. NetFits'
  <2>1. ASSUME NEW e \in net' PROVE DatagramFits(e)' /\ (e.to # Server => Relayed(e)')
    <3>1. CASE e \in net
      <4>1. DatagramFits(e) /\ (e.to # Server => Relayed(e))
        BY <3>1 DEF StreamInv, NetFits
      <4>2. DatagramFits(e)'
        BY <1>8, <4>1 DEF DatagramFits, Carried, Grown
      <4>3. e.to # Server => Relayed(e)'
        BY <1>8, <4>1 DEF Relayed, Grown
      <4>. QED BY <4>2, <4>3
    <3>2. CASE e = d
      <4>1. DatagramFits(d)'
        BY <1>5, <1>8 DEF DatagramFits, Carried, Grown
      <4>. QED BY <1>4, <3>2, <4>1
    <3>. QED BY <1>2, <2>1, <3>1, <3>2
  <2>. QED BY <2>1 DEF NetFits
<1>. QED BY <1>8, <1>9

\* What is not for the client's room is dropped, so that the room a frame is heard in is
\* the one it was sent to.
LEMMA ReceiveFrameInv ==
    ASSUME StreamAssumption, JitterAssumption, StreamInv, NEW k \in DOMAIN clients, ReceiveFrame(k)
    PROVE  StreamInv'
<1>1. PICK d \in net :
        /\ d.to = k
        /\ net' = net \ {d}
        /\ IF clients[k].running /\ d.room = clients[k].room
           THEN /\ heard' = heard \cup {[by |-> clients[k].user, room |-> d.room, frame |-> d.frame]}
                /\ IF clients[k].user = Listener
                   THEN /\ AddFrame(d.sequence)
                        /\ disturbed' = (disturbed \/ ~(Held \subseteq {buffer'[i] : i \in DOMAIN buffer'}))
                   ELSE UNCHANGED <<jitterVars, disturbed>>
           ELSE UNCHANGED <<heard, jitterVars, disturbed>>
        /\ UNCHANGED <<controller, clients, participant, relay, said, overtaken, faults>>
  BY DEF ReceiveFrame
<1>2. d \in Datagram /\ d.sequence \in Nat /\ d.frame \in Frame /\ d.room \in VoiceRoom \cup {Absent}
  <2>1. d \in Datagram
    BY DEF StreamInv, StreamTypeOK
  <2>. QED BY <2>1 DEF Datagram
<1>3. DatagramFits(d) /\ Relayed(d)
  <2>1. d.to # Server
    <3>1. DOMAIN clients = 1 .. Len(clients) /\ Len(clients) \in Nat
      BY DEF StreamInv, StreamTypeOK
    <3>. QED BY <1>1, <3>1 DEF Server
  <2>. QED BY <2>1 DEF StreamInv, NetFits
<1>4. clients[k].user \in Talker
  BY ClientFacts
<1>5. Grown /\ ControllersFit' /\ ClientsFit' /\ NetFits' /\ RelayFits' /\ ParticipantsFit'
  <2>1. Grown /\ ControllersFit' /\ ClientsFit'
    BY <1>1, PeopleStay
  <2>. QED BY <1>1, <2>1, NetStays, RelayStays, ParticipantsStay
<1>6. JitterInv'
  BY <1>1, <1>2, AddFrameInv, JitterStays DEF StreamInv
<1>7. disturbed' \in BOOLEAN
  BY <1>1 DEF StreamInv, StreamTypeOK
<1>8. CASE clients[k].running /\ d.room = clients[k].room
  <2>1. PICK h : h = [by |-> clients[k].user, room |-> d.room, frame |-> d.frame]
    OBVIOUS
  <2>2. /\ heard' = heard \cup {h} /\ h.by = clients[k].user /\ h.room = d.room /\ h.frame = d.frame
        /\ d.room \in VoiceRoom /\ h \in [by : Talker, room : VoiceRoom, frame : Frame]
    BY <1>1, <1>2, <1>3, <1>4, <1>8, <2>1 DEF Relayed
  <2>3. /\ h.by # h.frame.by /\ ~h.frame.muted
        /\ h.frame.said = h.room \/ h.frame.id \in overtaken
    BY <1>1, <1>3, <2>2 DEF DatagramFits, Relayed, Carried
  <2>4. HeardWhereSaid'
    BY <1>1, <2>2, <2>3 DEF StreamInv, HeardWhereSaid
  <2>5. StreamTypeOK'
    BY <1>1, <1>7, <2>2 DEF StreamInv, StreamTypeOK
  <2>. QED BY <1>5, <1>6, <2>4, <2>5 DEF StreamInv
<1>9. CASE ~(clients[k].running /\ d.room = clients[k].room)
  <2>1. heard' = heard
    BY <1>1, <1>9
  <2>2. HeardWhereSaid'
    BY <1>5, <2>1, HeardStays
  <2>3. StreamTypeOK'
    BY <1>1, <1>7, <2>1 DEF StreamInv, StreamTypeOK
  <2>. QED BY <1>5, <1>6, <2>2, <2>3 DEF StreamInv
<1>. QED BY <1>8, <1>9

LEMMA PlayInv ==
    ASSUME JitterAssumption, StreamInv, Play
    PROVE  StreamInv'
<1>1. /\ GetFrame
      /\ UNCHANGED <<controller, clients, participant, relay, net, said, overtaken, heard, faults, disturbed>>
  BY DEF Play
<1>2. Grown /\ ControllersFit' /\ ClientsFit'
  BY <1>1, PeopleStay
<1>3. NetFits' /\ RelayFits' /\ ParticipantsFit' /\ HeardWhereSaid'
  BY <1>1, <1>2, NetStays, RelayStays, ParticipantsStay, HeardStays
<1>4. StreamTypeOK'
  BY <1>1 DEF StreamInv, StreamTypeOK
<1>5. JitterInv'
  BY <1>1, GetFrameInv DEF StreamInv
<1>. QED BY <1>2, <1>3, <1>4, <1>5 DEF StreamInv

------------------------------------------------------------------------------
(* The server and the network *)

\* A step of the server or the network: the people, what they have heard and the buffer
\* stay.
LEMMA ServerStep ==
    ASSUME StreamInv, UNCHANGED <<controller, clients, said, overtaken, heard, jitterVars>>,
           participant' \in [Talker -> [room : VoiceRoom, port : ClientId] \cup {Absent}],
           relay' \in [packet : Datagram \cup {Absent}, todo : SUBSET Talker],
           net' \subseteq Datagram, faults' \in 0 .. MaxFaults, disturbed' \in BOOLEAN
    PROVE  Grown /\ (NetFits' /\ RelayFits' /\ ParticipantsFit' => StreamInv')
<1>1. Grown /\ ControllersFit' /\ ClientsFit'
  BY PeopleStay
<1>2. HeardWhereSaid' /\ JitterInv'
  BY <1>1, HeardStays, JitterStays
<1>3. StreamTypeOK'
  BY DEF StreamInv, StreamTypeOK
<1>. QED BY <1>1, <1>2, <1>3 DEF StreamInv

LEMMA ServerTypes ==
    StreamInv => /\ participant \in [Talker -> [room : VoiceRoom, port : ClientId] \cup {Absent}]
                 /\ relay \in [packet : Datagram \cup {Absent}, todo : SUBSET Talker]
                 /\ net \subseteq Datagram /\ faults \in 0 .. MaxFaults /\ disturbed \in BOOLEAN
  BY DEF StreamInv, StreamTypeOK

LEMMA RegisterInv ==
    ASSUME StreamAssumption, StreamInv, NEW u \in Talker, Register(u)
    PROVE  StreamInv'
<1>1. PICK p : p = [room |-> RoomOf(u), port |-> controller[u].client]
  OBVIOUS
<1>2. /\ HasClient(u) /\ ~controller[u].leaving
      /\ participant' = [participant EXCEPT ![u] = p]
      /\ UNCHANGED <<controller, clients, relay, net, said, overtaken, heard, faults, disturbed, jitterVars>>
  BY <1>1 DEF Register
<1>3. /\ controller[u].client \in DOMAIN clients /\ clients[controller[u].client].user = u
      /\ clients[controller[u].client].room \in VoiceRoom /\ controller[u].client \in ClientId
  BY <1>2 DEF StreamInv, StreamTypeOK, ControllersFit, HasClient
<1>4. p \in [room : VoiceRoom, port : ClientId] /\ p.port = controller[u].client
  BY <1>1, <1>2, <1>3 DEF RoomOf
<1>5. participant' \in [Talker -> [room : VoiceRoom, port : ClientId] \cup {Absent}]
  BY <1>2, <1>4, ServerTypes
<1>6. Grown /\ (NetFits' /\ RelayFits' /\ ParticipantsFit' => StreamInv')
  BY <1>2, <1>5, ServerTypes, ServerStep
<1>7. ParticipantsFit'
  <2>1. ASSUME NEW v \in Talker, participant'[v] # Absent
        PROVE  participant'[v].port \in DOMAIN clients' /\ clients'[participant'[v].port].user = v
    <3>1. CASE v = u
      BY <1>2, <1>3, <1>4, <3>1, ServerTypes
    <3>2. CASE v # u
      BY <1>2, <2>1, <3>2, ServerTypes DEF StreamInv, ParticipantsFit
    <3>. QED BY <3>1, <3>2
  <2>. QED BY <2>1 DEF ParticipantsFit
<1>. QED BY <1>2, <1>6, <1>7, NetStays, RelayStays

LEMMA UnregisterInv ==
    ASSUME StreamInv, NEW u \in Talker, Unregister(u)
    PROVE  StreamInv'
<1>1. /\ participant' = [participant EXCEPT ![u] = Absent]
      /\ UNCHANGED <<controller, clients, relay, net, said, overtaken, heard, faults, disturbed, jitterVars>>
  BY DEF Unregister
<1>2. participant' \in [Talker -> [room : VoiceRoom, port : ClientId] \cup {Absent}]
  BY <1>1, ServerTypes
<1>3. Grown /\ (NetFits' /\ RelayFits' /\ ParticipantsFit' => StreamInv')
  BY <1>1, <1>2, ServerTypes, ServerStep
<1>4. ParticipantsFit'
  BY <1>1, ServerTypes DEF StreamInv, ParticipantsFit
<1>. QED BY <1>1, <1>3, <1>4, NetStays, RelayStays

\* Nobody is registered in no room, so that what is relayed was sent in one.
LEMMA ServerReceiveInv ==
    ASSUME StreamAssumption, StreamInv, ServerReceive
    PROVE  StreamInv'
<1>1. PICK d \in net :
        /\ net' = net \ {d}
        /\ relay' = IF Listeners(d) = {} THEN Receiving ELSE [packet |-> d, todo |-> Listeners(d)]
        /\ disturbed' = (disturbed \/ Listener \notin Listeners(d))
        /\ UNCHANGED <<controller, clients, participant, said, overtaken, heard, faults, jitterVars>>
  BY DEF ServerReceive
<1>2. d \in Datagram /\ DatagramFits(d)
  BY DEF StreamInv, StreamTypeOK, NetFits
<1>3. Listeners(d) \subseteq Talker /\ d.sender \notin Listeners(d)
  BY DEF Listeners, RegisteredIn
<1>4. Listeners(d) # {} => d.room # Absent
  <2>1. ASSUME NEW u \in Listeners(d) PROVE d.room # Absent
    <3>1. u \in Talker /\ participant[u] # Absent /\ participant[u].room = d.room
      BY DEF Listeners, RegisteredIn
    <3>2. participant[u] \in [room : VoiceRoom, port : ClientId]
      BY <3>1, ServerTypes
    <3>. QED BY <3>1, <3>2 DEF StreamAssumption
  <2>. QED BY <2>1
<1>5. Receiving \in [packet : Datagram \cup {Absent}, todo : SUBSET Talker] /\ Receiving.todo = {}
  BY DEF Receiving
<1>6. relay' \in [packet : Datagram \cup {Absent}, todo : SUBSET Talker]
  BY <1>1, <1>2, <1>3, <1>5
<1>7. net' \subseteq Datagram /\ disturbed' \in BOOLEAN
  BY <1>1, ServerTypes
<1>8. Grown /\ (NetFits' /\ RelayFits' /\ ParticipantsFit' => StreamInv')
  BY <1>1, <1>6, <1>7, ServerTypes, ServerStep
<1>9. RelayFits'
  <2>1. DatagramFits(d)'
    BY <1>2, <1>8 DEF DatagramFits, Carried, Grown
  <2>2. CASE Listeners(d) = {}
    BY <1>1, <1>5, <2>2 DEF RelayFits
  <2>3. CASE Listeners(d) # {}
    <3>1. relay'.packet = d /\ relay'.todo = Listeners(d)
      BY <1>1, <2>3
    <3>2. DatagramFits(relay.packet)'
      BY <2>1, <3>1 DEF DatagramFits, Carried
    <3>. QED BY <1>2, <1>3, <1>4, <2>3, <3>1, <3>2 DEF RelayFits
  <2>. QED BY <2>2, <2>3
<1>. QED BY <1>1, <1>8, <1>9, NetStays, ParticipantsStay

LEMMA RelayToInv ==
    ASSUME StreamAssumption, StreamInv, NEW u \in Talker, RelayTo(u)
    PROVE  StreamInv'
<1>. DEFINE p == relay.packet
            d == [p EXCEPT !.to = participant[u].port]
<1>1. /\ u \in relay.todo
      /\ relay' = IF relay.todo = {u} THEN Receiving ELSE [relay EXCEPT !.todo = @ \ {u}]
      /\ net' = IF u \in RegisteredIn(p.room) THEN net \cup {d} ELSE net
      /\ UNCHANGED <<controller, clients, participant, said, overtaken, heard, faults, disturbed, jitterVars>>
  BY DEF RelayTo
<1>2. p \in Datagram /\ DatagramFits(p) /\ p.room # Absent /\ p.sender \notin relay.todo
  BY <1>1 DEF StreamInv, RelayFits
<1>3. Receiving \in [packet : Datagram \cup {Absent}, todo : SUBSET Talker] /\ Receiving.todo = {}
  BY DEF Receiving
<1>4. /\ relay' \in [packet : Datagram \cup {Absent}, todo : SUBSET Talker]
      /\ relay'.todo = {} \/ (relay'.packet = p /\ relay'.todo \subseteq relay.todo)
  BY <1>1, <1>3, ServerTypes
<1>5. u \in RegisteredIn(p.room) =>
        /\ d \in Datagram /\ d.to = participant[u].port /\ d.frame = p.frame /\ d.room = p.room
        /\ d.sender = p.sender /\ d.to \in DOMAIN clients /\ clients[d.to].user = u
  <2>. SUFFICES ASSUME u \in RegisteredIn(p.room)
                PROVE  /\ d \in Datagram /\ d.to = participant[u].port /\ d.frame = p.frame /\ d.room = p.room
                       /\ d.sender = p.sender /\ d.to \in DOMAIN clients /\ clients[d.to].user = u
    OBVIOUS
  <2>1. /\ participant[u] \in [room : VoiceRoom, port : ClientId]
        /\ participant[u].port \in DOMAIN clients /\ clients[participant[u].port].user = u
    BY ServerTypes DEF RegisteredIn, StreamInv, ParticipantsFit
  <2>. HIDE DEF p
  <2>2. /\ d \in Datagram /\ d.to = participant[u].port /\ d.frame = p.frame /\ d.room = p.room
        /\ d.sender = p.sender
    BY <1>2, <2>1 DEF Datagram
  <2>. QED BY <2>1, <2>2
<1>. HIDE DEF d, p
<1>6. net' \subseteq Datagram
  BY <1>1, <1>5, ServerTypes
<1>7. Grown /\ (NetFits' /\ RelayFits' /\ ParticipantsFit' => StreamInv')
  BY <1>1, <1>4, <1>6, ServerTypes, ServerStep
<1>8. NetFits'
  <2>1. ASSUME NEW e \in net' PROVE DatagramFits(e)' /\ (e.to # Server => Relayed(e)')
    <3>1. CASE e \in net
      <4>1. DatagramFits(e) /\ (e.to # Server => Relayed(e))
        BY <3>1 DEF StreamInv, NetFits
      <4>2. DatagramFits(e)'
        BY <1>7, <4>1 DEF DatagramFits, Carried, Grown
      <4>3. e.to # Server => Relayed(e)'
        BY <1>7, <4>1 DEF Relayed, Grown
      <4>. QED BY <4>2, <4>3
    <3>2. CASE e \notin net
      <4>1. e = d /\ u \in RegisteredIn(p.room)
        BY <1>1, <3>2
      <4>2. /\ e.frame = p.frame /\ e.room = p.room /\ e.sender = p.sender
            /\ e.to \in DOMAIN clients /\ clients[e.to].user = u
        BY <1>5, <4>1
      <4>3. DatagramFits(e)'
        BY <1>2, <1>7, <4>2 DEF DatagramFits, Carried, Grown
      <4>4. Relayed(e)'
        BY <1>1, <1>2, <4>2 DEF Relayed
      <4>. QED BY <4>3, <4>4
    <3>. QED BY <3>1, <3>2
  <2>. QED BY <2>1 DEF NetFits
<1>9. RelayFits'
  <2>1. CASE relay'.todo = {}
    BY <2>1 DEF RelayFits
  <2>2. CASE relay'.packet = p /\ relay'.todo \subseteq relay.todo
    <3>1. DatagramFits(relay.packet)'
      BY <1>2, <1>7, <2>2 DEF DatagramFits, Carried, Grown
    <3>. QED BY <1>2, <2>2, <3>1 DEF RelayFits
  <2>. QED BY <1>4, <2>1, <2>2
<1>. QED BY <1>1, <1>7, <1>8, <1>9, ParticipantsStay

LEMMA LoseInv ==
    ASSUME StreamAssumption, StreamInv, Lose
    PROVE  StreamInv'
<1>1. /\ faults < MaxFaults /\ faults' = faults + 1 /\ net' \subseteq net /\ disturbed' = TRUE
      /\ UNCHANGED <<controller, clients, participant, relay, said, overtaken, heard, jitterVars>>
  BY DEF Lose
<1>2. faults' \in 0 .. MaxFaults /\ net' \subseteq Datagram
  BY <1>1, ServerTypes DEF StreamAssumption
<1>3. Grown /\ (NetFits' /\ RelayFits' /\ ParticipantsFit' => StreamInv')
  BY <1>1, <1>2, ServerTypes, ServerStep
<1>. QED BY <1>1, <1>3, NetStays, RelayStays, ParticipantsStay

LEMMA DoubleInv ==
    ASSUME StreamAssumption, StreamInv, Double
    PROVE  StreamInv'
<1>1. PICK d \in net :
        /\ net' = net \cup {[d EXCEPT !.copy = TRUE]}
        /\ faults < MaxFaults /\ faults' = faults + 1
        /\ UNCHANGED <<controller, clients, participant, relay, said, overtaken, heard, disturbed, jitterVars>>
  BY DEF Double
<1>c. PICK c : c = [d EXCEPT !.copy = TRUE]
  OBVIOUS
<1>2. d \in Datagram /\ DatagramFits(d) /\ (d.to # Server => Relayed(d))
  BY DEF StreamInv, StreamTypeOK, NetFits
<1>3. /\ c \in Datagram /\ c.to = d.to /\ c.sender = d.sender /\ c.room = d.room /\ c.frame = d.frame
  BY <1>c, <1>2 DEF Datagram
<1>4. faults' \in 0 .. MaxFaults /\ net' \subseteq Datagram
  <2>1. faults \in 0 .. MaxFaults /\ net \subseteq Datagram
    BY ServerTypes
  <2>2. faults' \in 0 .. MaxFaults
    BY <1>1, <2>1 DEF StreamAssumption
  <2>. QED BY <1>1, <1>c, <1>3, <2>1, <2>2
<1>5. Grown /\ (NetFits' /\ RelayFits' /\ ParticipantsFit' => StreamInv')
  BY <1>1, <1>4, ServerTypes, ServerStep
<1>6. NetFits'
  <2>1. ASSUME NEW e \in net' PROVE DatagramFits(e)' /\ (e.to # Server => Relayed(e)')
    <3>1. DatagramFits(e) /\ (e.to # Server => Relayed(e))
      <4>1. CASE e \in net
        BY <4>1 DEF StreamInv, NetFits
      <4>2. CASE e = c
        BY <1>2, <1>3, <4>2 DEF DatagramFits, Relayed
      <4>. QED BY <1>1, <1>c, <2>1, <4>1, <4>2
    <3>2. DatagramFits(e)'
      BY <1>5, <3>1 DEF DatagramFits, Carried, Grown
    <3>3. e.to # Server => Relayed(e)'
      BY <1>5, <3>1 DEF Relayed, Grown
    <3>. QED BY <3>2, <3>3
  <2>. QED BY <2>1 DEF NetFits
<1>. QED BY <1>1, <1>5, <1>6, RelayStays, ParticipantsStay

------------------------------------------------------------------------------
(* The theorems about VoiceStream. *)

LEMMA StreamInitInv == StreamAssumption /\ JitterAssumption /\ StreamInit => StreamInv
<1>. SUFFICES ASSUME StreamAssumption, JitterAssumption, StreamInit PROVE StreamInv
  OBVIOUS
<1>1. /\ controller = [u \in Talker |-> [client |-> Absent, muted |-> FALSE, leaving |-> FALSE]]
      /\ clients = <<>> /\ participant = [u \in Talker |-> Absent]
      /\ relay = Receiving /\ net = {} /\ said = 0 /\ overtaken = {} /\ heard = {}
      /\ faults = 0 /\ disturbed = FALSE
  BY DEF StreamInit
<1>2. clients \in Seq(VoiceClient) /\ Len(clients) = 0 /\ \A k \in DOMAIN clients : FALSE
  BY <1>1
<1>3. relay \in [packet : Datagram \cup {Absent}, todo : SUBSET Talker] /\ relay.todo = {}
  BY <1>1 DEF Receiving
<1>4. StreamTypeOK
  <2>1. controller \in [Talker -> [client : ClientId \cup {Absent}, muted : BOOLEAN, leaving : BOOLEAN]]
    BY <1>1
  <2>2. participant \in [Talker -> [room : VoiceRoom, port : ClientId] \cup {Absent}]
    BY <1>1
  <2>3. /\ Len(clients) <= MaxClients /\ said \in 0 .. MaxSaid /\ faults \in 0 .. MaxFaults
    BY <1>1, <1>2 DEF StreamAssumption
  <2>. QED BY <1>1, <1>2, <1>3, <2>1, <2>2, <2>3 DEF StreamTypeOK
<1>5. JitterInv
  BY JitterInitInv DEF StreamInit
<1>6. ControllersFit /\ ClientsFit
  BY <1>1, <1>2 DEF ControllersFit, ClientsFit, HasClient
<1>7. NetFits /\ RelayFits /\ ParticipantsFit /\ HeardWhereSaid
  BY <1>1, <1>3 DEF NetFits, RelayFits, ParticipantsFit, HeardWhereSaid
<1>. QED BY <1>4, <1>5, <1>6, <1>7 DEF StreamInv

LEMMA StreamStutterInv == StreamInv /\ UNCHANGED streamVars => StreamInv'
<1>. SUFFICES ASSUME StreamInv, UNCHANGED streamVars PROVE StreamInv'
  OBVIOUS
<1>1. UNCHANGED <<controller, clients, participant, relay, net, said, overtaken, heard, faults, disturbed,
                  jitterVars>>
  BY DEF streamVars
<1>2. Grown /\ (NetFits' /\ RelayFits' /\ ParticipantsFit' => StreamInv')
  BY <1>1, ServerTypes, ServerStep
<1>. QED BY <1>1, <1>2, NetStays, RelayStays, ParticipantsStay

LEMMA StreamNextInv ==
    ASSUME StreamAssumption, JitterAssumption, StreamInv, [StreamNext]_streamVars
    PROVE  StreamInv'
<1>1. ASSUME NEW u \in Talker, NEW room \in VoiceRoom, Join(u, room) PROVE StreamInv'
  BY <1>1, JoinInv
<1>2. ASSUME NEW u \in Talker, LeaveRoom(u) PROVE StreamInv'
  BY <1>2, LeaveRoomInv
<1>3. ASSUME NEW u \in Talker, Leave(u) PROVE StreamInv'
  BY <1>3, LeaveInv
<1>4. ASSUME NEW u \in Talker, Mute(u) PROVE StreamInv'
  BY <1>4, MuteInv
<1>5. ASSUME NEW u \in Talker, Register(u) PROVE StreamInv'
  BY <1>5, RegisterInv
<1>6. ASSUME NEW u \in Talker, Unregister(u) PROVE StreamInv'
  BY <1>6, UnregisterInv
<1>7. ASSUME NEW u \in Talker, RelayTo(u) PROVE StreamInv'
  BY <1>7, RelayToInv
<1>8. ASSUME NEW k \in DOMAIN clients, Threads(k) PROVE StreamInv'
  <2>1. CASE CaptureFrame(k)
    BY <2>1, CaptureFrameInv
  <2>2. CASE SendFrame(k)
    BY <2>2, SendFrameInv
  <2>3. CASE TakeFrame(k)
    BY <2>3, TakeFrameInv
  <2>4. CASE SendDatagram(k)
    BY <2>4, SendDatagramInv
  <2>. QED BY <1>8, <2>1, <2>2, <2>3, <2>4 DEF Threads
<1>9. ASSUME NEW k \in DOMAIN clients, ReceiveFrame(k) PROVE StreamInv'
  BY <1>9, ReceiveFrameInv
<1>10. CASE ServerReceive
  BY <1>10, ServerReceiveInv
<1>11. CASE Play
  BY <1>11, PlayInv
<1>12. CASE Lose
  BY <1>12, LoseInv
<1>13. CASE Double
  BY <1>13, DoubleInv
<1>14. CASE Quiet \/ UNCHANGED streamVars
  BY <1>14, StreamStutterInv DEF Quiet
<1>. QED
  BY <1>1, <1>2, <1>3, <1>4, <1>5, <1>6, <1>7, <1>8, <1>9, <1>10, <1>11, <1>12, <1>13, <1>14 DEF StreamNext

\* StreamInv holds whatever the threads, the relay and the network do, in whatever
\* order (udp_voice_controller.py, udp_client.py, udp_server.py).
THEOREM StreamInvariant == StreamSpec => []StreamInv
<1>1. StreamInit => StreamInv
  BY StreamAssumption, JitterAssumption, StreamInitInv
<1>2. StreamInv /\ [StreamNext]_streamVars => StreamInv'
  BY StreamAssumption, JitterAssumption, StreamNextInv
<1>. QED BY <1>1, <1>2, PTL DEF StreamSpec

\* A voice is heard in the room it was said in, by somebody else, and never while muted,
\* for any people, rooms and number of joins, and whatever the network loses, doubles
\* and reorders; but for the frames a quick change of rooms overtakes
\* (udp_voice_controller.py:144, udp_client.py:60, udp_server.py:56).
THEOREM HeardWhereItWasSaid == StreamSpec => []HeardWhereSaid
<1>1. StreamInv => HeardWhereSaid
  BY DEF StreamInv
<1>. QED BY <1>1, StreamInvariant, PTL

\* Also behind the network, with the frames the relay sends, a listener plays in order,
\* without a gap and without a repetition, and keeps no more than max_frames
\* (jitter_buffer.py:35).
THEOREM ListenerPlaysInOrder == StreamSpec => [](PlayedInOrder /\ WithinMaxFrames)
<1>1. StreamInv => PlayedInOrder /\ WithinMaxFrames
  BY DEF StreamInv, JitterInv, PlayedInOrder, WithinMaxFrames, Distinct
<1>. QED BY <1>1, StreamInvariant, PTL

------------------------------------------------------------------------------
(* VoiceStream: JitterTypeOK.  A client's frames are numbered from 0 on, so that a number  *)
(* stays below the count of frames captured: none may get two.                             *)

\* The places in client c, the k-th, of frames that are captured, queued, in hand or numbered.
Place(name, k, frame) == {<<name, k, 0>> : f \in {frame} \ {Absent}}

Entries(k, c) ==
    {<<"sent", k, n>> : n \in 0 .. c.sequence - 1} \cup {<<"queue", k, i>> : i \in DOMAIN c.queue}
    \cup Place("captured", k, c.captured) \cup Place("hand", k, c.hand)

EntriesOf(cs) == UNION {Entries(k, cs[k]) : k \in DOMAIN cs}

NumberedOnce == IsFiniteSet(EntriesOf(clients)) /\ Cardinality(EntriesOf(clients)) <= said

\* What is on its way has a number below the bound.
NumbersLow ==
    /\ \A d \in net : d.sequence < MaxSaid
    /\ relay.todo # {} => relay.packet.sequence < MaxSaid

NumbersInv == NumberedOnce /\ NumbersLow /\ JitterTypeOK

\* A set with one element more, or with one in another's place.
LEMMA OneElementMore ==
    ASSUME NEW S, IsFiniteSet(S), NEW y, NEW T \in SUBSET (S \cup {y})
    PROVE  IsFiniteSet(T) /\ Cardinality(T) <= Cardinality(S) + 1
<1>1. /\ IsFiniteSet(S \cup {y}) /\ Cardinality(S) \in Nat
      /\ Cardinality(S \cup {y}) = Cardinality(S) \/ Cardinality(S \cup {y}) = Cardinality(S) + 1
  BY FS_AddElement, FS_CardinalityType
<1>2. IsFiniteSet(T) /\ Cardinality(T) <= Cardinality(S \cup {y})
  BY <1>1, FS_Subset
<1>3. Cardinality(T) \in Nat
  BY <1>2, FS_CardinalityType
<1>. QED BY <1>1, <1>2, <1>3

LEMMA OneForAnother ==
    ASSUME NEW S, IsFiniteSet(S), NEW x \in S, NEW y, NEW T \in SUBSET ((S \ {x}) \cup {y})
    PROVE  IsFiniteSet(T) /\ Cardinality(T) <= Cardinality(S)
<1>1. IsFiniteSet(S \ {x}) /\ Cardinality(S \ {x}) = Cardinality(S) - 1 /\ Cardinality(S) \in Nat
  BY FS_RemoveElement, FS_CardinalityType
<1>2. IsFiniteSet(T) /\ Cardinality(T) <= Cardinality(S \ {x}) + 1
  BY <1>1, OneElementMore
<1>3. Cardinality(T) \in Nat
  BY <1>2, FS_CardinalityType
<1>. QED BY <1>1, <1>2, <1>3

LEMMA NoNewEntry ==
    ASSUME StreamInv, NumberedOnce, EntriesOf(clients)' \subseteq EntriesOf(clients), said' = said
    PROVE  NumberedOnce'
<1>1. /\ IsFiniteSet(EntriesOf(clients)')
      /\ Cardinality(EntriesOf(clients)') <= Cardinality(EntriesOf(clients))
  BY FS_Subset DEF NumberedOnce
<1>2. Cardinality(EntriesOf(clients)) \in Nat /\ Cardinality(EntriesOf(clients)') \in Nat
  BY <1>1, FS_CardinalityType DEF NumberedOnce
<1>3. said \in Nat
  BY DEF StreamInv, StreamTypeOK
<1>. QED BY <1>1, <1>2, <1>3 DEF NumberedOnce

LEMMA EntryMade ==
    ASSUME StreamInv, NumberedOnce, NEW y, EntriesOf(clients)' \subseteq EntriesOf(clients) \cup {y},
           said' = said + 1
    PROVE  NumberedOnce'
<1>1. /\ IsFiniteSet(EntriesOf(clients)')
      /\ Cardinality(EntriesOf(clients)') <= Cardinality(EntriesOf(clients)) + 1
  BY OneElementMore DEF NumberedOnce
<1>2. Cardinality(EntriesOf(clients)) \in Nat /\ Cardinality(EntriesOf(clients)') \in Nat
  BY <1>1, FS_CardinalityType DEF NumberedOnce
<1>3. said \in Nat
  BY DEF StreamInv, StreamTypeOK
<1>. QED BY <1>1, <1>2, <1>3 DEF NumberedOnce

LEMMA EntryMoves ==
    ASSUME StreamInv, NumberedOnce, NEW x \in EntriesOf(clients), NEW y,
           EntriesOf(clients)' \subseteq (EntriesOf(clients) \ {x}) \cup {y}, said' = said
    PROVE  NumberedOnce'
<1>1. /\ IsFiniteSet(EntriesOf(clients)')
      /\ Cardinality(EntriesOf(clients)') <= Cardinality(EntriesOf(clients))
  BY OneForAnother DEF NumberedOnce
<1>2. Cardinality(EntriesOf(clients)) \in Nat /\ Cardinality(EntriesOf(clients)') \in Nat
  BY <1>1, FS_CardinalityType DEF NumberedOnce
<1>3. said \in Nat
  BY DEF StreamInv, StreamTypeOK
<1>. QED BY <1>1, <1>2, <1>3 DEF NumberedOnce

\* An entry is of one client.
LEMMA EntryOfOne ==
    ASSUME NEW k, NEW c, NEW j, NEW d, NEW x \in Entries(k, c), x \in Entries(j, d)
    PROVE  j = k
<1>1. ASSUME NEW i, NEW e, NEW z \in Entries(i, e) PROVE \E name : \E n : z = <<name, i, n>>
  BY <1>1, Zenon DEF Entries, Place
<1>2. PICK a, m : x = <<a, k, m>>
  BY <1>1
<1>3. PICK b, n : x = <<b, j, n>>
  BY <1>1
<1>. QED BY <1>2, <1>3

\* The k-th client becomes c: what is not an entry of c's was one, and of another client.
LEMMA WhoseEntry ==
    ASSUME NEW s, NEW k \in DOMAIN s, NEW c, NEW t, DOMAIN t = DOMAIN s, t[k] = c,
           \A j \in DOMAIN s : j # k => t[j] = s[j],
           NEW z \in EntriesOf(t), z \notin Entries(k, c)
    PROVE  z \in EntriesOf(s) /\ z \notin Entries(k, s[k])
<1>1. PICK j \in DOMAIN t : z \in Entries(j, t[j])
  BY DEF EntriesOf
<1>2. j \in DOMAIN s /\ j # k /\ z \in Entries(j, s[j])
  BY <1>1
<1>3. z \notin Entries(k, s[k])
  BY <1>2, EntryOfOne
<1>. QED BY <1>2, <1>3 DEF EntriesOf

\* It has an entry more, or one less, or one in another's place.
LEMMA NoEntryMore ==
    ASSUME NEW s, NEW k \in DOMAIN s, NEW c, NEW t, DOMAIN t = DOMAIN s, t[k] = c,
           \A j \in DOMAIN s : j # k => t[j] = s[j], Entries(k, c) \subseteq Entries(k, s[k])
    PROVE  EntriesOf(t) \subseteq EntriesOf(s)
<1>1. \A z \in Entries(k, s[k]) : z \in EntriesOf(s)
  BY DEF EntriesOf
<1>2. ASSUME NEW z \in EntriesOf(t) PROVE z \in EntriesOf(s)
  BY <1>1, <1>2, WhoseEntry
<1>. QED BY <1>1, <1>2

LEMMA EntryMore ==
    ASSUME NEW s, NEW k \in DOMAIN s, NEW c, NEW t, DOMAIN t = DOMAIN s, t[k] = c,
           \A j \in DOMAIN s : j # k => t[j] = s[j],
           NEW y, Entries(k, c) \subseteq Entries(k, s[k]) \cup {y}
    PROVE  EntriesOf(t) \subseteq EntriesOf(s) \cup {y}
<1>1. \A z \in Entries(k, s[k]) : z \in EntriesOf(s)
  BY DEF EntriesOf
<1>2. ASSUME NEW z \in EntriesOf(t), z # y PROVE z \in EntriesOf(s)
  BY <1>1, <1>2, WhoseEntry
<1>. QED BY <1>1, <1>2

LEMMA EntryLess ==
    ASSUME NEW s, NEW k \in DOMAIN s, NEW c, NEW t, DOMAIN t = DOMAIN s, t[k] = c,
           \A j \in DOMAIN s : j # k => t[j] = s[j],
           NEW x \in Entries(k, s[k]), Entries(k, c) \subseteq Entries(k, s[k]) \ {x}
    PROVE  EntriesOf(t) \subseteq EntriesOf(s) \ {x} /\ x \in EntriesOf(s)
<1>1. \A z \in Entries(k, s[k]) : z \in EntriesOf(s)
  BY DEF EntriesOf
<1>2. ASSUME NEW z \in EntriesOf(t) PROVE z \in EntriesOf(s) /\ z # x
  BY <1>1, <1>2, WhoseEntry
<1>. QED BY <1>1, <1>2

LEMMA EntryElsewhere ==
    ASSUME NEW s, NEW k \in DOMAIN s, NEW c, NEW t, DOMAIN t = DOMAIN s, t[k] = c,
           \A j \in DOMAIN s : j # k => t[j] = s[j],
           NEW x \in Entries(k, s[k]), NEW y, Entries(k, c) \subseteq (Entries(k, s[k]) \ {x}) \cup {y}
    PROVE  EntriesOf(t) \subseteq (EntriesOf(s) \ {x}) \cup {y} /\ x \in EntriesOf(s)
<1>1. \A z \in Entries(k, s[k]) : z \in EntriesOf(s)
  BY DEF EntriesOf
<1>2. ASSUME NEW z \in EntriesOf(t), z # y PROVE z \in EntriesOf(s) /\ z # x
  BY <1>1, <1>2, WhoseEntry
<1>. QED BY <1>1, <1>2

(* What happens to a client. *)

\* Recorded, sent on or left: no frame is made or moved.
LEMMA SameEntries ==
    ASSUME NEW k, NEW d, NEW c, c.sequence = d.sequence, c.captured = d.captured,
           c.queue = d.queue, c.hand = d.hand
    PROVE  Entries(k, c) = Entries(k, d)
  BY DEF Entries

LEMMA EntryCaptured ==
    ASSUME NEW k, NEW d, NEW c, c.sequence = d.sequence, c.queue = d.queue, c.hand = d.hand
    PROVE  Entries(k, c) \subseteq Entries(k, d) \cup {<<"captured", k, 0>>}
  BY DEF Entries, Place

LEMMA EntrySentOn ==
    ASSUME NEW k, NEW d, NEW c, d.captured # Absent, c.captured = Absent,
           c.sequence = d.sequence, c.queue = d.queue, c.hand = d.hand
    PROVE  /\ <<"captured", k, 0>> \in Entries(k, d)
           /\ Entries(k, c) \subseteq Entries(k, d) \ {<<"captured", k, 0>>}
<1>1. <<"captured", k, 0>> \in Entries(k, d)
  BY DEF Entries, Place
<1>2. ASSUME NEW x \in Entries(k, c) PROVE x \in Entries(k, d) /\ x # <<"captured", k, 0>>
  <2>1. CASE x \in Place("captured", k, c.captured)
    BY <2>1 DEF Place
  <2>2. CASE x \in Place("hand", k, c.hand)
    BY <2>2 DEF Place, Entries
  <2>3. CASE x \in {<<"sent", k, n>> : n \in 0 .. c.sequence - 1}
    BY <2>3 DEF Entries
  <2>4. CASE x \in {<<"queue", k, i>> : i \in DOMAIN c.queue}
    BY <2>4 DEF Entries
  <2>. QED BY <2>1, <2>2, <2>3, <2>4 DEF Entries
<1>. QED BY <1>1, <1>2

LEMMA EntryQueued ==
    ASSUME NEW k, NEW d, NEW c, NEW f \in Frame, d.queue \in Seq(Frame), c.queue = Append(d.queue, f),
           c.sequence = d.sequence, c.captured = d.captured, c.hand = d.hand
    PROVE  Entries(k, c) \subseteq Entries(k, d) \cup {<<"queue", k, Len(c.queue)>>}
<1>1. \A i \in DOMAIN c.queue : i \in DOMAIN d.queue \/ i = Len(c.queue)
  <2>1. ASSUME NEW q \in Seq(Frame) PROVE \A i \in DOMAIN Append(q, f) : i \in DOMAIN q \/ i = Len(Append(q, f))
    OBVIOUS
  <2>. QED BY <2>1
<1>. QED BY <1>1 DEF Entries

LEMMA EntryTaken ==
    ASSUME NEW k, NEW d, NEW c, d.queue \in Seq(Frame), d.queue # <<>>, c.queue = Tail(d.queue),
           c.sequence = d.sequence, c.captured = d.captured
    PROVE  /\ <<"queue", k, Len(d.queue)>> \in Entries(k, d)
           /\ Entries(k, c) \subseteq (Entries(k, d) \ {<<"queue", k, Len(d.queue)>>}) \cup {<<"hand", k, 0>>}
<1>1. /\ Len(d.queue) \in DOMAIN d.queue
      /\ \A i \in DOMAIN c.queue : i \in DOMAIN d.queue /\ i # Len(d.queue)
  <2>1. ASSUME NEW q \in Seq(Frame), q # <<>>
        PROVE  Len(q) \in DOMAIN q /\ \A i \in DOMAIN Tail(q) : i \in DOMAIN q /\ i # Len(q)
    BY <2>1
  <2>. QED BY <2>1
<1>2. <<"queue", k, Len(d.queue)>> \in Entries(k, d)
  BY <1>1 DEF Entries
<1>3. ASSUME NEW x \in Entries(k, c), x # <<"hand", k, 0>>
      PROVE  x \in Entries(k, d) /\ x # <<"queue", k, Len(d.queue)>>
  <2>1. CASE x \in Place("captured", k, c.captured)
    BY <2>1 DEF Place, Entries
  <2>2. CASE x \in Place("hand", k, c.hand)
    BY <1>3, <2>2 DEF Place
  <2>3. CASE x \in {<<"sent", k, n>> : n \in 0 .. c.sequence - 1}
    BY <2>3 DEF Entries
  <2>4. CASE x \in {<<"queue", k, i>> : i \in DOMAIN c.queue}
    BY <1>1, <2>4 DEF Entries
  <2>. QED BY <2>1, <2>2, <2>3, <2>4 DEF Entries
<1>. QED BY <1>2, <1>3

LEMMA EntryNumbered ==
    ASSUME NEW k, NEW d, NEW c, d.hand # Absent, c.hand = Absent, d.sequence \in Nat,
           c.sequence = d.sequence + 1, c.captured = d.captured, c.queue = d.queue
    PROVE  /\ <<"hand", k, 0>> \in Entries(k, d)
           /\ Entries(k, c) \subseteq (Entries(k, d) \ {<<"hand", k, 0>>}) \cup {<<"sent", k, d.sequence>>}
<1>1. <<"hand", k, 0>> \in Entries(k, d)
  BY DEF Entries, Place
<1>2. \A n \in 0 .. c.sequence - 1 : n \in 0 .. d.sequence - 1 \/ n = d.sequence
  OBVIOUS
<1>3. ASSUME NEW x \in Entries(k, c), x # <<"sent", k, d.sequence>>
      PROVE  x \in Entries(k, d) /\ x # <<"hand", k, 0>>
  <2>1. CASE x \in Place("captured", k, c.captured)
    BY <2>1 DEF Place, Entries
  <2>2. CASE x \in Place("hand", k, c.hand)
    BY <2>2 DEF Place
  <2>3. CASE x \in {<<"sent", k, n>> : n \in 0 .. c.sequence - 1}
    BY <1>2, <1>3, <2>3 DEF Entries
  <2>4. CASE x \in {<<"queue", k, i>> : i \in DOMAIN c.queue}
    BY <2>4 DEF Entries
  <2>. QED BY <2>1, <2>2, <2>3, <2>4 DEF Entries
<1>. QED BY <1>1, <1>3

LEMMA EntryDropped ==
    ASSUME NEW k, NEW d, NEW c, c.hand = Absent,
           c.sequence = d.sequence, c.captured = d.captured, c.queue = d.queue
    PROVE  Entries(k, c) \subseteq Entries(k, d)
  BY DEF Entries, Place

\* The frame in a client's hand and those it has numbered are among the entries.
LEMMA NumberIsLow ==
    ASSUME StreamInv, NumberedOnce, NEW k \in DOMAIN clients, clients[k].hand # Absent
    PROVE  clients[k].sequence < MaxSaid
<1> DEFINE n == clients[k].sequence
           f == [i \in 0 .. n |-> IF i < n THEN <<"sent", k, i>> ELSE <<"hand", k, 0>>]
<1>1. n \in Nat /\ said \in 0 .. MaxSaid
  BY ClientFacts DEF StreamInv, StreamTypeOK
<1>2. Entries(k, clients[k]) \subseteq EntriesOf(clients)
  BY DEF EntriesOf
<1>3. <<"hand", k, 0>> \in EntriesOf(clients) /\ \A i \in 0 .. n - 1 : <<"sent", k, i>> \in EntriesOf(clients)
  BY <1>2 DEF Entries, Place
<1> HIDE DEF n
<1>4. f \in Injection(0 .. n, EntriesOf(clients))
  <2>1. ASSUME NEW i \in 0 .. n PROVE f[i] \in EntriesOf(clients)
    BY <1>1, <1>3
  <2>2. ASSUME NEW i \in 0 .. n, NEW j \in 0 .. n, f[i] = f[j] PROVE i = j
    BY <1>1, <2>2
  <2>. QED BY <2>1, <2>2 DEF Injection, IsInjective
<1>5. Cardinality(0 .. n) <= Cardinality(EntriesOf(clients))
  BY <1>4, FS_Injection DEF NumberedOnce
<1>6. Cardinality(0 .. n) = n + 1
  BY <1>1, FS_Interval
<1>7. Cardinality(EntriesOf(clients)) \in Nat
  BY FS_CardinalityType DEF NumberedOnce
<1>8. n < MaxSaid
  BY <1>1, <1>5, <1>6, <1>7, StreamAssumption DEF NumberedOnce, StreamAssumption
<1>. QED BY <1>8 DEF n

(* The buffer's methods. *)

LEMMA AddFrameTypes ==
    ASSUME JitterTypeOK, JitterAssumption, NEW n \in Sequence, AddFrame(n)
    PROVE  JitterTypeOK'
<1>1. buffer \in Seq(Sequence) /\ n \in Nat /\ n <= MaxSequence
  BY DEF JitterTypeOK, Sequence, JitterAssumption
<1>2. Kept(Append(buffer, n)) \in Seq(Sequence)
  <2>1. Append(buffer, n) \in Seq(Sequence) /\ Append(buffer, n) # <<>>
    BY <1>1
  <2>2. ASSUME NEW s \in Seq(Sequence), s # <<>> PROVE Tail(s) \in Seq(Sequence)
    BY <2>2
  <2>. QED BY <2>1, <2>2 DEF Kept
<1>3. buffer' \in Seq(Sequence)
  BY <1>1, <1>2 DEF AddFrame
<1>4. next' \in 0 .. MaxSequence + 1
  BY <1>1 DEF AddFrame, JitterTypeOK, JitterAssumption
<1>5. started' \in BOOLEAN /\ played' \in Seq(Sequence)
  BY DEF AddFrame, JitterTypeOK
<1>. QED BY <1>3, <1>4, <1>5 DEF JitterTypeOK

LEMMA GetFrameTypes ==
    ASSUME JitterTypeOK, JitterAssumption, GetFrame
    PROVE  JitterTypeOK'
<1>1. PICK i \in DOMAIN buffer :
        /\ buffer[i] = next
        /\ buffer' = Without(buffer, i)
        /\ next' = next + 1 /\ played' = Append(played, next)
        /\ UNCHANGED started
  BY DEF GetFrame
<1>2. /\ buffer \in Seq(Sequence) /\ DOMAIN buffer = 1 .. Len(buffer) /\ Len(buffer) \in Nat
      /\ next \in Sequence
  <2>1. buffer \in Seq(Sequence)
    BY DEF JitterTypeOK
  <2>. QED BY <1>1, <2>1
<1>3. Without(buffer, i) \in Seq(Sequence)
  <2>1. Len(buffer) - 1 \in Nat
    BY <1>2
  <2>2. Without(buffer, i) \in [1 .. Len(buffer) - 1 -> Sequence]
    BY <1>2 DEF Without
  <2>3. ASSUME NEW n \in Nat, NEW s \in [1 .. n -> Sequence] PROVE s \in Seq(Sequence)
    OBVIOUS
  <2>. QED BY <2>1, <2>2, <2>3
<1>4. next' \in 0 .. MaxSequence + 1
  BY <1>1, <1>2, JitterAssumption DEF Sequence, JitterAssumption
<1>5. played' \in Seq(Sequence) /\ started' \in BOOLEAN
  BY <1>1, <1>2 DEF JitterTypeOK
<1>. QED BY <1>1, <1>3, <1>4, <1>5 DEF JitterTypeOK

LEMMA EmptyTypes == <<>> \in Seq(Sequence) /\ 0 \in 0 .. MaxSequence + 1
  BY JitterAssumption DEF JitterAssumption

LEMMA FlushTypes == JitterTypeOK /\ Flush => JitterTypeOK'
<1>1. Flush => buffer' \in Seq(Sequence)
  BY EmptyTypes, Zenon DEF Flush
<1>. QED BY <1>1 DEF JitterTypeOK, Flush

LEMMA JitterInitTypes == JitterInit => JitterTypeOK
<1>1. JitterInit => /\ buffer \in Seq(Sequence) /\ played \in Seq(Sequence)
                    /\ next \in 0 .. MaxSequence + 1 /\ started \in BOOLEAN
  BY EmptyTypes, Zenon DEF JitterInit
<1>. QED BY <1>1 DEF JitterTypeOK

LEMMA JitterTypesStay == JitterTypeOK /\ UNCHANGED jitterVars => JitterTypeOK'
  BY DEF JitterTypeOK, jitterVars

\* Whoever calls its methods, with numbers up to MaxSequence, the buffer is as declared
\* (jitter_buffer.py).
THEOREM BufferTypes == JitterSpec => []JitterTypeOK
<1>1. JitterInit => JitterTypeOK
  BY JitterInitTypes
<1>2. JitterTypeOK /\ [JitterNext]_jitterVars => JitterTypeOK'
  BY JitterAssumption, AddFrameTypes, GetFrameTypes, FlushTypes, JitterTypesStay DEF JitterNext
<1>. QED BY <1>1, <1>2, PTL DEF JitterSpec

(* The actions. *)

LEMMA WayStays == NumbersLow /\ net' \subseteq net /\ relay' = relay => NumbersLow'
  BY DEF NumbersLow

LEMMA CalmNumbers ==
    ASSUME StreamInv, NumbersInv, clients' = clients, said' = said, NumbersLow', JitterTypeOK'
    PROVE  NumbersInv'
  BY NoNewEntry DEF NumbersInv

LEMMA JoinNumbers ==
    ASSUME StreamInv, NumbersInv, NEW u \in Talker, NEW room \in VoiceRoom, Join(u, room)
    PROVE  NumbersInv'
<1> DEFINE new == [user |-> u, room |-> room, running |-> TRUE, recording |-> TRUE, sequence |-> 0,
                   captured |-> Absent, queue |-> <<>>, hand |-> Absent]
<1>1. /\ clients' = Append(clients, new)
      /\ UNCHANGED <<participant, relay, net, said, overtaken, heard, faults, disturbed, jitterVars>>
  BY DEF Join
<1>2. clients \in Seq(VoiceClient)
  BY DEF StreamInv, StreamTypeOK
<1>3. Entries(Len(clients) + 1, new) = {}
  BY DEF Entries, Place
<1> HIDE DEF new
<1>4. /\ DOMAIN clients' = DOMAIN clients \cup {Len(clients) + 1}
      /\ clients'[Len(clients) + 1] = new /\ \A j \in DOMAIN clients : clients'[j] = clients[j]
  BY <1>1, <1>2
<1>5. EntriesOf(clients)' \subseteq EntriesOf(clients)
  BY <1>3, <1>4 DEF EntriesOf
<1>. QED BY <1>1, <1>5, NoNewEntry, WayStays, JitterTypesStay DEF NumbersInv

\* The k-th client becomes d, without a frame more.
LEMMA SameFrames ==
    ASSUME StreamInv, NumbersInv, NEW k \in DOMAIN clients, NEW d, clients' = [clients EXCEPT ![k] = d],
           Entries(k, d) \subseteq Entries(k, clients[k]),
           said' = said, NumbersLow', JitterTypeOK'
    PROVE  NumbersInv'
<1>1. /\ DOMAIN clients' = DOMAIN clients /\ clients'[k] = d
      /\ \A j \in DOMAIN clients : j # k => clients'[j] = clients[j]
  <2>1. clients \in Seq(VoiceClient)
    BY DEF StreamInv, StreamTypeOK
  <2>. QED BY <2>1
<1>2. EntriesOf(clients') \subseteq EntriesOf(clients)
  BY <1>1, NoEntryMore
<1>3. EntriesOf(clients)' \subseteq EntriesOf(clients)
  BY <1>2
<1>. QED BY <1>3, NoNewEntry DEF NumbersInv

LEMMA LeaveRoomNumbers ==
    ASSUME StreamInv, NumbersInv, NEW u \in Talker, LeaveRoom(u)
    PROVE  NumbersInv'
<1>1. PICK k : k = controller[u].client
  OBVIOUS
<1>2. /\ HasClient(u) /\ clients' = [clients EXCEPT ![k].recording = FALSE, ![k].room = Absent]
      /\ UNCHANGED <<participant, relay, net, said, heard, faults, jitterVars>>
  BY <1>1 DEF LeaveRoom
<1>3. k \in DOMAIN clients /\ clients[k] \in VoiceClient
  BY <1>1, <1>2, ClientFacts DEF StreamInv, ControllersFit
<1>4. PICK d : d = [clients[k] EXCEPT !.recording = FALSE, !.room = Absent]
  OBVIOUS
<1>5. clients' = [clients EXCEPT ![k] = d]
  BY <1>2, <1>4
<1>6. /\ d.sequence = clients[k].sequence /\ d.captured = clients[k].captured
      /\ d.queue = clients[k].queue /\ d.hand = clients[k].hand
  BY <1>3, <1>4 DEF VoiceClient
<1>7. Entries(k, d) \subseteq Entries(k, clients[k])
  BY <1>6, SameEntries
<1>8. NumbersLow' /\ JitterTypeOK'
  BY <1>2, WayStays, JitterTypesStay DEF NumbersInv
<1>. QED BY <1>2, <1>3, <1>5, <1>7, <1>8, SameFrames

LEMMA LeaveNumbers ==
    ASSUME StreamInv, NumbersInv, NEW u \in Talker, Leave(u)
    PROVE  NumbersInv'
<1>1. PICK k : k = controller[u].client
  OBVIOUS
<1>2. /\ controller[u].leaving /\ clients' = [clients EXCEPT ![k].running = FALSE]
      /\ Flush \/ UNCHANGED jitterVars
      /\ UNCHANGED <<participant, relay, net, said, overtaken, heard, faults, disturbed>>
  BY <1>1 DEF Leave
<1>3. k \in DOMAIN clients /\ clients[k] \in VoiceClient
  BY <1>1, <1>2, ClientFacts DEF StreamInv, ControllersFit
<1>4. PICK d : d = [clients[k] EXCEPT !.running = FALSE]
  OBVIOUS
<1>5. clients' = [clients EXCEPT ![k] = d]
  BY <1>2, <1>4
<1>6. /\ d.sequence = clients[k].sequence /\ d.captured = clients[k].captured
      /\ d.queue = clients[k].queue /\ d.hand = clients[k].hand
  BY <1>3, <1>4 DEF VoiceClient
<1>7. Entries(k, d) \subseteq Entries(k, clients[k])
  BY <1>6, SameEntries
<1>8. NumbersLow' /\ JitterTypeOK'
  BY <1>2, WayStays, FlushTypes, JitterTypesStay DEF NumbersInv
<1>. QED BY <1>2, <1>3, <1>5, <1>7, <1>8, SameFrames

LEMMA CaptureFrameNumbers ==
    ASSUME StreamInv, NumbersInv, NEW k \in DOMAIN clients, CaptureFrame(k)
    PROVE  NumbersInv'
<1>1. PICK f : f = [id |-> said + 1, by |-> clients[k].user, said |-> clients[k].room,
                    muted |-> controller[clients[k].user].muted]
  OBVIOUS
<1>2. /\ said' = said + 1 /\ clients' = [clients EXCEPT ![k].captured = f]
      /\ UNCHANGED <<controller, participant, relay, net, overtaken, heard, faults, disturbed, jitterVars>>
  BY <1>1 DEF CaptureFrame
<1>3. clients \in Seq(VoiceClient) /\ clients[k] \in VoiceClient
  BY ClientFacts
<1>4. PICK d : d = [clients[k] EXCEPT !.captured = f]
  OBVIOUS
<1>5. /\ DOMAIN clients' = DOMAIN clients /\ clients'[k] = d
      /\ \A j \in DOMAIN clients : j # k => clients'[j] = clients[j]
  BY <1>2, <1>3, <1>4
<1>6. d.sequence = clients[k].sequence /\ d.queue = clients[k].queue /\ d.hand = clients[k].hand
  BY <1>3, <1>4 DEF VoiceClient
<1>7. PICK y : y = <<"captured", k, 0>> /\ Entries(k, d) \subseteq Entries(k, clients[k]) \cup {y}
  BY <1>6, EntryCaptured
<1>8. EntriesOf(clients') \subseteq EntriesOf(clients) \cup {y}
  BY <1>5, <1>7, EntryMore
<1>9. EntriesOf(clients)' \subseteq EntriesOf(clients) \cup {y}
  BY <1>8
<1>. QED BY <1>2, <1>9, EntryMade, WayStays, JitterTypesStay DEF NumbersInv

LEMMA SendFrameNumbers ==
    ASSUME StreamInv, NumbersInv, NEW k \in DOMAIN clients, SendFrame(k)
    PROVE  NumbersInv'
<1>1. PICK now, f, s : now = controller[clients[k].user].client /\ f = clients[k].captured
                       /\ s = [clients EXCEPT ![k].captured = Absent]
  OBVIOUS
<1>2. /\ clients' = (IF now = Absent THEN s ELSE [s EXCEPT ![now].queue = Append(@, f)])
      /\ UNCHANGED <<controller, participant, relay, net, said, overtaken, heard, faults, disturbed, jitterVars>>
      /\ f # Absent
  BY <1>1 DEF SendFrame
<1>3. clients \in Seq(VoiceClient) /\ clients[k] \in VoiceClient /\ f \in Frame
  BY <1>1, <1>2, ClientFacts
<1>4. PICK d : d = [clients[k] EXCEPT !.captured = Absent]
  OBVIOUS
<1>5. /\ DOMAIN s = DOMAIN clients /\ s[k] = d
      /\ \A j \in DOMAIN clients : j # k => s[j] = clients[j]
  BY <1>1, <1>3, <1>4
<1>6. /\ d \in VoiceClient /\ d.captured = Absent
      /\ d.sequence = clients[k].sequence /\ d.queue = clients[k].queue /\ d.hand = clients[k].hand
  BY <1>3, <1>4 DEF VoiceClient
<1>7. PICK x : /\ x = <<"captured", k, 0>> /\ x \in Entries(k, clients[k])
               /\ Entries(k, d) \subseteq Entries(k, clients[k]) \ {x}
  BY <1>1, <1>2, <1>6, EntrySentOn
<1>8. EntriesOf(s) \subseteq EntriesOf(clients) \ {x} /\ x \in EntriesOf(clients)
  BY <1>5, <1>7, EntryLess
<1>9. NumberedOnce'
  <2>1. CASE now = Absent
    BY <1>2, <1>8, <2>1, NoNewEntry DEF NumbersInv
  <2>2. CASE now # Absent
    <3>1. now \in DOMAIN s /\ s[now] \in VoiceClient
      <4>1. now \in DOMAIN clients
        <5>1. clients[k].user \in Talker
          BY ClientFacts
        <5>. QED BY <1>1, <2>2, <5>1 DEF StreamInv, ControllersFit, HasClient
      <4>2. clients[now] \in VoiceClient
        BY <4>1, ClientFacts
      <4>. QED BY <1>5, <1>6, <4>1, <4>2
    <3>2. PICK e : e = [s[now] EXCEPT !.queue = Append(s[now].queue, f)]
      OBVIOUS
    <3>3. /\ DOMAIN clients' = DOMAIN s /\ clients'[now] = e
          /\ \A j \in DOMAIN s : j # now => clients'[j] = s[j]
      BY <1>2, <2>2, <3>1, <3>2
    <3>4. /\ s[now].queue \in Seq(Frame) /\ e.queue = Append(s[now].queue, f)
          /\ e.sequence = s[now].sequence /\ e.captured = s[now].captured /\ e.hand = s[now].hand
      BY <3>1, <3>2 DEF VoiceClient
    <3>5. PICK y : y = <<"queue", now, Len(e.queue)>>
      OBVIOUS
    <3>6. Entries(now, e) \subseteq Entries(now, s[now]) \cup {y}
      BY <1>3, <3>4, <3>5, EntryQueued
    <3>7. EntriesOf(clients') \subseteq EntriesOf(s) \cup {y}
      BY <3>1, <3>3, <3>6, EntryMore
    <3>8. EntriesOf(clients)' \subseteq (EntriesOf(clients) \ {x}) \cup {y}
      BY <1>8, <3>7
    <3>. QED BY <1>2, <1>8, <3>8, EntryMoves DEF NumbersInv
  <2>. QED BY <2>1, <2>2
<1>. QED BY <1>2, <1>9, WayStays, JitterTypesStay DEF NumbersInv

LEMMA TakeFrameNumbers ==
    ASSUME StreamInv, NumbersInv, NEW k \in DOMAIN clients, TakeFrame(k)
    PROVE  NumbersInv'
<1>1. PICK q, h : q = Tail(clients[k].queue)
                  /\ h = IF clients[k].room = Absent THEN Absent ELSE Head(clients[k].queue)
  OBVIOUS
<1>2. /\ clients[k].queue # <<>> /\ clients' = [clients EXCEPT ![k].queue = q, ![k].hand = h]
      /\ UNCHANGED <<controller, participant, relay, net, said, overtaken, heard, faults, disturbed, jitterVars>>
  BY <1>1 DEF TakeFrame
<1>3. clients \in Seq(VoiceClient) /\ clients[k] \in VoiceClient /\ clients[k].queue \in Seq(Frame)
  BY ClientFacts
<1>4. PICK d : d = [clients[k] EXCEPT !.queue = q, !.hand = h]
  OBVIOUS
<1>5. /\ DOMAIN clients' = DOMAIN clients /\ clients'[k] = d
      /\ \A j \in DOMAIN clients : j # k => clients'[j] = clients[j]
  BY <1>2, <1>3, <1>4
<1>6. d.sequence = clients[k].sequence /\ d.captured = clients[k].captured /\ d.queue = q
  BY <1>3, <1>4 DEF VoiceClient
<1>7. PICK x, y : x = <<"queue", k, Len(clients[k].queue)>> /\ y = <<"hand", k, 0>>
  OBVIOUS
<1>8. /\ x \in Entries(k, clients[k])
      /\ Entries(k, d) \subseteq (Entries(k, clients[k]) \ {x}) \cup {y}
  BY <1>1, <1>2, <1>3, <1>6, <1>7, EntryTaken
<1>9. EntriesOf(clients') \subseteq (EntriesOf(clients) \ {x}) \cup {y} /\ x \in EntriesOf(clients)
  BY <1>5, <1>8, EntryElsewhere
<1>10. EntriesOf(clients)' \subseteq (EntriesOf(clients) \ {x}) \cup {y}
  BY <1>9
<1>. QED BY <1>2, <1>9, <1>10, EntryMoves, WayStays, JitterTypesStay DEF NumbersInv

LEMMA SendDatagramNumbers ==
    ASSUME StreamInv, NumbersInv, NEW k \in DOMAIN clients, SendDatagram(k)
    PROVE  NumbersInv'
<1>1. PICK p : p = [to |-> Server, sender |-> clients[k].user, room |-> clients[k].room,
                    sequence |-> clients[k].sequence, frame |-> clients[k].hand, copy |-> FALSE]
  OBVIOUS
<1>2. /\ clients[k].hand # Absent
      /\ UNCHANGED <<controller, participant, relay, said, overtaken, heard, faults, disturbed, jitterVars>>
      /\ \/ /\ net' = net \cup {p}
            /\ clients' = [clients EXCEPT ![k].hand = Absent, ![k].sequence = @ + 1]
         \/ clients' = [clients EXCEPT ![k].hand = Absent] /\ net' = net
  BY <1>1 DEF SendDatagram
<1>3. clients \in Seq(VoiceClient) /\ clients[k] \in VoiceClient /\ clients[k].sequence \in Nat
  BY ClientFacts
<1>4. clients[k].sequence < MaxSaid
  BY <1>2, NumberIsLow DEF NumbersInv
<1>5. NumbersLow' /\ JitterTypeOK'
  <2>1. p.sequence = clients[k].sequence
    BY <1>1
  <2>2. NumbersLow'
    BY <1>2, <1>4, <2>1 DEF NumbersInv, NumbersLow
  <2>. QED BY <1>2, <2>2, JitterTypesStay DEF NumbersInv
<1>6. CASE clients' = [clients EXCEPT ![k].hand = Absent, ![k].sequence = @ + 1]
  <2>1. PICK d : d = [clients[k] EXCEPT !.hand = Absent, !.sequence = clients[k].sequence + 1]
    OBVIOUS
  <2>2. /\ DOMAIN clients' = DOMAIN clients /\ clients'[k] = d
        /\ \A j \in DOMAIN clients : j # k => clients'[j] = clients[j]
    BY <1>3, <1>6, <2>1
  <2>3. /\ d.sequence = clients[k].sequence + 1 /\ d.captured = clients[k].captured
        /\ d.queue = clients[k].queue /\ d.hand = Absent
    BY <1>3, <2>1 DEF VoiceClient
  <2>4. PICK x, y : x = <<"hand", k, 0>> /\ y = <<"sent", k, clients[k].sequence>>
    OBVIOUS
  <2>5. /\ x \in Entries(k, clients[k])
        /\ Entries(k, d) \subseteq (Entries(k, clients[k]) \ {x}) \cup {y}
    BY <1>2, <1>3, <2>3, <2>4, EntryNumbered
  <2>6. EntriesOf(clients') \subseteq (EntriesOf(clients) \ {x}) \cup {y} /\ x \in EntriesOf(clients)
    BY <2>2, <2>5, EntryElsewhere
  <2>7. EntriesOf(clients)' \subseteq (EntriesOf(clients) \ {x}) \cup {y}
    BY <2>6
  <2>. QED BY <1>2, <1>5, <2>6, <2>7, EntryMoves DEF NumbersInv
<1>7. CASE clients' = [clients EXCEPT ![k].hand = Absent]
  <2>1. PICK d : d = [clients[k] EXCEPT !.hand = Absent]
    OBVIOUS
  <2>2. clients' = [clients EXCEPT ![k] = d]
    BY <1>7, <2>1
  <2>3. /\ d.sequence = clients[k].sequence /\ d.captured = clients[k].captured
        /\ d.queue = clients[k].queue /\ d.hand = Absent
    BY <1>3, <2>1 DEF VoiceClient
  <2>4. Entries(k, d) \subseteq Entries(k, clients[k])
    BY <2>3, EntryDropped
  <2>. QED BY <1>2, <1>5, <2>2, <2>4, SameFrames
<1>. QED BY <1>2, <1>6, <1>7

LEMMA ReceiveFrameNumbers ==
    ASSUME StreamInv, NumbersInv, NEW k \in DOMAIN clients, ReceiveFrame(k)
    PROVE  NumbersInv'
<1>1. PICK d \in net :
        /\ net' = net \ {d}
        /\ AddFrame(d.sequence) \/ UNCHANGED jitterVars
        /\ UNCHANGED <<controller, clients, participant, relay, said, overtaken, faults>>
  BY DEF ReceiveFrame
<1>2. d.sequence \in Sequence
  <2>1. d \in Datagram /\ d.sequence < MaxSaid
    BY DEF StreamInv, StreamTypeOK, NumbersInv, NumbersLow
  <2>2. d.sequence \in Nat
    BY <2>1 DEF Datagram
  <2>. QED BY <2>1, <2>2, StreamAssumption, JitterAssumption DEF StreamAssumption, JitterAssumption, Sequence
<1>3. JitterTypeOK'
  BY <1>1, <1>2, JitterAssumption, AddFrameTypes, JitterTypesStay DEF NumbersInv
<1>. QED BY <1>1, <1>3, CalmNumbers, WayStays DEF NumbersInv

LEMMA ServerReceiveNumbers ==
    ASSUME StreamInv, NumbersInv, ServerReceive
    PROVE  NumbersInv'
<1>1. PICK d \in net :
        /\ net' = net \ {d}
        /\ relay' = IF Listeners(d) = {} THEN Receiving ELSE [packet |-> d, todo |-> Listeners(d)]
        /\ UNCHANGED <<controller, clients, participant, said, overtaken, heard, faults, jitterVars>>
  BY DEF ServerReceive
<1>2. NumbersLow'
  BY <1>1 DEF NumbersInv, NumbersLow, Receiving
<1>. QED BY <1>1, <1>2, CalmNumbers, JitterTypesStay DEF NumbersInv

LEMMA RelayToNumbers ==
    ASSUME StreamInv, NumbersInv, NEW u \in Talker, RelayTo(u)
    PROVE  NumbersInv'
<1>1. PICK d : d = [relay.packet EXCEPT !.to = participant[u].port]
  OBVIOUS
<1>2. /\ u \in relay.todo
      /\ relay' = IF relay.todo = {u} THEN Receiving ELSE [relay EXCEPT !.todo = @ \ {u}]
      /\ net' \subseteq net \cup {d}
      /\ UNCHANGED <<controller, clients, participant, said, overtaken, heard, faults, disturbed, jitterVars>>
  BY <1>1 DEF RelayTo
<1>3. relay.packet \in Datagram /\ relay \in [packet : Datagram \cup {Absent}, todo : SUBSET Talker]
  BY <1>2, ServerTypes DEF StreamInv, RelayFits
<1>4. d.sequence = relay.packet.sequence /\ relay.packet.sequence < MaxSaid
  BY <1>1, <1>2, <1>3 DEF Datagram, NumbersInv, NumbersLow
<1>5. relay'.todo # {} => relay'.packet = relay.packet
  BY <1>2, <1>3 DEF Receiving
<1>6. NumbersLow'
  BY <1>2, <1>4, <1>5 DEF NumbersInv, NumbersLow
<1>. QED BY <1>2, <1>6, CalmNumbers, JitterTypesStay DEF NumbersInv

LEMMA DoubleNumbers ==
    ASSUME StreamInv, NumbersInv, Double
    PROVE  NumbersInv'
<1>1. PICK d \in net :
        /\ net' = net \cup {[d EXCEPT !.copy = TRUE]}
        /\ UNCHANGED <<controller, clients, participant, relay, said, overtaken, heard, disturbed, jitterVars>>
  BY DEF Double
<1>2. [d EXCEPT !.copy = TRUE].sequence = d.sequence
  <2>1. d \in Datagram
    BY DEF StreamInv, StreamTypeOK
  <2>. QED BY <2>1 DEF Datagram
<1>3. NumbersLow'
  BY <1>1, <1>2 DEF NumbersInv, NumbersLow
<1>. QED BY <1>1, <1>3, CalmNumbers, JitterTypesStay DEF NumbersInv

LEMMA StreamNumbers ==
    ASSUME StreamInv, NumbersInv, [StreamNext]_streamVars
    PROVE  NumbersInv'
<1>1. ASSUME NEW u \in Talker, NEW room \in VoiceRoom, Join(u, room) PROVE NumbersInv'
  BY <1>1, JoinNumbers
<1>2. ASSUME NEW u \in Talker, LeaveRoom(u) \/ Leave(u) PROVE NumbersInv'
  BY <1>2, LeaveRoomNumbers, LeaveNumbers
<1>3. ASSUME NEW u \in Talker, Mute(u) \/ Register(u) \/ Unregister(u) PROVE NumbersInv'
  <2>1. UNCHANGED <<clients, relay, net, said, jitterVars>>
    BY <1>3 DEF Mute, Register, Unregister
  <2>. QED BY <2>1, CalmNumbers, WayStays, JitterTypesStay DEF NumbersInv
<1>4. ASSUME NEW u \in Talker, RelayTo(u) PROVE NumbersInv'
  BY <1>4, RelayToNumbers
<1>5. ASSUME NEW k \in DOMAIN clients, Threads(k) \/ ReceiveFrame(k) PROVE NumbersInv'
  BY <1>5, CaptureFrameNumbers, SendFrameNumbers, TakeFrameNumbers, SendDatagramNumbers,
     ReceiveFrameNumbers DEF Threads
<1>6. CASE ServerReceive
  BY <1>6, ServerReceiveNumbers
<1>7. CASE Play
  <2>1. GetFrame /\ UNCHANGED <<clients, relay, net, said>>
    BY <1>7 DEF Play
  <2>. QED BY <2>1, JitterAssumption, GetFrameTypes, CalmNumbers, WayStays DEF NumbersInv
<1>8. CASE Lose
  <2>1. net' \subseteq net /\ UNCHANGED <<clients, relay, said, jitterVars>>
    BY <1>8 DEF Lose
  <2>. QED BY <2>1, CalmNumbers, WayStays, JitterTypesStay DEF NumbersInv
<1>9. CASE Double
  BY <1>9, DoubleNumbers
<1>10. CASE Quiet \/ UNCHANGED streamVars
  <2>1. UNCHANGED <<clients, relay, net, said, jitterVars>>
    BY <1>10 DEF Quiet, streamVars
  <2>. QED BY <2>1, CalmNumbers, WayStays, JitterTypesStay DEF NumbersInv
<1>. QED BY <1>1, <1>2, <1>3, <1>4, <1>5, <1>6, <1>7, <1>8, <1>9, <1>10 DEF StreamNext

\* However users join, leave and come back while a capture thread holds a frame, the frames
\* numbered, in hand, queued and captured are together never more than the frames that were
\* recorded: no frame is sent under two numbers (udp_client.py:51), and no datagram on its way
\* bears a number beyond them.
THEOREM OneNumberEach == StreamSpec => []NumbersInv
<1>1. StreamInit => NumbersInv
  <2>1. ASSUME StreamInit PROVE NumberedOnce
    <3>1. clients = <<>> /\ said = 0
      BY <2>1 DEF StreamInit
    <3>2. EntriesOf(clients) = {}
      BY <3>1 DEF EntriesOf
    <3>. QED BY <3>1, <3>2, FS_EmptySet DEF NumberedOnce
  <2>2. ASSUME StreamInit PROVE NumbersLow
    BY <2>2 DEF StreamInit, NumbersLow, Receiving
  <2>3. ASSUME StreamInit PROVE JitterTypeOK
    BY <2>3, JitterInitTypes DEF StreamInit
  <2>. QED BY <2>1, <2>2, <2>3 DEF NumbersInv
<1>2. StreamInv /\ NumbersInv /\ [StreamNext]_streamVars => NumbersInv'
  BY StreamNumbers
<1>. QED BY <1>1, <1>2, StreamInvariant, PTL DEF StreamSpec

\* Of every voice client, datagram and buffer, for any number of users and joins.
THEOREM StreamTypes == StreamSpec => [](StreamTypeOK /\ JitterTypeOK)
<1>1. StreamInv /\ NumbersInv => StreamTypeOK /\ JitterTypeOK
  BY DEF StreamInv, NumbersInv
<1>. QED BY <1>1, StreamInvariant, OneNumberEach, PTL

------------------------------------------------------------------------------
(* The whole of MCDesktop: each of its three parts takes the steps of its own specification.   *)

\* A step of one part leaves the other two as they are (MCDesktop): the theorems about the
\* desktop client, the voice stream and the transfers hold of the run as a whole.
THEOREM ClientRuns == ClientSpec => DesktopSpec /\ StreamSpec /\ Spec
<1>1. ClientInit => DesktopInit /\ StreamInit /\ Init
  BY DEF ClientInit
<1>. DEFINE step == [WindowsStep \/ VoiceStep \/ FilesStep]_<<desktopVars, streamVars, vars>>
<1>2. step => [DesktopNext]_desktopVars /\ [StreamNext]_streamVars /\ [Next]_vars
  BY Zenon DEF WindowsStep, VoiceStep, FilesStep
<1>. QED BY <1>1, <1>2, PTL DEF ClientSpec, DesktopSpec, StreamSpec, Spec

\* All the state of the desktop client, whatever is chosen, clicked and received in whatever
\* order, of the voice stream and of the listener's buffer is of its kind, for any bounds:
\* among others the server reads no more than MaxPackets packets of a handshake
\* (server.py:70), counts of unread messages stay within the messages there are, and no
\* frame's number goes beyond the frames that were said.
THEOREM ClientTypes == ClientSpec => []ClientTypeOK
<1>1. LoginInv /\ WindowInv /\ StreamTypeOK /\ JitterTypeOK => ClientTypeOK
  BY DEF LoginInv, WindowInv, ClientTypeOK
<1>. QED BY <1>1, ClientRuns, DesktopSignInInvariant, WindowInvariant, StreamTypes, PTL
================================================================================
