----------------------------- MODULE ChunkTransfer -----------------------------
(***************************************************************************)
(* Chunked file transfer: ChunkManager (protocol/chunking) under the       *)
(* FILE_START, FILE_CHUNK and FILE_END handlers of server/service.py, the  *)
(* table file_transfers and the uploads directory.  One thread per client; *)
(* ChunkManager.lock is held within each of its methods only.              *)
(***************************************************************************)
EXTENDS Naturals, FiniteSets, Sequences, SequencesExt

CONSTANTS
    User, Transfer,
    Path,       \* uploads/<room>/<filename>
    None,
    Sender,     \* the client that uses a transfer id
    Target,     \* the path a transfer's file is saved under
    TotalChunks, MaxIndex, \* of a transfer; the highest index a client sends
    MaxBuffer,  \* MAX_CHUNK_BUFFER, 20 in the code
    Ops         \* requests and events of this instance

ASSUME TransferAssumption ==
    /\ None \notin User \cup Transfer \cup Path \cup {"PENDING", "COMPLETE"}
    /\ Sender \in [Transfer -> User]
    /\ Target \in [Transfer -> Path]
    /\ TotalChunks \in Nat \ {0} /\ MaxIndex \in Nat /\ MaxBuffer \in Nat \ {0}
    /\ Ops \subseteq {"disconnect", "crash"}

VARIABLES
    order,    \* the keys of ChunkManager.transfers, oldest first
    received, \* the keys of received_chunks of each transfer in it
    row,      \* file_transfers.status, None for no row
    file,     \* whose bytes are at a path
    thread

vars == <<order, received, row, file, thread>>

------------------------------------------------------------------------------
Index == 1 .. MaxIndex
Whole == 1 .. TotalChunks

Label == {"gone", "idle", "start.row", "chunk.add", "end.save", "end.row", "end.send"}

\* chunk: the index to add; bytes: the chunks of a completed transfer.
Thread == [at : Label, transfer : Transfer \cup {None}, chunk : Index \cup {0},
           bytes : SUBSET Index]

Rest(label) == [at |-> label, transfer |-> None, chunk |-> 0, bytes |-> {}]
At(u, label) == thread[u].at = label
Become(u, local) == thread' = [thread EXCEPT ![u] = local]
Goto(u, label) == thread' = [thread EXCEPT ![u].at = label]

InFlight(t) == Contains(order, t)

------------------------------------------------------------------------------
(* FILE_START. *)

\* Mutant of Evicted: one transfer too many is kept.
EvictedLate == IF Len(order) > MaxBuffer THEN Tail(order) ELSE order

\* A full buffer loses its oldest transfer.
Evicted == IF Len(order) >= MaxBuffer THEN Tail(order) ELSE order

\* begin_transfer.  A key that is there keeps its place and gets a new state.
FileStart(u, t) ==
    /\ At(u, "idle")
    /\ order' = IF Contains(Evicted, t) THEN Evicted ELSE Append(Evicted, t)
    /\ received' = [x \in Transfer |->
                      IF x # t /\ Contains(Evicted, x) THEN received[x] ELSE {}]
    /\ Become(u, [Rest("start.row") EXCEPT !.transfer = t])
    /\ UNCHANGED <<row, file>>

StartRow(u) ==
    /\ At(u, "start.row")
    /\ row' = [row EXCEPT ![thread[u].transfer] = "PENDING"]
    /\ Become(u, Rest("idle"))
    /\ UNCHANGED <<order, received, file>>

------------------------------------------------------------------------------
(* FILE_CHUNK. *)

\* get_state.
FileChunk(u, t, i) ==
    /\ At(u, "idle")
    /\ InFlight(t)
    /\ Become(u, [Rest("chunk.add") EXCEPT !.transfer = t, !.chunk = i])
    /\ UNCHANGED <<order, received, row, file>>

\* add_chunk, which does nothing for a transfer that has gone; the client is told
\* the chunk was received all the same.
ChunkAdd(u) ==
    /\ At(u, "chunk.add")
    /\ LET t == thread[u].transfer IN
       received' = IF InFlight(t) THEN [received EXCEPT ![t] = @ \cup {thread[u].chunk}]
                   ELSE received
    /\ Become(u, Rest("idle"))
    /\ UNCHANGED <<order, row, file>>

------------------------------------------------------------------------------
(* FILE_END. *)

IsComplete(t) == Cardinality(received[t]) = TotalChunks

\* Mutant of MissingChunks: the last chunk is not looked for.
MissingButLast(t) == (1 .. TotalChunks - 1) \ received[t]

MissingChunks(t) == Whole \ received[t]

\* complete_transfer takes a complete transfer out; one with the right number of
\* chunks and the wrong indexes is lost.
FileEnd(u, t) ==
    /\ At(u, "idle")
    /\ InFlight(t) /\ IsComplete(t)
    /\ \E i \in DOMAIN order : order[i] = t /\ order' = RemoveAt(order, i)
    /\ received' = [received EXCEPT ![t] = {}]
    /\ IF MissingChunks(t) # {} THEN UNCHANGED thread
       ELSE Become(u, [Rest("end.save") EXCEPT !.transfer = t, !.bytes = received[t]])
    /\ UNCHANGED <<row, file>>

\* Mutant of EndSave: the row is marked before the file is written.
EndSaveMarks(u) ==
    /\ At(u, "end.save")
    /\ row' = [row EXCEPT ![thread[u].transfer] = "COMPLETE"]
    /\ Goto(u, "end.row")
    /\ UNCHANGED <<order, received, file>>

EndSave(u) ==
    /\ At(u, "end.save")
    /\ file' = [file EXCEPT ![Target[thread[u].transfer]] = thread[u].transfer]
    /\ Goto(u, "end.row")
    /\ UNCHANGED <<order, received, row>>

EndRow(u) ==
    /\ At(u, "end.row")
    /\ row' = [row EXCEPT ![thread[u].transfer] = "COMPLETE"]
    /\ Goto(u, "end.send")
    /\ UNCHANGED <<order, received, file>>

\* The FILE packet, with the path and not the bytes.
EndSend(u) ==
    /\ At(u, "end.send")
    /\ Become(u, Rest("idle"))
    /\ UNCHANGED <<order, received, row, file>>

------------------------------------------------------------------------------
\* unregister_client leaves the transfers of the client alone.
Disconnect(u) ==
    /\ "disconnect" \in Ops
    /\ At(u, "idle")
    /\ Become(u, Rest("gone"))
    /\ UNCHANGED <<order, received, row, file>>

Connect(u) ==
    /\ At(u, "gone")
    /\ Become(u, Rest("idle"))
    /\ UNCHANGED <<order, received, row, file>>

\* The server dies and starts again: the table and the files stay.
Crash ==
    /\ "crash" \in Ops
    /\ order' = <<>>
    /\ received' = [t \in Transfer |-> {}]
    /\ thread' = [u \in User |-> Rest("gone")]
    /\ UNCHANGED <<row, file>>

Init ==
    /\ order = <<>>
    /\ received = [t \in Transfer |-> {}]
    /\ row = [t \in Transfer |-> None]
    /\ file = [p \in Path |-> None]
    /\ thread = [u \in User |-> Rest("gone")]

Step(u) == StartRow(u) \/ ChunkAdd(u) \/ EndSave(u) \/ EndRow(u) \/ EndSend(u)

\* A client sends packets of its own transfers, in any order.
Request(u) ==
    \/ Connect(u) \/ Disconnect(u)
    \/ \E t \in {x \in Transfer : Sender[x] = u} :
          \/ FileStart(u, t) \/ FileEnd(u, t)
          \/ \E i \in Index : FileChunk(u, t, i)

Next == (\E u \in User : Step(u) \/ Request(u)) \/ Crash

Spec == Init /\ [][Next]_vars

------------------------------------------------------------------------------
(* Properties. *)

\* The buffer is an ordered map, with each transfer once, also when it is begun
\* again; tables and locals hold values of their kind.
TypeOK ==
    /\ order \in Seq(Transfer) /\ IsInjective(order)
    /\ received \in [Transfer -> SUBSET Index]
    /\ row \in [Transfer -> {None, "PENDING", "COMPLETE"}]
    /\ file \in [Path -> Transfer \cup {None}]
    /\ thread \in [User -> Thread]

\* Whatever clients begin and never end, and however often they begin again,
\* the server buffers at most MAX_CHUNK_BUFFER transfers.
BufferBounded == Len(order) <= MaxBuffer

\* Chunks may come in any order, twice, or with an index no chunk has, and the
\* buffer may be begun again in between: a file is only written from all chunks
\* of its transfer and nothing else.
WrittenIsWhole ==
    \A u \in User : At(u, "end.save") => thread[u].bytes = Whole

\* A transfer whose row says COMPLETE has its file on disk, crashes included.
CompleteIsOnDisk ==
    \A t \in Transfer : row[t] = "COMPLETE" => file[Target[t]] # None
==============================================================================
