----------------------------- MODULE JitterBuffer -----------------------------
(***************************************************************************)
(* voice/jitter_buffer.py: frames come in in any order, and go out in the  *)
(* order of their numbers.  Every method runs under the buffer's lock.     *)
(***************************************************************************)
EXTENDS Naturals, Sequences

CONSTANTS
    MaxFrames,     \* max_frames, 50 in the code
    MaxSequence    \* bound on the numbers of frames

ASSUME JitterAssumption == MaxFrames \in Nat \ {0} /\ MaxSequence \in Nat

VARIABLES
    buffer,    \* the numbers held, in the order they came in
    next,      \* next_sequence
    started,
    played     \* what get_frame has returned since the start

jitterVars == <<buffer, next, started, played>>

Sequence == 0 .. MaxSequence
Held == {buffer[i] : i \in DOMAIN buffer}

JitterTypeOK ==
    /\ buffer \in Seq(Sequence)
    /\ next \in 0 .. MaxSequence + 1
    /\ started \in BOOLEAN
    /\ played \in Seq(Sequence)

JitterInit == buffer = <<>> /\ next = 0 /\ started = FALSE /\ played = <<>>

------------------------------------------------------------------------------
\* Over the limit, the frame that came first goes, wherever it is in the order.
Kept(frames) == IF Len(frames) > MaxFrames THEN Tail(frames) ELSE frames

\* add_frame: the first one sets the number to play.
AddFrame(n) ==
    /\ next' = IF started THEN next ELSE n
    /\ played' = IF started THEN played ELSE <<>>
    /\ started' = TRUE
    /\ buffer' = IF n \in Held THEN buffer ELSE Kept(Append(buffer, n))

\* The frames without the i-th.
Without(frames, i) == [j \in 1 .. Len(frames) - 1 |-> IF j < i THEN frames[j] ELSE frames[j + 1]]

\* Mutants of GetFrame: a frame that is not there is passed over; the last frame is
\* kept back.
GetFrameSkipping ==
    \E i \in DOMAIN buffer :
        /\ buffer[i] >= next
        /\ buffer' = Without(buffer, i)
        /\ next' = buffer[i] + 1 /\ played' = Append(played, buffer[i])
        /\ UNCHANGED started

GetFrameKeepingOne ==
    \E i \in DOMAIN buffer :
        /\ buffer[i] = next /\ Len(buffer) > 1
        /\ buffer' = Without(buffer, i)
        /\ next' = next + 1 /\ played' = Append(played, next)
        /\ UNCHANGED started

\* get_frame; if the next frame is not there it returns None and changes nothing.
GetFrame ==
    \E i \in DOMAIN buffer :
        /\ buffer[i] = next
        /\ buffer' = Without(buffer, i)
        /\ next' = next + 1 /\ played' = Append(played, next)
        /\ UNCHANGED started

\* flush
Flush == buffer' = <<>> /\ started' = FALSE /\ UNCHANGED <<next, played>>

JitterNext == (\E n \in Sequence : AddFrame(n)) \/ GetFrame \/ Flush

JitterSpec == JitterInit /\ [][JitterNext]_jitterVars

------------------------------------------------------------------------------
\* However frames come in, the buffer holds no more than it should, each number once.
WithinMaxFrames ==
    /\ Len(buffer) <= MaxFrames
    /\ \A i, j \in DOMAIN buffer : buffer[i] = buffer[j] => i = j

\* What is played is in order, without a gap and without a repetition, from the frame
\* that came first to the one before next: also if frames come late, twice, or again
\* after they were played, and if the buffer has let go of some.
PlayedInOrder ==
    \A i \in DOMAIN played : played[i] + Len(played) = next + (i - 1)
==============================================================================
