------------------------------- MODULE FrameRing -------------------------------
(***************************************************************************)
(* What IPCRingBuffer promises, without its locks, indices and slots. The  *)
(* last Capacity frames that were put may be got, each by its number, and  *)
(* a reader has the frame it got until it drops it. A put takes the place  *)
(* of the oldest frame at once, and ends when nobody has that one any      *)
(* more; nothing is got while it is under way.                             *)
(***************************************************************************)
EXTENDS Naturals, Sequences

CONSTANTS Readers, Capacity, SeqMod

VARIABLES
    frames,   \* the frames there are, the oldest first
    next,     \* the number of the next one
    putting,  \* a put is under way
    held      \* which reader has which frame

ringVars == <<frames, next, putting, held>>

Init == frames = <<>> /\ next = 0 /\ putting = FALSE /\ held = {}

There(frame) == \E k \in 1..Len(frames) : frames[k] = frame

BeginPut ==
    /\ ~putting /\ putting' = TRUE
    /\ frames' = IF Len(frames) = Capacity THEN Tail(frames) ELSE frames
    /\ UNCHANGED <<next, held>>

EndPut ==
    /\ putting /\ putting' = FALSE
    /\ \A h \in held : There(h[2])
    /\ frames' = Append(frames, next)
    /\ next' = (next + 1) % SeqMod
    /\ UNCHANGED held

Get(r) ==
    /\ ~putting
    /\ \E k \in 1..Len(frames) : held' = held \cup {<<r, frames[k]>>}
    /\ UNCHANGED <<frames, next, putting>>

Drop(r) ==
    /\ \E h \in held : h[1] = r /\ held' = held \ {h}
    /\ UNCHANGED <<frames, next, putting>>

Next == BeginPut \/ EndPut \/ \E r \in Readers : Get(r) \/ Drop(r)

Spec == Init /\ [][Next]_ringVars
=============================================================================
