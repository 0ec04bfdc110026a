------------------------------ MODULE LossyFifo ------------------------------
(***************************************************************************)
(* What the gateway promises of CAN frames: a channel that may lose a      *)
(* frame at any point, but never invents, repeats or reorders one.  A      *)
(* frame is its number in the order in which it was offered, so the frames *)
(* on their way are a set and the oldest of them is the smallest.          *)
(***************************************************************************)
EXTENDS Integers, Sequences

VARIABLES
    last,   \* number of the last frame offered
    pipe,   \* frames on their way
    out     \* frames delivered, oldest first

vars == <<last, pipe, out>>

Init == last = 0 /\ pipe = {} /\ out = <<>>

\* A frame is offered: the channel takes it, or loses it at once.
Offer == /\ last' = last + 1
         /\ pipe' \in {pipe, pipe \cup {last + 1}}
         /\ UNCHANGED out

\* A frame on its way is lost.
Lose == /\ \E n \in pipe : pipe' = pipe \ {n}
        /\ UNCHANGED <<last, out>>

\* The oldest frame on its way is delivered.
Deliver == /\ \E n \in pipe : /\ \A m \in pipe : n <= m
                              /\ out' = Append(out, n)
                              /\ pipe' = pipe \ {n}
           /\ UNCHANGED last

Next == Offer \/ Lose \/ Deliver

Spec == Init /\ [][Next]_vars

-----------------------------------------------------------------------------
\* What comes out is a subsequence of what was offered, in the same order.
InOrder == /\ \A i \in 1 .. Len(out) : out[i] \in 1 .. last
           /\ \A i, j \in 1 .. Len(out) : i < j => out[i] < out[j]
=============================================================================
