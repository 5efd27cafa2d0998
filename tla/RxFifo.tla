------------------------------- MODULE RxFifo -------------------------------
(***************************************************************************)
(* What a receive queue promises to the network stack, with no ring: a     *)
(* frame of the wire enters the ring or is lost, and frames leave the ring *)
(* in the order they entered it, each once, to the stack or, if the MAC    *)
(* marked them as bad, to the error counters.                              *)
(***************************************************************************)
EXTENDS Naturals

CONSTANT Frames     \* numbered in the order they arrive

VARIABLES
    place,          \* where each frame is
    bad             \* the frames that must not reach the stack

Oldest(f, where) == place[f] = where /\ \A g \in Frames : g < f => place[g] # where

Move(f, from, to) == Oldest(f, from) /\ place' = [place EXCEPT ![f] = to]

Init == place = [f \in Frames |-> "wire"] /\ bad = {}

\* The MAC judges a frame when it arrives.
Judged(f) == bad' = bad \/ bad' = bad \cup {f}

Enter(f)   == Move(f, "wire", "ring") /\ Judged(f)
Miss(f)    == Move(f, "wire", "lost") /\ Judged(f)
Deliver(f) == f \notin bad /\ Move(f, "ring", "stack") /\ UNCHANGED bad
Discard(f) == f \in bad /\ Move(f, "ring", "lost") /\ UNCHANGED bad

Next == \E f \in Frames : Enter(f) \/ Miss(f) \/ Deliver(f) \/ Discard(f)

Spec == Init /\ [][Next]_<<place, bad>>
=============================================================================
