------------------------------- MODULE TxFifo -------------------------------
(***************************************************************************)
(* What a transmit queue promises to the network stack, with no ring and   *)
(* no counters: packets are offered in order, an accepted packet is sent   *)
(* exactly once and in the order of acceptance, and its skb goes back to   *)
(* the stack after it was sent, never before.                              *)
(***************************************************************************)
EXTENDS Naturals

CONSTANT Packets    \* numbered in the order the stack offers them

VARIABLE place      \* where each packet is

Oldest(p, where) == place[p] = where /\ \A q \in Packets : q < p => place[q] # where

Move(p, from, to) == Oldest(p, from) /\ place' = [place EXCEPT ![p] = to]

Init == place = [p \in Packets |-> "stack"]

Accept(p)  == Move(p, "stack", "held")
Refuse(p)  == Move(p, "stack", "dropped")
Send(p)    == Move(p, "held", "sent")
Release(p) == Move(p, "sent", "freed")

Next == \E p \in Packets : Accept(p) \/ Refuse(p) \/ Send(p) \/ Release(p)

Spec == Init /\ [][Next]_place
=============================================================================
