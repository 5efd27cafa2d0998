------------------------------ MODULE MCTxRing ------------------------------
(* Packets for the TLC runs of TxRing.                                      *)
EXTENDS TxRing

P(lin, frags, mss, tag, cloned) ==
    [lin |-> lin, frags |-> frags, mss |-> mss, tag |-> tag, cloned |-> cloned]

\* One to three data descriptors, two tags, two segment sizes, a cloned GSO
\* header and an skb that is too long.  No packet needs both kinds of context
\* descriptor.
MixedShapes ==
    { P(1, 0, 0, 0, FALSE), P(1, 1, 0, 1, FALSE), P(3, 3, 0, 0, FALSE),
      P(1, 0, 0, 2, FALSE), P(1, 1, 1, 0, FALSE), P(1, 0, 2, 0, FALSE),
      P(1, 1, 1, 0, TRUE),  P(9, 0, 0, 0, FALSE) }

\* For liveness: packets that fill the ring and packets that do not.  Tags go to
\* the register in this run, so a TSO packet may have one.
FewShapes == { P(1, 0, 0, 1, FALSE), P(1, 1, 1, 1, FALSE), P(3, 3, 0, 0, FALSE) }

\* TSO packets of two segment sizes.
GsoShapes == { P(1, 0, 1, 0, FALSE), P(1, 0, 2, 0, FALSE) }

\* Tagged packets of the stack.
TaggedShapes == { P(1, 0, 0, 1, FALSE), P(1, 1, 0, 2, FALSE) }

\* A VLAN device inherits NETIF_F_TSO, so one packet may need both contexts.
TaggedGsoShapes == { P(1, 0, 1, 1, FALSE) , P(1, 0, 0, 0, FALSE)}
=============================================================================
