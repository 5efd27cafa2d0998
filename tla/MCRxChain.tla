----------------------------- MODULE MCRxChain -----------------------------
(* Frames for the TLC runs of RxChain.  A page has 4 units of 1024 bytes, a  *)
(* header buffer 1, frames of the largest MTU 9, and a u16 holds 64.        *)
EXTENDS RxChain

K4(len, hl, es) == [len |-> len, hl |-> hl, es |-> es, stamp |-> FALSE]

Stamped(len) == [len |-> len, hl |-> 0, es |-> FALSE, stamp |-> TRUE]

BothModes == {"jumbo", "split"}

\* Good frames that are copied and stamped, that are small but for which an skb
\* has no room, that fill a page, that need two pages or a chain, split by the
\* DMA or not; bad frames, one longer than any good one.
PlainKinds == { Stamped(1), K4(3, 0, FALSE), K4(4, 0, FALSE), K4(7, 0, FALSE),
                K4(9, 0, FALSE), K4(9, 1, FALSE), K4(17, 0, TRUE), K4(3, 1, TRUE) }

JumboKinds == { K4(9, 0, FALSE) }

StampedKinds == { Stamped(9) }

JumboMode == {"jumbo"}
=============================================================================
