------------------------------ MODULE MCRxRing ------------------------------
(* Frames for the TLC runs of RxRing.                                       *)
EXTENDS RxRing

K(descs, es, stamp) == [descs |-> descs, es |-> es, stamp |-> stamp]

\* Good and bad frames, one that spans two buffers, and every kind of stamp.
AllKinds == { K(1, FALSE, "none"), K(1, TRUE, "none"), K(2, TRUE, "none"),
              K(1, FALSE, "good"), K(1, FALSE, "corrupt"), K(1, TRUE, "good") }

\* Good frames only, for the refill that keeps failing.
GoodKinds == { K(1, FALSE, "none") }
=============================================================================
