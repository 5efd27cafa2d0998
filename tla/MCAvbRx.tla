------------------------------ MODULE MCAvbRx ------------------------------
(* Frames for the TLC runs of AvbRx.                                        *)
EXTENDS AvbRx

K(descs, es) == [descs |-> descs, es |-> es]

\* Good and bad frames, and one that spans two buffers.
AllKinds == { K(1, FALSE), K(1, TRUE), K(2, TRUE) }
=============================================================================
