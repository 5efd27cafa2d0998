------------------------------ MODULE MCAvbTx ------------------------------
(* Packets for the TLC runs of AvbTx.                                       *)
EXTENDS AvbTx

FourPkts == 1 .. 4
=============================================================================
