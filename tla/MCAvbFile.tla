----------------------------- MODULE MCAvbFile -----------------------------
(* Rules of use for the TLC runs of AvbFile.                                *)
EXTENDS AvbFile

NoRule == {}
=============================================================================
