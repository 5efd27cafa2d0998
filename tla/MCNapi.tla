------------------------------- MODULE MCNapi -------------------------------
(* CPUs for the TLC runs of Napi.                                           *)
EXTENDS Napi

OneCpu  == {"cpu0"}
TwoCpus == {"cpu0", "cpu1"}
=============================================================================
