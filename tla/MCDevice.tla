----------------------------- MODULE MCDevice ------------------------------
(* The rules of the TLC runs of Device.                                     *)
EXTENDS Device

\* Each of these drops one rule.
NoQuietRx   == AllRules \ {"rx_quiet"}
NoCloseRule == AllRules \ {"close_awake"}
NoMtuRule   == AllRules \ {"mtu_when_up"}
NoDrain     == AllRules \ {"tx_drained"}
NoWakerRule == AllRules \ {"one_waker"}
NoUpRule    == AllRules \ {"up_power"}
NoBusRule   == AllRules \ {"bus_error_alone"}
=============================================================================
