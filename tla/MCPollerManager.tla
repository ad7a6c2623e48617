-------------------------- MODULE MCPollerManager --------------------------
(* Model values for checking PollerManager with TLC. *)
EXTENDS PollerManager
CONSTANTS d1, d2

TwoDevices      == {d1, d2}
ThreeGoroutines == 1..3
=============================================================================
