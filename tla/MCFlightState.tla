---------------------------- MODULE MCFlightState ----------------------------
(* FlightState for TLC: two calls as model values; no symmetry, since          *)
(* CallsReleased is checked.                                                   *)
EXTENDS FlightState, TLC
=============================================================================
