-------------------------- MODULE MCFlightTracker --------------------------
(* A small instance of FlightTracker for TLC: four altitudes over ground   *)
(* at two heights, two frames for every sustained condition.               *)
EXTENDS FlightTracker

MCAlts == 0..3
MCGrounds == 0..1
=============================================================================
