------------------------------ MODULE MCHorizon -----------------------------
(***************************************************************************)
(* The wind cache with the default configuration, in hours, when nothing   *)
(* fails: a run every 6 hours that is published after 4, polls every 6     *)
(* hours, and forecasts to 12 hours.                                       *)
(***************************************************************************)
EXTENDS WindCache

(* Bounds: every fetch succeeds, the loop is not kicked, and predictions   *)
(* are made between its passes.                                            *)
Smooth ==
  /\ ~NoLatest /\ ~HourFails /\ ~NotPublished
  /\ BeginPass => poll.left = 0
  /\ (\E past \in Moments : Predict(past)) => poll.at = "sleep"

Spec == WindInit /\ [][WindNext /\ Smooth]_windVars
=============================================================================
