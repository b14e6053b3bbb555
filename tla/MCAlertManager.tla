--------------------------- MODULE MCAlertManager ---------------------------
(* A small instance of AlertManager for TLC: the sonde comes down at home  *)
(* or away; "near" has both in reach, "far" only the away point, "watcher" *)
(* both, but is watch-only.                                                *)
EXTENDS AlertManager

CONSTANTS near, far, watcher

MCSubs == {near, far, watcher}
MCHome == [s \in MCSubs |-> IF s = near THEN 0 ELSE 3]
MCPoints == {0, 2}
=============================================================================
