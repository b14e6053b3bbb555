------------------------- MODULE MCHistoryBackfill -------------------------
(* A small instance of HistoryBackfill for TLC: two sondes, one launched   *)
(* first and down before the clock ends, one down at its end.              *)
EXTENDS HistoryBackfill

CONSTANTS early, late

MCSerials == {early, late}
MCLaunch == [s \in MCSerials |-> IF s = early THEN 0 ELSE 1]
MCLand == [s \in MCSerials |-> IF s = early THEN 2 ELSE 4]
=============================================================================
