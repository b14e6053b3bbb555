----------------------------- MODULE MCTallyHo -----------------------------
(* The instance of TallyHo for TLC needs no definitions: two days, so that *)
(* a rebuild can move a flight to the day before; crashes and rebuilds twice.*)
EXTENDS TallyHo
=============================================================================
