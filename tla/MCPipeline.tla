------------------------------ MODULE MCPipeline ------------------------------
(***************************************************************************)
(* Small instances for TLC of what lies before the tracker and behind it:  *)
(* the raw queue, the reorder buffer, the predictor, an open page.  None   *)
(* touches another's state, so a behaviour is of one of them.              *)
(***************************************************************************)
EXTENDS ReorderBuffer, Ingest, Prediction, Dashboard

VARIABLE stage   \* what this behaviour is about

pipelineVars == <<vars, ingestVars, predictVars, dashVars, stage>>

(* Times span more than the TTL and the hold, so that keys expire, frames  *)
(* come too late and copies come after their key was forgotten; with two   *)
(* serials, flushing one leaves the other alone.                           *)
MCTimes == 0..4
MCKeys == 1..2
MCSymmetry == Permutations(Serials)

(* A stage that a behaviour is not about stays as it starts.               *)
PipelineInit ==
  /\ stage \in {"frames", "queue", "forecast", "page"}
  /\ Init /\ IngestInit /\ PredictInit /\ DashInit
  /\ stage # "forecast" =>
       sonde = [state |-> "ascent", alt |-> 0, lo |-> 0, hi |-> 0] /\ files = "none"
  /\ stage # "page" => view = "alerts" /\ db.row = None

(* Bounds: a commit the view cannot show is left out unless it rings or is *)
(* half of a job; the map is fetched once at a time; the timer strikes     *)
(* when it has something to heal.                                          *)
Relevant ==
  writes' = writes \/ bells' # bells \/ job' # job
  \/ Fresh(view, db') # Fresh(view, db)
OneMap == view = "map" /\ fetches # <<>> => Len(fetches') <= Len(fetches)
NeededTimer == Timer => fetches = <<>> /\ flawed

PipelineNext ==
  \/ stage = "frames" /\ Next
     /\ UNCHANGED <<ingestVars, predictVars, dashVars, stage>>
  \/ stage = "queue" /\ IngestNext
     /\ UNCHANGED <<vars, predictVars, dashVars, stage>>
  \/ stage = "forecast" /\ PredictNext
     /\ UNCHANGED <<vars, ingestVars, dashVars, stage>>
  \/ stage = "page" /\ DashNext /\ Relevant /\ OneMap /\ NeededTimer
     /\ UNCHANGED <<vars, ingestVars, predictVars, stage>>

PipelineSpec == PipelineInit /\ [][PipelineNext]_pipelineVars

PipelineTypeOK == TypeOK /\ IngestTypeOK /\ PredictTypeOK /\ DashTypeOK
=============================================================================
