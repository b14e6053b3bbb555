------------------------------ MODULE Prediction ------------------------------
(***************************************************************************)
(* One landing prediction after another for one sonde: which winds are     *)
(* used, the integrator's climb and fall with the path it draws, and the   *)
(* ensemble's offset.  The daemon's one consumer thread predicts, so the   *)
(* sonde stands still meanwhile; the wind files do not, they come and go   *)
(* under every call.  Heights are counted in steps of one level; where a   *)
(* trajectory is, is told by the time along it, in half steps.             *)
(***************************************************************************)
EXTENDS Integers, SequencesExt, FiniteSetsExt

CONSTANTS
  Top,         \* bound: the highest level a sonde is heard at
  Bursts,      \* estimates of the burst altitude
  Grounds,     \* what the ground model may answer
  Rates,       \* ascent rates, in levels per step
  Speeds,      \* descent rates, in levels per step
  MaxSteps,    \* max_iterations, max_sim_seconds
  ClimbPoints, FallPoints,  \* path_max_points of the two legs
  Coverage,    \* preburst_min_coverage, in per cent
  Members,     \* n_members of an ensemble
  Interval     \* ensemble.min_interval_seconds, in frames

ASSUME PredictionAssumption ==
  /\ {Top, MaxSteps, ClimbPoints, FallPoints, Members, Interval} \subseteq Nat \ {0}
  /\ Rates \cup Speeds \subseteq Nat \ {0} /\ Bursts \cup Grounds \subseteq Nat
  /\ Coverage \in 0..100

VARIABLES
  sonde,  \* the flight: state, altitude, levels [lo, hi) of its wind profile
  files,  \* what a look at the model wind files finds: "pair" or "none"
  cache,  \* _ens_cache by kind: age in frames of the offset, or NoOffset
  run     \* the prediction being made

predictVars == <<sonde, files, cache, run>>

Kinds == {"descent", "preburst"}
NoOffset == -1
Tired == Interval + 1   \* ages are counted up to it

Point(alt, time) == [alt |-> alt, time |-> time]
Idle == [at |-> "idle", kind |-> "preburst", source |-> "none", field |-> FALSE,
         fill |-> "unasked", burst |-> 0, rate |-> 0, alt |-> 0, steps |-> 0,
         time |-> 0, climb |-> <<>>, climbStride |-> 1, cut |-> FALSE,
         fall |-> <<>>, stride |-> 1, guessed |-> {}, offset |-> NoOffset]

PredictInit ==
  /\ sonde \in {[state |-> s, alt |-> a, lo |-> a, hi |-> a] :
                  s \in {"ascent", "descent"}, a \in 0..Top}
  /\ files \in {"pair", "none"}
  /\ cache = [k \in Kinds |-> [age |-> NoOffset, failed |-> FALSE]]
  /\ run = Idle

PredictTypeOK ==
  /\ sonde.state \in {"ascent", "descent", "landed"} /\ sonde.alt \in 0..Top
  /\ sonde.lo <= sonde.hi /\ files \in {"pair", "none"}
  /\ \A k \in Kinds : cache[k].age \in NoOffset..Tired
  /\ run.at \in {"idle", "winds", "field", "column", "climb", "fall", "ensemble", "done"}
  /\ run.source \in {"none", "measured", "gfs"}
  /\ run.fill \in {"unasked", "pair", "none"}
  /\ Len(run.climb) <= 2 * ClimbPoints /\ Len(run.fall) <= 2 * FallPoints + 1
  /\ run.offset \in NoOffset..Tired

-----------------------------------------------------------------------------
(* Around the predictor.                                                   *)

FilesChange == files' = (IF files = "pair" THEN "none" ELSE "pair")
               /\ UNCHANGED <<sonde, cache, run>>

(* A frame: the flight moves on, its profile takes in the level, and the   *)
(* cached offsets get older (by sonde time).                               *)
Heard(state, alt) ==
  /\ run.at = "idle"
  /\ sonde' = [state |-> state, alt |-> alt, lo |-> Min({sonde.lo, alt, sonde.alt}),
               hi |-> Max({sonde.hi, alt, sonde.alt})]
  /\ cache' = [k \in Kinds |-> IF cache[k].age = NoOffset THEN cache[k]
                               ELSE [cache[k] EXCEPT !.age = Min({@ + 1, Tired})]]
  /\ UNCHANGED <<files, run>>
Climbs == sonde.state = "ascent" /\ sonde.alt < Top /\ Heard("ascent", sonde.alt + 1)
Falls == sonde.state \in {"ascent", "descent"} /\ sonde.alt > 0 /\ Heard("descent", sonde.alt - 1)
Lands == sonde.state = "descent" /\ sonde.alt \in Grounds /\ Heard("landed", sonde.alt)

-----------------------------------------------------------------------------
(* predict_for_flight(): by state, and which winds there are.              *)

Fail == run' = Idle
Measured == sonde.lo < sonde.hi   \* use_measured_winds and a profile

Predict(kind) ==
  /\ run.at = "idle"
  /\ sonde.state = (IF kind = "descent" THEN "descent" ELSE "ascent")
  /\ run' = [Idle EXCEPT !.at = "winds", !.kind = kind]
  /\ UNCHANGED <<sonde, files, cache>>
(* A descent not measured yet has no model of it: no prediction.           *)
NoSamples == run.at = "winds" /\ run.kind = "descent" /\ Fail /\ UNCHANGED <<sonde, files, cache>>
WindProfile ==
  /\ run.at = "winds"
  /\ IF Measured THEN run' = [run EXCEPT !.at = "field", !.source = "measured"]
     ELSE IF files = "pair" THEN run' = [run EXCEPT !.at = "field", !.source = "gfs"]
     ELSE Fail
  /\ UNCHANGED <<sonde, files, cache>>

Fly(r, alt, burst, rate) ==
  [r EXCEPT !.alt = alt, !.burst = burst, !.rate = rate,
            !.at = IF r.kind = "preburst" THEN "climb" ELSE "fall",
            !.climb = IF r.kind = "preburst" THEN <<Point(alt, 0)>> ELSE <<>>,
            !.fall = IF r.kind = "preburst" THEN <<>> ELSE <<Point(alt, 0)>>]

(* A second look at the files, for the 4-D field: it may find other than   *)
(* the first one did; and blending may be switched off (gfs_blend_enabled) *)
WindField(blend) ==
  /\ run.at = "field"
  /\ run' = [run EXCEPT !.field = files = "pair" /\ (run.source = "measured" => blend),
                        !.at = "column"]
  /\ UNCHANGED <<sonde, files, cache>>

(* The edge fill looks once, when first asked, and keeps to that.          *)
FilledAfresh(r) == files
Filled(r) == IF r.fill = "unasked" THEN files ELSE r.fill
LevelsOf(burst) == burst - sonde.lo
Covered(burst) == 100 * (sonde.hi - sonde.lo) >= Coverage * Max({LevelsOf(burst), 1})

(* A burst altitude is at least a little above the sonde.                  *)
BurstAlt(estimate) == Max({estimate, sonde.alt + 1})

(* _preburst_winds_known(): else no prediction is made.                    *)
Launch(estimate, rate) ==
  LET burst == BurstAlt(estimate)
      probed == run.source = "measured" /\ ~run.field
  IN  /\ run.at = "column" /\ run.kind = "preburst"
      /\ IF ~probed THEN run' = Fly(run, sonde.alt, burst, rate)
         ELSE IF Filled(run) = "pair" \/ Covered(burst)
         THEN run' = [Fly(run, sonde.alt, burst, rate) EXCEPT !.fill = Filled(run)]
         ELSE Fail
      /\ UNCHANGED <<sonde, files, cache>>
LetFall ==
  /\ run.at = "column" /\ run.kind = "descent"
  /\ run' = Fly(run, sonde.alt, 0, 0)
  /\ UNCHANGED <<sonde, files, cache>>

-----------------------------------------------------------------------------
(* The integrator.  The path is thinned out when it gets too long, and     *)
(* from then on every other step is kept.                                  *)

Thinned(p) == Append([i \in 1..Len(p) \div 2 |-> p[2 * i - 1]], Last(p))
Sampled(p, stride, max, step, point) ==
  IF step % stride # 0 THEN [path |-> p, stride |-> stride]
  ELSE LET q == Append(p, point)
       IN  IF Len(q) < 2 * max THEN [path |-> q, stride |-> stride]
           ELSE [path |-> Thinned(q), stride |-> 2 * stride]

(* Winds at a level of the column: measured or modelled, else the nearest  *)
(* there is ("guessed").                                                   *)
InColumn(a) == sonde.lo <= a /\ a < sonde.hi
Known(r, a) == r.field \/ r.source = "gfs" \/ InColumn(a)
Wind(r, a) ==
  IF Known(r, a) THEN r
  ELSE [r EXCEPT !.fill = Filled(r),
                 !.guessed = IF Filled(r) = "pair" THEN @ ELSE @ \cup {a}]

ClimbStep ==
  /\ run.at = "climb" /\ run.alt < run.burst /\ run.steps < MaxSteps
  /\ LET r == Wind(run, run.alt)
         up == run.alt + run.rate
         s == Sampled(r.climb, r.climbStride, ClimbPoints, r.steps + 1, Point(up, r.time + 2))
     IN  run' = [r EXCEPT !.alt = up, !.steps = @ + 1, !.time = @ + 2,
                          !.climb = s.path, !.climbStride = s.stride]
  /\ UNCHANGED <<sonde, files, cache>>
(* Burst: the fall starts at the burst altitude, reached or not.           *)
Burst ==
  /\ run.at = "climb" /\ ~(run.alt < run.burst /\ run.steps < MaxSteps)
  /\ run' = [run EXCEPT !.at = "fall", !.cut = run.alt < run.burst, !.alt = run.burst,
                        !.steps = 0, !.fall = <<Point(run.burst, run.time)>>]
  /\ UNCHANGED <<sonde, files, cache>>

AlreadyDown(ground) ==
  /\ run.at = "fall" /\ run.steps = 0 /\ run.alt <= ground
  /\ run' = [run EXCEPT !.at = "ensemble"]
  /\ UNCHANGED <<sonde, files, cache>>

(* A step down.  Where it ends is sampled before it is seen to be below    *)
(* the ground; the landing is then somewhere on the step.                  *)
FallStep(v, ground) ==
  /\ run.at = "fall" /\ run.steps < MaxSteps
  /\ run.steps = 0 => run.alt > ground
  /\ LET r == Wind(run, run.alt)
         down == run.alt - v
         s == Sampled(r.fall, r.stride, FallPoints, r.steps + 1, Point(down, r.time + 2))
         t == [r EXCEPT !.alt = down, !.steps = @ + 1, !.time = @ + 2,
                        !.fall = s.path, !.stride = s.stride]
     IN  run' = IF down > ground THEN t
                ELSE [t EXCEPT !.at = "ensemble", !.time = @ - 1, !.alt = ground,
                               !.fall = Append(@, Point(ground, t.time - 1))]
  /\ UNCHANGED <<sonde, files, cache>>
Runaway ==
  /\ run.at = "fall" /\ run.steps = MaxSteps /\ Fail
  /\ UNCHANGED <<sonde, files, cache>>

-----------------------------------------------------------------------------
(* _ensemble_offset(): a cached offset serves for a while, and for as long *)
(* as no ensemble can be made.  "failed" is history: one was tried since.  *)

Reusable(k) == cache[k].age # NoOffset /\ cache[k].age < Interval
Done(age) == run' = [run EXCEPT !.at = "done", !.offset = age]
Reuse ==
  /\ run.at = "ensemble" /\ Reusable(run.kind)
  /\ Done(cache[run.kind].age) /\ UNCHANGED <<sonde, files, cache>>
(* So many members came down; fewer than three, or a quarter, are none.    *)
Ensemble(landed) ==
  /\ run.at = "ensemble" /\ ~Reusable(run.kind)
  /\ LET entry == IF landed < Max({3, Members \div 4})
                  THEN [cache[run.kind] EXCEPT !.failed = TRUE]
                  ELSE [age |-> 0, failed |-> FALSE]
     IN  cache' = [cache EXCEPT ![run.kind] = entry] /\ Done(entry.age)
  /\ UNCHANGED <<sonde, files>>

Publish == run.at = "done" /\ Fail /\ UNCHANGED <<sonde, files, cache>>

PredictNext ==
  \/ FilesChange \/ Climbs \/ Falls \/ Lands
  \/ \E k \in Kinds : Predict(k)
  \/ NoSamples \/ WindProfile \/ \E b \in BOOLEAN : WindField(b)
  \/ \E e \in Bursts, r \in Rates : Launch(e, r)
  \/ LetFall \/ ClimbStep \/ Burst
  \/ \E g \in Grounds : AlreadyDown(g) \/ \E v \in Speeds : FallStep(v, g)
  \/ Runaway \/ Reuse \/ \E n \in 0..Members : Ensemble(n)
  \/ Publish

PredictSpec == PredictInit /\ [][PredictNext]_predictVars

-----------------------------------------------------------------------------
(* What is published.                                                      *)

Drawn == run.climb \o run.fall
Steady(p, stride) ==
  \A i \in 1..Len(p) - 1 : p[i].time < p[i + 1].time /\ p[i + 1].time - p[i].time <= 2 * stride

(* The path begins at the sonde, rises to the burst altitude without a     *)
(* jump unless the climb was cut off, falls from there to the ground, and  *)
(* between two of its points lie no more steps than the stride it ended    *)
(* up with, however often it was thinned out.  Only the last point, the    *)
(* landing, may come a little before the one ahead of it.                  *)
PathIsFaithful ==
  LET falling == Front(run.fall)
      landing == Last(run.fall)
  IN  /\ Drawn[1] = Point(sonde.alt, 0)
      /\ Steady(run.climb, run.climbStride) /\ Steady(falling, run.stride)
      /\ \A i \in 1..Len(run.climb) - 1 : run.climb[i].alt < run.climb[i + 1].alt
      /\ \A i \in 1..Len(falling) - 1 : falling[i].alt > falling[i + 1].alt
      /\ landing.time = run.time /\ landing.alt = run.alt
      /\ falling # <<>> =>
           landing.time - Last(falling).time \in -1..2 * run.stride
      /\ run.kind = "preburst" /\ ~run.cut =>
           /\ run.fall[1].time - Last(run.climb).time \in 0..2 * run.climbStride
           /\ run.burst - Last(run.climb).alt < run.rate * run.climbStride + 1

(* Of the climb above the first level measured, no more is flown on        *)
(* guessed winds than the coverage leaves, though the files may be gone    *)
(* by the time that part is integrated.                                    *)
EnoughWind ==
  run.kind = "preburst" =>
    LET guessed == {a \in run.guessed : a \in sonde.lo..run.burst - 1}
    IN  100 * Cardinality(guessed) <= (100 - Coverage) * LevelsOf(run.burst)

(* The ensemble's offset is recent, or there has been none to be had.      *)
OffsetIsRecent ==
  run.offset # NoOffset => run.offset < Interval \/ cache[run.kind].failed

(* A prediction that is published has these three.                         *)
PublishedIsSound ==
  run.at = "done" => PathIsFaithful /\ EnoughWind /\ OffsetIsRecent
=============================================================================
