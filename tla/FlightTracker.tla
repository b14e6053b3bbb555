--------------------------- MODULE FlightTracker ---------------------------
(***************************************************************************)
(* The flight state machine, for one serial: frames classify the flight as *)
(* climbing, floating, falling or down; silence closes it out; a frame     *)
(* heard after that reopens it, relaunches it or is a ping from the        *)
(* ground.  Altitudes are in coarse units.  The regression's vertical rate *)
(* may lag the last fix, so its class is an input of its own; so are the   *)
(* ground under a fix and whether a fix is a teleport from the last one.   *)
(***************************************************************************)
EXTENDS Integers, Sequences, FiniteSets

CONSTANTS
  Alts,                 \* altitudes a frame reports
  Grounds,              \* ground elevations under a frame
  BurstDrop, BurstConsecutive,        \* burst_drop_m, burst_consecutive
  MinGain, MinAirborne,               \* ascent_min_gain_m, min_airborne_agl_m
  RevertClimb,                        \* burst_revert_climb_m
  FloatMin, FloatWindow,              \* float_min_alt_m, float_window_seconds
  LandedBand, LowBand,                \* landed_alt_above_ground_m; the silence band
  NewAscentClimb, NewAscentConsecutive,
  RedescentDrop, RedescentConsecutive,
  GlitchAcceptAfter,
  LandedTimeout, DescentLost, AscentLost, Stale,  \* the silences, in order
  MaxRestarts           \* bound on restarts of the daemon

ASSUME TrackerAssumption ==
  /\ Alts \subseteq Nat /\ Grounds \subseteq Nat
  /\ {BurstDrop, MinGain, MinAirborne, RevertClimb, FloatMin, FloatWindow, LandedBand,
      LowBand, NewAscentClimb, RedescentDrop, GlitchAcceptAfter, MaxRestarts} \subseteq Nat
  /\ {BurstConsecutive, NewAscentConsecutive, RedescentConsecutive} \subseteq Nat \ {0}
  /\ {LandedTimeout, DescentLost, AscentLost, Stale} \subseteq Nat
  /\ LandedBand <= LowBand
  /\ LandedTimeout <= DescentLost /\ DescentLost <= AscentLost /\ AscentLost <= Stale

VARIABLES
  flight,    \* the active flight, or NoFlight
  gap,       \* time since its last accepted frame, capped past Stale
  events,    \* events of the latest call
  restarts,  \* restarts so far
  origin,    \* history: altitude of the flight's first frame, restarts or not
  touched,   \* history: the flight was declared LANDED by a frame, not a silence
  since      \* history: altitudes accepted since the close-out, newest last

vars == <<flight, gap, events, restarts, origin, touched, since>>

None == -1
AltOrNone == Alts \cup {None}
InAirStates == {"ASCENT", "FLOAT", "DESCENT"}
Rates == {"none", "climb", "level", "sag", "fall"}
Falling(rate) == rate \in {"sag", "fall"}
Level(rate) == rate \in {"level", "sag"}   \* within float_rate_abs_mps of zero
Frame == [alt: Alts, ground: Grounds, rate: Rates, later: BOOLEAN]   \* than the last fix

Least(a, b) == IF a < b THEN a ELSE b
Most(a, b) == IF a > b THEN a ELSE b

NoFlight == [state |-> "ABSENT"]
Flight == [state: InAirStates \cup {"LANDED"}, max: Alts, first: AltOrNone,
           last: Alts, under: Grounds, burst: AltOrNone, landedAlt: AltOrNone,
           byTimeout: BOOLEAN, expired: InAirStates \cup {"no"}, ascended: BOOLEAN,
           paired: BOOLEAN,
           neg: 0..BurstConsecutive, floatFor: -1..FloatWindow, glitch: 0..GlitchAcceptAfter,
           reascent: 0..NewAscentConsecutive, redescent: 0..RedescentConsecutive]

Tracked == flight # NoFlight
InAir == flight.state \in InAirStates
Landed == flight.state = "LANDED"

-----------------------------------------------------------------------------
(* _new_flight(), and the first_seen branch of _apply_frame().             *)
NewFlight(fr) ==
  [state |-> "ASCENT", max |-> fr.alt, first |-> fr.alt, last |-> fr.alt,
   under |-> fr.ground, burst |-> None, landedAlt |-> None, byTimeout |-> FALSE,
   expired |-> "no", ascended |-> FALSE, paired |-> FALSE, neg |-> 0, floatFor |-> None,
   glitch |-> 0, reascent |-> 0, redescent |-> 0]

(* _apply_frame(), first part: the extremes, and the gate of the burst.    *)
Observed(f, fr) ==
  LET top == Most(f.max, fr.alt)
  IN [f EXCEPT !.max = top,
               !.ascended = @ \/ (f.first # None /\ top - f.first >= MinGain)]

(* _maybe_burst()                                                          *)
NegCount(f, fr) ==
  IF fr.alt < f.max - BurstDrop /\ Falling(fr.rate)
  THEN Least(f.neg + 1, BurstConsecutive) ELSE 0

FlewAnywhere(f, fr) == TRUE
FlewHigh(f, fr) == f.max >= fr.ground + MinAirborne

BurstCalled(f, fr) ==
  /\ f.state \in {"ASCENT", "FLOAT"}
  /\ NegCount(f, fr) >= BurstConsecutive
  /\ FlewHigh(f, fr)

BurstAlways(f) == f.max
BurstAlt(f) == IF f.ascended THEN f.max ELSE f.burst

(* _maybe_float(): how long the flight has been level, None if it is not.  *)
FloatFor(f, fr) ==
  CASE fr.alt < FloatMin \/ ~Level(fr.rate) -> None
    [] OTHER -> IF f.floatFor = None THEN 0 ELSE Least(f.floatFor + gap, FloatWindow)

FloatCalled(f, fr) == f.floatFor # None /\ FloatFor(f, fr) >= FloatWindow

(* _maybe_burst() and _maybe_float(), on a flight that is not falling yet. *)
Climbing(f, fr) ==
  CASE f.state \notin {"ASCENT", "FLOAT"} -> f
    [] BurstCalled(f, fr) ->
         [f EXCEPT !.state = "DESCENT", !.neg = NegCount(f, fr),
                   !.floatFor = None, !.burst = BurstAlt(f)]
    [] f.state = "ASCENT" /\ ~BurstCalled(f, fr) ->
         [f EXCEPT !.state = IF FloatCalled(f, fr) THEN "FLOAT" ELSE @,
                   !.neg = NegCount(f, fr), !.floatFor = FloatFor(f, fr)]
    [] OTHER -> [f EXCEPT !.neg = NegCount(f, fr)]

(* _maybe_revert_burst() and _maybe_landed(), on a flight that is falling. *)
Reverted(f, fr) == f.burst # None /\ fr.alt > f.burst + RevertClimb

FallingOn(f, fr) ==
  CASE f.state # "DESCENT" -> f
    [] f.state = "DESCENT" /\ Reverted(f, fr) ->
         [f EXCEPT !.state = "ASCENT", !.burst = None, !.neg = 0, !.floatFor = None]
    [] /\ f.state = "DESCENT" /\ ~Reverted(f, fr)
       /\ Falling(fr.rate) /\ fr.alt <= fr.ground + LandedBand ->
         [f EXCEPT !.state = "LANDED", !.landedAlt = fr.alt]
    [] OTHER -> f

(* _apply_frame() as a whole.                                              *)
Applied(f, fr) ==
  LET g == FallingOn(Climbing(Observed(f, fr), fr), fr)
  IN [g EXCEPT !.last = fr.alt, !.under = fr.ground, !.paired = TRUE]

Announced(f, fr) ==
  LET g == Observed(f, fr)
      h == Climbing(g, fr)
  IN {e \in {"BURST", "FLOAT", "LANDED"} :
        CASE e = "BURST" -> BurstCalled(g, fr)
          [] e = "FLOAT" -> g.state = "ASCENT" /\ h.state = "FLOAT"
          [] e = "LANDED" -> h.state = "DESCENT" /\ FallingOn(h, fr).state = "LANDED"}

-----------------------------------------------------------------------------
(* _resolve_flight(): which flight a frame is for.                         *)

Anchor(f) == IF f.landedAlt # None THEN f.landedAlt ELSE f.last

IsLow(f, fr) == fr.alt < Anchor(f) - RedescentDrop
IsHigh(f, fr) == fr.alt > Anchor(f) + NewAscentClimb

RedescentKept(f, fr) == IF IsLow(f, fr) THEN f.redescent + 1 ELSE f.redescent
RedescentCount(f, fr) == IF IsLow(f, fr) THEN f.redescent + 1 ELSE 0
ReascentKept(f, fr) == IF IsHigh(f, fr) THEN f.reascent + 1 ELSE f.reascent
ReascentCount(f, fr) == IF IsHigh(f, fr) THEN f.reascent + 1 ELSE 0

IsStillDescending(f, fr) ==
  f.byTimeout /\ RedescentCount(f, fr) >= RedescentConsecutive
IsNewAscent(f, fr) == ReascentCount(f, fr) >= NewAscentConsecutive

ReopenedStillProvisional(f) ==
  [f EXCEPT !.state = "DESCENT", !.landedAlt = None, !.redescent = 0, !.reascent = 0]
ReopenedDescent(f) ==
  [f EXCEPT !.state = "DESCENT", !.byTimeout = FALSE, !.landedAlt = None,
            !.redescent = 0, !.reascent = 0]
ResumedSwapped(f) == [f EXCEPT !.state = "no", !.expired = "no", !.reascent = 0]
Resumed(f) == [f EXCEPT !.state = f.expired, !.expired = "no", !.reascent = 0]

Pinged(f, fr) ==
  [f EXCEPT !.redescent = IF f.byTimeout THEN RedescentCount(f, fr) ELSE @,
            !.reascent = ReascentCount(f, fr)]

-----------------------------------------------------------------------------
Init ==
  /\ flight = NoFlight
  /\ gap = 0
  /\ events = {}
  /\ restarts = 0
  /\ origin = None
  /\ touched = FALSE
  /\ since = <<>>

(* The rate needs an earlier frame of this session to be derived from.     *)
RateKnown(fr) == fr.rate # "none" => (Tracked /\ flight.paired)

(* _is_glitch() of a fix that is taken: the count of rejections restarts,  *)
(* unless there is no time between the fixes to derive a speed from.       *)
Unglitched(f, fr) == IF fr.later THEN [f EXCEPT !.glitch = 0] ELSE f

Accept(f, fr, evs) ==
  /\ flight' = Applied(Unglitched(f, fr), fr)
  /\ events' = evs \cup Announced(Unglitched(f, fr), fr)
  /\ gap' = 0
  /\ touched' = (flight'.state = "LANDED" /\ (touched \/ "LANDED" \in events'))
  /\ since' = IF flight'.state = "LANDED" /\ Landed
              THEN LET s == Append(since, fr.alt)
                   IN SubSeq(s, Most(1, Len(s) - Most(NewAscentConsecutive,
                                                      RedescentConsecutive) + 2), Len(s))
              ELSE <<>>
  /\ UNCHANGED restarts

(* update() of a fix too far from the last one, until it is persistent.    *)
HearTeleport ==
  /\ Tracked
  /\ flight.glitch < GlitchAcceptAfter
  /\ flight' = [flight EXCEPT !.glitch = @ + 1]
  /\ events' = {}
  /\ UNCHANGED <<gap, restarts, origin, touched, since>>

(* update() of the first frame of a serial that is not tracked.            *)
HearFirst(fr) ==
  /\ ~Tracked
  /\ RateKnown(fr)
  /\ origin' = fr.alt
  /\ Accept(NewFlight(fr), fr, {"NEW_FLIGHT"})

(* update() on a flight in the air.                                        *)
HearInAir(fr) ==
  /\ InAir
  /\ RateKnown(fr)
  /\ Accept(flight, fr, {})
  /\ UNCHANGED origin

(* update() on a flight that a silence closed out in mid-air.              *)
HearExpired(fr) ==
  /\ Landed /\ flight.expired # "no"
  /\ RateKnown(fr)
  /\ Accept(Resumed(flight), fr, {"RESUMED"})
  /\ UNCHANGED origin

(* update() on a provisional landing the frames fall clearly below.        *)
HearStillDescending(fr) ==
  /\ Landed /\ flight.expired = "no"
  /\ IsStillDescending(flight, fr)
  /\ RateKnown(fr)
  /\ Accept(ReopenedDescent(flight), fr, {"RESUMED"})
  /\ UNCHANGED origin

(* update() on a landed flight whose frames climb clearly above: reuse.    *)
HearRelaunch(fr) ==
  /\ Landed /\ flight.expired = "no"
  /\ ~IsStillDescending(flight, fr)
  /\ IsNewAscent(flight, fr)
  /\ fr.rate = "none"
  /\ origin' = fr.alt
  /\ Accept(NewFlight(fr), fr, {"NEW_FLIGHT"})

(* update() on a landed flight otherwise: a ping from the ground.          *)
HearPing(fr) ==
  /\ Landed /\ flight.expired = "no"
  /\ ~IsStillDescending(flight, fr)
  /\ ~IsNewAscent(flight, fr)
  /\ RateKnown(fr)
  /\ Accept(Pinged(flight, fr), fr, {})
  /\ UNCHANGED origin

(* A fix no later than the last comes within the same unit of time: the    *)
(* reorder buffer lets none through that is older.                         *)
Hear(fr) ==
  /\ fr.later \/ gap = 0
  /\ \/ HearFirst(fr) \/ HearInAir(fr) \/ HearExpired(fr)
     \/ HearStillDescending(fr) \/ HearRelaunch(fr) \/ HearPing(fr)

-----------------------------------------------------------------------------
(* check_timeouts(), on a flight no recovery fetch holds.                  *)

LowAnyState(f) == f.last <= f.under + LowBand
IsLowDescent(f) == f.state = "DESCENT" /\ f.last <= f.under + LowBand

LostUnlessFloating ==
  \/ flight.state = "ASCENT" /\ gap > AscentLost
  \/ flight.state = "DESCENT" /\ gap > DescentLost /\ ~IsLowDescent(flight)
LostInAir ==
  \/ gap > Stale
  \/ flight.state = "ASCENT" /\ gap > AscentLost
  \/ flight.state = "DESCENT" /\ gap > DescentLost /\ ~IsLowDescent(flight)

LostLow ==
  gap > LandedTimeout /\ gap <= Stale /\ IsLowDescent(flight)

Close(f, evs) ==
  /\ flight' = f
  /\ events' = evs
  /\ since' = <<>>
  /\ UNCHANGED <<gap, restarts, origin, touched>>

SweepExpire ==
  /\ InAir /\ LostInAir
  /\ Close([flight EXCEPT !.expired = flight.state, !.state = "LANDED"], {"EXPIRED"})

SweepLand ==
  /\ InAir /\ LostLow
  /\ Close([flight EXCEPT !.state = "LANDED", !.landedAlt = flight.last,
                          !.byTimeout = TRUE], {"LANDED"})

Gone ==
  /\ flight' = NoFlight
  /\ gap' = 0
  /\ events' = {}
  /\ origin' = None
  /\ touched' = FALSE
  /\ since' = <<>>

SweepEvict == Landed /\ gap > Stale /\ Gone /\ UNCHANGED restarts

Sweep == SweepExpire \/ SweepLand \/ SweepEvict

(* drop() on leaving the region of interest; forget() before a rebuild.    *)
DropOrForget == InAir /\ Gone /\ UNCHANGED restarts

(* A new process: load_active() finds the rows of flights in the air, and  *)
(* the columns of the row are all it has.                                  *)
Rehydrated(f) ==
  [f EXCEPT !.first = None, !.ascended = f.state \in {"ASCENT", "FLOAT"},
            !.landedAlt = None, !.byTimeout = FALSE, !.expired = "no",
            !.paired = FALSE, !.neg = 0, !.floatFor = None, !.glitch = 0,
            !.reascent = 0, !.redescent = 0]

Restart ==
  /\ Tracked
  /\ restarts < MaxRestarts
  /\ restarts' = restarts + 1
  /\ IF InAir
     THEN /\ flight' = Rehydrated(flight)
          /\ events' = {}
          /\ UNCHANGED <<gap, origin, touched, since>>
     ELSE Gone

Tick ==
  /\ Tracked /\ gap <= Stale
  /\ gap' = gap + 1
  /\ UNCHANGED <<flight, events, restarts, origin, touched, since>>

Next ==
  \/ HearTeleport
  \/ \E fr \in Frame : Hear(fr)
  \/ Sweep
  \/ DropOrForget
  \/ Restart
  \/ Tick

(* Time passes, and the maintenance tick sweeps, whatever is received.     *)
Spec == Init /\ [][Next]_vars /\ WF_vars(Tick) /\ WF_vars(Sweep)

-----------------------------------------------------------------------------
TypeOK ==
  /\ flight \in Flight \cup {NoFlight}
  /\ gap \in 0..(Stale + 1)
  /\ events \subseteq {"NEW_FLIGHT", "BURST", "FLOAT", "LANDED", "EXPIRED", "RESUMED"}
  /\ restarts \in 0..MaxRestarts
  /\ origin \in AltOrNone
  /\ touched \in BOOLEAN
  /\ since \in Seq(Alts)

(* A flight that never left the ground never falls or lands: whatever GPS  *)
(* settling on the launch pad looks like, a fall was high above ground.    *)
FallsFromHigh ==
  Tracked /\ (\/ flight.state = "DESCENT"
              \/ Landed /\ flight.expired \in {"no", "DESCENT"})
    => \E g \in Grounds : flight.max >= g + MinAirborne

(* A burst altitude is recorded, to feed the burst prior, only for a       *)
(* flight whose climb was watched: its first frame lies well below it.     *)
BurstWasWatched ==
  Tracked /\ flight.burst # None => flight.burst - origin >= MinGain

(* As long as the process that heard the flight first is running, a burst  *)
(* altitude is recorded for the bursts after a climb it watched, and only  *)
(* for these; a burst called too early and taken back changes neither.     *)
BurstRecordedRight ==
  Tracked /\ flight.first # None =>
    /\ BurstWasWatched
    /\ "BURST" \in events /\ flight.max - flight.first >= MinGain => flight.burst # None

(* A flight in the air carries nothing over from an earlier close-out, and *)
(* a landing always has the altitude later pings are measured against.     *)
CloseOutsAreUndone ==
  /\ Tracked /\ InAir =>
       flight.expired = "no" /\ ~flight.byTimeout /\ flight.landedAlt = None
  /\ Tracked /\ Landed =>
       ((flight.expired = "no") <=> (flight.landedAlt # None))

(* A landing seen by telemetry is final: its flight is never reopened, in  *)
(* memory it only gives way to a relaunch or is evicted.                   *)
TouchdownIsFinal ==
  [][touched /\ flight' # flight =>
       flight'.state # "DESCENT" /\ "RESUMED" \notin events']_vars

Above(alt) == {a \in Alts : a > alt + NewAscentClimb}
Below(alt) == {a \in Alts : a < alt - RedescentDrop}
LastAllIn(n, S) ==
  /\ Len(since) >= n - 1
  /\ \A i \in (Len(since) - n + 2)..Len(since) : since[i] \in S
  /\ flight'.last \in S

(* A landed sonde's noise neither reopens nor relaunches its flight: that  *)
(* takes consecutive frames since the close-out, all clearly below (or     *)
(* above) the altitude at which the landing was declared.                  *)
ReopeningIsSustained ==
  [][Landed /\ flight.expired = "no" /\ flight' # flight =>
       /\ "NEW_FLIGHT" \in events' =>
            LastAllIn(NewAscentConsecutive, Above(flight.landedAlt))
       /\ "RESUMED" \in events' =>
            LastAllIn(RedescentConsecutive, Below(flight.landedAlt))]_vars

(* However the frames stop, a silent flight does not stay listed as in the *)
(* air: it is closed out, or heard again.                                  *)
SilentFlightCloses == (Tracked /\ InAir /\ gap > 0) ~> (~Tracked \/ Landed \/ gap = 0)

(* The tracker implements the life cycle the rest of the system counts on. *)
Lifecycle == INSTANCE FlightLifecycle WITH
  life <- IF Tracked
          THEN [state |-> flight.state, expired |-> flight.expired,
                provisional |-> flight.byTimeout]
          ELSE [state |-> "ABSENT", expired |-> "no", provisional |-> FALSE]
FollowsLifecycle == Lifecycle!Spec
=============================================================================
