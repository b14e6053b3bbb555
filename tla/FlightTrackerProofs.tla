------------------------- MODULE FlightTrackerProofs -------------------------
(***************************************************************************)
(* Proofs, for every set of altitudes and grounds and every threshold and  *)
(* timeout, of safety properties of the flight state machine, and that it  *)
(* implements FlightLifecycle.                                             *)
(***************************************************************************)
EXTENDS FlightTracker, SequenceTheorems, TLAPS

Rising == {"ASCENT", "FLOAT"}

(* A flight that came down, or is coming down, was high above ground.      *)
WasHigh(f) == \E g \in Grounds : f.max >= g + MinAirborne

(* What is true of every flight that is tracked.                           *)
Sound(f) ==
  /\ f \in Flight
  /\ f.state # "LANDED" => f.expired = "no" /\ ~f.byTimeout /\ f.landedAlt = None
  /\ f.state = "LANDED" => (f.expired = "no" <=> f.landedAlt # None)
  /\ f.expired # "no" => ~f.byTimeout
  /\ f.state \in Rising \/ f.expired \in Rising => f.burst = None
  /\ f.state = "DESCENT" \/ (f.state = "LANDED" /\ f.expired \notin Rising) => WasHigh(f)

(* The rest of the type invariant.                                         *)
Rest ==
  /\ gap \in 0..(Stale + 1)
  /\ events \subseteq {"NEW_FLIGHT", "BURST", "FLOAT", "LANDED", "EXPIRED", "RESUMED"}
  /\ restarts \in 0..MaxRestarts
  /\ origin \in AltOrNone
  /\ touched \in BOOLEAN
  /\ since \in Seq(Alts)

(* A landing seen by telemetry is neither provisional nor a close-out.     *)
TouchedIsDown ==
  touched => Tracked /\ flight.state = "LANDED" /\ flight.expired = "no" /\ ~flight.byTimeout

IInv == Rest /\ (flight = NoFlight \/ Sound(flight)) /\ TouchedIsDown

-----------------------------------------------------------------------------
(* The parts of _apply_frame.                                              *)

LEMMA FlightFields ==
  ASSUME NEW f \in Flight
  PROVE  /\ f.state \in {"ASCENT", "FLOAT", "DESCENT", "LANDED"}
         /\ f.max \in Nat /\ f.max \in Alts /\ f.last \in Alts /\ f.last \in Nat
         /\ f.under \in Grounds /\ f.under \in Nat
         /\ f.first \in AltOrNone /\ f.first \in Int
         /\ f.burst \in AltOrNone /\ f.burst \in Int
         /\ f.landedAlt \in AltOrNone /\ f.landedAlt \in Int
         /\ f.expired \in {"ASCENT", "FLOAT", "DESCENT", "no"}
         /\ f.byTimeout \in BOOLEAN /\ f.ascended \in BOOLEAN /\ f.paired \in BOOLEAN
         /\ f.neg \in 0..BurstConsecutive /\ f.floatFor \in -1..FloatWindow
         /\ f.glitch \in 0..GlitchAcceptAfter
         /\ f.reascent \in 0..NewAscentConsecutive /\ f.redescent \in 0..RedescentConsecutive
         /\ f # NoFlight
<1>1. AltOrNone \subseteq Int /\ Alts \subseteq Nat /\ Grounds \subseteq Nat
  BY TrackerAssumption DEF AltOrNone, None
<1>2. /\ f.state \in {"ASCENT", "FLOAT", "DESCENT", "LANDED"}
      /\ f.expired \in {"ASCENT", "FLOAT", "DESCENT", "no"}
      /\ f.byTimeout \in BOOLEAN /\ f.ascended \in BOOLEAN /\ f.paired \in BOOLEAN
  BY DEF Flight, InAirStates
<1>3. f.max \in Alts /\ f.last \in Alts /\ f.under \in Grounds
  BY DEF Flight
<1>4. f.first \in AltOrNone /\ f.burst \in AltOrNone /\ f.landedAlt \in AltOrNone
  BY DEF Flight
<1>5. /\ f.neg \in 0..BurstConsecutive /\ f.floatFor \in -1..FloatWindow
      /\ f.glitch \in 0..GlitchAcceptAfter
      /\ f.reascent \in 0..NewAscentConsecutive /\ f.redescent \in 0..RedescentConsecutive
  BY DEF Flight
<1>6. f # NoFlight
  BY <1>2 DEF NoFlight
<1> QED  BY <1>1, <1>2, <1>3, <1>4, <1>5, <1>6

LEMMA FrameFields ==
  ASSUME NEW fr \in Frame
  PROVE  /\ fr.alt \in Alts /\ fr.alt \in Nat /\ fr.ground \in Grounds /\ fr.ground \in Nat
         /\ fr.rate \in Rates
BY TrackerAssumption DEF Frame

LEMMA ObservedForm ==
  ASSUME NEW f \in Flight, NEW fr \in Frame
  PROVE  LET g == Observed(f, fr)
         IN  /\ g \in Flight
             /\ g.max >= f.max /\ g.max >= fr.alt
             /\ g.state = f.state /\ g.expired = f.expired /\ g.byTimeout = f.byTimeout
             /\ g.landedAlt = f.landedAlt /\ g.burst = f.burst
             /\ g.neg = f.neg /\ g.floatFor = f.floatFor
<1> DEFINE top == Most(f.max, fr.alt)
           up == f.ascended \/ (f.first # None /\ top - f.first >= MinGain)
<1>1. top \in Alts /\ top >= f.max /\ top >= fr.alt
  BY FlightFields, FrameFields DEF Most
<1>2. up \in BOOLEAN
  BY FlightFields
<1>3. Observed(f, fr) = [f EXCEPT !.max = top, !.ascended = up]
  BY DEF Observed
<1> HIDE DEF top, up
<1>4. [f EXCEPT !.max = top, !.ascended = up] \in Flight
  BY <1>1, <1>2 DEF Flight
<1> QED  BY <1>1, <1>3, <1>4 DEF Flight

LEMMA CountsTyped ==
  ASSUME NEW f \in Flight, NEW fr \in Frame, gap \in 0..(Stale + 1)
  PROVE  NegCount(f, fr) \in 0..BurstConsecutive /\ FloatFor(f, fr) \in -1..FloatWindow
<1>1. NegCount(f, fr) \in 0..BurstConsecutive
  BY FlightFields, TrackerAssumption DEF NegCount, Least
<1>2. FloatFor(f, fr) \in -1..FloatWindow
  BY FlightFields, TrackerAssumption DEF FloatFor, Least, None
<1> QED  BY <1>1, <1>2

LEMMA ClimbingForm ==
  ASSUME NEW g \in Flight, NEW fr \in Frame, gap \in 0..(Stale + 1)
  PROVE  LET h == Climbing(g, fr)
         IN  /\ h \in Flight
             /\ h.max = g.max /\ h.expired = g.expired /\ h.byTimeout = g.byTimeout
             /\ h.landedAlt = g.landedAlt
             /\ g.state \notin Rising => h = g /\ ~BurstCalled(g, fr)
             /\ BurstCalled(g, fr) =>
                  h.state = "DESCENT" /\ h.burst \in {g.max, g.burst} /\ WasHigh(h)
             /\ ~BurstCalled(g, fr) => h.burst = g.burst
             /\ ~BurstCalled(g, fr) /\ g.state = "FLOAT" => h.state = "FLOAT"
             /\ ~BurstCalled(g, fr) /\ g.state = "ASCENT" =>
                  h.state \in Rising /\ (h.state = "FLOAT" => g.floatFor # None)
<1> DEFINE n == NegCount(g, fr)
           w == FloatFor(g, fr)
           b == BurstAlt(g)
<1>1. n \in 0..BurstConsecutive /\ w \in -1..FloatWindow
  BY CountsTyped
<1>2. b \in AltOrNone /\ b \in {g.max, g.burst}
  BY FlightFields DEF BurstAlt, AltOrNone, None
<1>3. CASE g.state \notin Rising
  BY <1>3 DEF Climbing, Rising, BurstCalled
<1>4. CASE g.state \in Rising /\ BurstCalled(g, fr)
  <2>1. Climbing(g, fr) = [g EXCEPT !.state = "DESCENT", !.neg = n, !.floatFor = None, !.burst = b]
    BY <1>4 DEF Climbing, Rising
  <2>2. \E x \in Grounds : g.max >= x + MinAirborne
    BY <1>4, FrameFields DEF BurstCalled, FlewHigh
  <2> HIDE DEF n, w, b
  <2>3. None \in -1..FloatWindow
    BY TrackerAssumption DEF None
  <2>4. [g EXCEPT !.state = "DESCENT", !.neg = n, !.floatFor = None, !.burst = b] \in Flight
    BY <1>1, <1>2, <2>3 DEF Flight, InAirStates
  <2>5. /\ Climbing(g, fr).state = "DESCENT" /\ Climbing(g, fr).burst = b
        /\ Climbing(g, fr).max = g.max /\ Climbing(g, fr).expired = g.expired
        /\ Climbing(g, fr).byTimeout = g.byTimeout /\ Climbing(g, fr).landedAlt = g.landedAlt
    BY <2>1 DEF Flight
  <2> QED  BY <1>2, <1>4, <2>1, <2>2, <2>4, <2>5 DEF WasHigh, Rising
<1>5. CASE g.state = "ASCENT" /\ ~BurstCalled(g, fr)
  <2> DEFINE t == IF FloatCalled(g, fr) THEN "FLOAT" ELSE "ASCENT"
  <2>1. Climbing(g, fr) = [g EXCEPT !.state = t, !.neg = n, !.floatFor = w]
    BY <1>5 DEF Climbing
  <2>2. t \in Rising /\ (t = "FLOAT" => g.floatFor # None)
    BY DEF FloatCalled, Rising
  <2> HIDE DEF n, w, t
  <2>3. [g EXCEPT !.state = t, !.neg = n, !.floatFor = w] \in Flight
    BY <1>1, <2>2 DEF Flight, InAirStates, Rising
  <2>4. /\ Climbing(g, fr).state = t /\ Climbing(g, fr).burst = g.burst
        /\ Climbing(g, fr).max = g.max /\ Climbing(g, fr).expired = g.expired
        /\ Climbing(g, fr).byTimeout = g.byTimeout /\ Climbing(g, fr).landedAlt = g.landedAlt
    BY <2>1 DEF Flight
  <2> QED  BY <1>5, <2>1, <2>2, <2>3, <2>4 DEF Rising
<1>6. CASE g.state = "FLOAT" /\ ~BurstCalled(g, fr)
  <2>1. Climbing(g, fr) = [g EXCEPT !.neg = n]
    BY <1>6 DEF Climbing
  <2> HIDE DEF n
  <2>2. [g EXCEPT !.neg = n] \in Flight
    BY <1>1 DEF Flight
  <2>3. /\ Climbing(g, fr).state = g.state /\ Climbing(g, fr).burst = g.burst
        /\ Climbing(g, fr).max = g.max /\ Climbing(g, fr).expired = g.expired
        /\ Climbing(g, fr).byTimeout = g.byTimeout /\ Climbing(g, fr).landedAlt = g.landedAlt
    BY <2>1 DEF Flight
  <2> QED  BY <1>6, <2>1, <2>2, <2>3 DEF Rising
<1> QED  BY <1>3, <1>4, <1>5, <1>6 DEF Rising

LEMMA FallingForm ==
  ASSUME NEW h \in Flight, NEW fr \in Frame
  PROVE  LET k == FallingOn(h, fr)
         IN  /\ k \in Flight
             /\ k.max = h.max /\ k.expired = h.expired /\ k.byTimeout = h.byTimeout
             /\ \/ k = h
                \/ /\ h.state = "DESCENT" /\ Reverted(h, fr)
                   /\ k.state = "ASCENT" /\ k.burst = None /\ k.landedAlt = h.landedAlt
                \/ h.state = "DESCENT" /\ k.state = "LANDED" /\ k.landedAlt \in Alts
<1>1. CASE h.state = "DESCENT" /\ Reverted(h, fr)
  <2>1. FallingOn(h, fr) =
          [h EXCEPT !.state = "ASCENT", !.burst = None, !.neg = 0, !.floatFor = None]
    BY <1>1 DEF FallingOn
  <2>2. None \in -1..FloatWindow /\ 0 \in 0..BurstConsecutive
    BY TrackerAssumption DEF None
  <2>3. [h EXCEPT !.state = "ASCENT", !.burst = None, !.neg = 0, !.floatFor = None] \in Flight
    BY <2>2 DEF Flight, InAirStates, AltOrNone
  <2> QED  BY <1>1, <2>1, <2>3 DEF Flight
<1>2. CASE h.state = "DESCENT" /\ ~Reverted(h, fr) /\ Falling(fr.rate)
           /\ fr.alt <= fr.ground + LandedBand
  <2>1. FallingOn(h, fr) = [h EXCEPT !.state = "LANDED", !.landedAlt = fr.alt]
    BY <1>2 DEF FallingOn
  <2>2. [h EXCEPT !.state = "LANDED", !.landedAlt = fr.alt] \in Flight
    BY FrameFields DEF Flight, AltOrNone
  <2> QED  BY <1>2, <2>1, <2>2, FrameFields DEF Flight
<1>3. CASE h.state # "DESCENT"
  <2>1. FallingOn(h, fr) = h
    BY <1>3 DEF FallingOn
  <2> QED  BY <2>1
<1>4. CASE /\ h.state = "DESCENT" /\ ~Reverted(h, fr)
           /\ ~(Falling(fr.rate) /\ fr.alt <= fr.ground + LandedBand)
  <2>1. FallingOn(h, fr) = h
    BY <1>4 DEF FallingOn
  <2> QED  BY <2>1
<1> QED  BY <1>1, <1>2, <1>3, <1>4

(* What a frame makes of a flight: the flight after it, and the events.    *)
Outcome(f, k, evs) ==
  \/ k.state = f.state /\ evs = {} /\ k.burst = f.burst /\ k.landedAlt = f.landedAlt
  \/ /\ f.state = "ASCENT" /\ k.state = "FLOAT" /\ evs = {"FLOAT"}
     /\ k.burst = f.burst /\ k.landedAlt = f.landedAlt
  \/ /\ f.state \in Rising /\ k.state = "DESCENT" /\ evs = {"BURST"}
     /\ WasHigh(k) /\ k.landedAlt = f.landedAlt
  \/ /\ f.state \in Rising /\ k.state = "LANDED" /\ evs = {"BURST", "LANDED"}
     /\ WasHigh(k) /\ k.landedAlt \in Alts
  \/ /\ f.state = "DESCENT" /\ k.state = "ASCENT" /\ evs = {}
     /\ k.burst = None /\ k.landedAlt = f.landedAlt
  \/ f.state = "DESCENT" /\ k.state = "LANDED" /\ evs = {"LANDED"} /\ k.landedAlt \in Alts

LEMMA FrameOutcome ==
  ASSUME NEW f \in Flight, NEW fr \in Frame, gap \in 0..(Stale + 1),
         f.state \in Rising => f.burst = None
  PROVE  LET k == Applied(f, fr)
         IN  /\ k \in Flight
             /\ k.max >= f.max /\ k.expired = f.expired /\ k.byTimeout = f.byTimeout
             /\ Outcome(f, k, Announced(f, fr))
<1> DEFINE g == Observed(f, fr)
           h == Climbing(g, fr)
           m == FallingOn(h, fr)
           k == [m EXCEPT !.last = fr.alt, !.under = fr.ground, !.paired = TRUE]
           evs == Announced(f, fr)
<1>1. /\ g \in Flight /\ g.max >= f.max /\ g.max >= fr.alt
      /\ g.state = f.state /\ g.expired = f.expired /\ g.byTimeout = f.byTimeout
      /\ g.landedAlt = f.landedAlt /\ g.burst = f.burst
  BY ObservedForm
<1> HIDE DEF g
<1>2. /\ h \in Flight
      /\ h.max = g.max /\ h.expired = g.expired /\ h.byTimeout = g.byTimeout
      /\ h.landedAlt = g.landedAlt
      /\ g.state \notin Rising => h = g /\ ~BurstCalled(g, fr)
      /\ BurstCalled(g, fr) => h.state = "DESCENT" /\ h.burst \in {g.max, g.burst} /\ WasHigh(h)
      /\ ~BurstCalled(g, fr) => h.burst = g.burst
      /\ ~BurstCalled(g, fr) /\ g.state = "FLOAT" => h.state = "FLOAT"
      /\ ~BurstCalled(g, fr) /\ g.state = "ASCENT" => h.state \in Rising
  BY <1>1, ClimbingForm
<1>3. /\ evs \subseteq {"BURST", "FLOAT", "LANDED"}
      /\ "BURST" \in evs <=> BurstCalled(g, fr)
      /\ "FLOAT" \in evs <=> (g.state = "ASCENT" /\ h.state = "FLOAT")
      /\ "LANDED" \in evs <=> (h.state = "DESCENT" /\ m.state = "LANDED")
  <2> HIDE DEF h, m
  <2>1. evs = {e \in {"BURST", "FLOAT", "LANDED"} :
                CASE e = "BURST" -> BurstCalled(g, fr)
                  [] e = "FLOAT" -> g.state = "ASCENT" /\ h.state = "FLOAT"
                  [] e = "LANDED" -> h.state = "DESCENT" /\ m.state = "LANDED"}
    BY DEF Announced, g, h, m
  <2> HIDE DEF evs
  <2> QED  BY <2>1
<1> HIDE DEF h, evs
<1>4. /\ m \in Flight
      /\ m.max = h.max /\ m.expired = h.expired /\ m.byTimeout = h.byTimeout
      /\ \/ m = h
         \/ /\ h.state = "DESCENT" /\ Reverted(h, fr)
            /\ m.state = "ASCENT" /\ m.burst = None /\ m.landedAlt = h.landedAlt
         \/ h.state = "DESCENT" /\ m.state = "LANDED" /\ m.landedAlt \in Alts
  BY <1>2, FallingForm
<1> HIDE DEF m
<1>5. /\ k \in Flight
      /\ k.max = m.max /\ k.state = m.state /\ k.expired = m.expired
      /\ k.byTimeout = m.byTimeout /\ k.landedAlt = m.landedAlt /\ k.burst = m.burst
  BY <1>4, FrameFields DEF Flight
<1>6. Applied(f, fr) = k
  BY DEF Applied, g, h, m
<1> HIDE DEF k
<1>7. BurstCalled(g, fr) => ~Reverted(h, fr) /\ f.state \in Rising
  <2> SUFFICES ASSUME BurstCalled(g, fr) PROVE ~Reverted(h, fr) /\ f.state \in Rising
    OBVIOUS
  <2>1. f.state \in Rising
    BY <1>1, <1>2
  <2>2. h.burst = None \/ h.burst = g.max
    BY <1>1, <1>2, <2>1
  <2>3. g.max \in Nat /\ fr.alt \in Nat /\ RevertClimb \in Nat
    BY <1>1, FlightFields, FrameFields, TrackerAssumption
  <2> QED  BY <1>1, <2>1, <2>2, <2>3 DEF Reverted
<1>8. Outcome(f, k, evs)
  <2>1. f.state \in {"ASCENT", "FLOAT", "DESCENT", "LANDED"}
    BY FlightFields
  <2>2. CASE BurstCalled(g, fr)
    <3>1. h.state = "DESCENT" /\ f.state \in Rising
      BY <1>2, <1>7, <2>2
    <3>5. "BURST" \in evs
      BY <1>3, <2>2
    <3>6. "FLOAT" \notin evs
      BY <1>3, <3>1
    <3>2. WasHigh(k)
      BY <1>2, <1>4, <1>5, <2>2 DEF WasHigh
    <3>3. CASE m = h
      <4>1. "LANDED" \notin evs
        BY <1>3, <3>1, <3>3, <3>6
      <4>2. evs = {"BURST"}
        BY <1>3, <3>1, <3>5, <3>6, <4>1
      <4> QED  BY <1>1, <1>2, <1>5, <3>1, <3>2, <3>3, <4>2 DEF Outcome
    <3>4. CASE m.state = "LANDED" /\ m.landedAlt \in Alts
      <4>1. evs = {"BURST", "LANDED"}
        BY <1>3, <3>1, <3>4, <3>5, <3>6
      <4> QED  BY <1>5, <3>1, <3>2, <3>4, <4>1 DEF Outcome
    <3> QED  BY <1>4, <1>7, <2>2, <3>3, <3>4
  <2>3. CASE ~BurstCalled(g, fr) /\ f.state \in Rising
    <3>1. m = h /\ h.state \in Rising /\ h.burst = f.burst
      BY <1>1, <1>2, <1>4, <2>3 DEF Rising
    <3>2. CASE f.state = "ASCENT" /\ h.state = "FLOAT"
      <4>1. "FLOAT" \in evs /\ "BURST" \notin evs
        BY <1>1, <1>3, <2>3, <3>2
      <4>2. "LANDED" \notin evs
        BY <1>3, <3>2
      <4>3. evs = {"FLOAT"}
        BY <1>3, <4>1, <4>2
      <4> QED  BY <1>1, <1>2, <1>5, <3>1, <3>2, <4>3 DEF Outcome
    <3>3. CASE h.state = f.state
      <4>1. evs = {}
        BY <1>1, <1>3, <2>3, <3>1, <3>3 DEF Rising
      <4> QED  BY <1>1, <1>2, <1>5, <3>1, <3>3, <4>1 DEF Outcome
    <3> QED  BY <1>1, <1>2, <2>3, <3>1, <3>2, <3>3 DEF Rising
  <2>4. CASE f.state \notin Rising
    <3>1. h = g /\ ~BurstCalled(g, fr)
      BY <1>1, <1>2, <2>4
    <3>2. CASE m = h
      <4>1. evs = {}
        BY <1>1, <1>3, <2>4, <3>1, <3>2 DEF Rising
      <4> QED  BY <1>1, <1>5, <3>1, <3>2, <4>1 DEF Outcome
    <3>3. CASE /\ h.state = "DESCENT" /\ m.state = "ASCENT" /\ m.burst = None
               /\ m.landedAlt = h.landedAlt
      <4>1. evs = {}
        BY <1>1, <1>3, <3>1, <3>3
      <4> QED  BY <1>1, <1>5, <3>1, <3>3, <4>1 DEF Outcome
    <3>4. CASE h.state = "DESCENT" /\ m.state = "LANDED" /\ m.landedAlt \in Alts
      <4>1. evs = {"LANDED"}
        BY <1>1, <1>3, <3>1, <3>4
      <4> QED  BY <1>1, <1>5, <3>1, <3>4, <4>1 DEF Outcome
    <3> QED  BY <1>4, <3>2, <3>3, <3>4
  <2> QED  BY <2>2, <2>3, <2>4
<1>9. k.max >= f.max
  BY <1>1, <1>2, <1>4, <1>5
<1> QED  BY <1>1, <1>2, <1>4, <1>5, <1>6, <1>8, <1>9 DEF evs

(* A frame leaves a landed flight landed, and a new one climbing.          *)
LEMMA LandedStays ==
  ASSUME NEW f \in Flight, NEW fr \in Frame, gap \in 0..(Stale + 1), f.state = "LANDED"
  PROVE  LET k == Applied(f, fr)
         IN  /\ k \in Flight
             /\ k.max >= f.max /\ k.expired = f.expired /\ k.byTimeout = f.byTimeout
             /\ k.state = "LANDED" /\ k.burst = f.burst /\ k.landedAlt = f.landedAlt
             /\ Announced(f, fr) = {}
BY FrameOutcome DEF Outcome, Rising

JustSeen(f, fr) ==
  /\ f \in Flight
  /\ f.state = "ASCENT" /\ f.max = fr.alt /\ f.floatFor = None
  /\ f.expired = "no" /\ ~f.byTimeout /\ f.burst = None /\ f.landedAlt = None

LEMMA NewFlightForm ==
  ASSUME NEW fr \in Frame
  PROVE  JustSeen(NewFlight(fr), fr)
<1>1. /\ None \in AltOrNone /\ fr.alt \in AltOrNone
      /\ 0 \in 0..BurstConsecutive /\ None \in -1..FloatWindow /\ 0 \in 0..GlitchAcceptAfter
      /\ 0 \in 0..NewAscentConsecutive /\ 0 \in 0..RedescentConsecutive
  BY FrameFields, TrackerAssumption DEF None, AltOrNone
<1> QED  BY <1>1, FrameFields DEF NewFlight, Flight, InAirStates, JustSeen

LEMMA NewFlightClimbs ==
  ASSUME NEW fr \in Frame, gap \in 0..(Stale + 1), NEW f, JustSeen(f, fr)
  PROVE  LET k == Applied(f, fr)
         IN  /\ k \in Flight
             /\ k.state = "ASCENT" /\ k.expired = "no" /\ ~k.byTimeout
             /\ k.burst = None /\ k.landedAlt = None
             /\ Announced(f, fr) = {}
<1> DEFINE g == Observed(f, fr)
<1>1. /\ f \in Flight
      /\ f.state = "ASCENT" /\ f.max = fr.alt /\ f.floatFor = None
      /\ f.expired = "no" /\ ~f.byTimeout /\ f.burst = None /\ f.landedAlt = None
  BY DEF JustSeen
<1>2. /\ g \in Flight /\ g.state = "ASCENT" /\ g.floatFor = None /\ g.max >= fr.alt
      /\ g.max = fr.alt
  <2>1. g \in Flight /\ g.state = "ASCENT" /\ g.floatFor = None
    BY <1>1, ObservedForm
  <2>2. g.max = Most(f.max, fr.alt)
    BY <1>1 DEF Observed, Flight
  <2> QED  BY <1>1, <2>1, <2>2, FrameFields DEF Most
<1> HIDE DEF g
<1>3. ~BurstCalled(g, fr)
  <2>1. ~(fr.alt < g.max - BurstDrop)
    BY <1>2, FrameFields, TrackerAssumption
  <2>2. NegCount(g, fr) = 0
    BY <2>1 DEF NegCount
  <2>3. 0 < BurstConsecutive
    BY TrackerAssumption
  <2> QED  BY <2>2, <2>3, TrackerAssumption DEF BurstCalled
<1>4. Climbing(g, fr).state = "ASCENT"
  <2>1. /\ Climbing(g, fr).state \in Rising
        /\ Climbing(g, fr).state = "FLOAT" => g.floatFor # None
    BY <1>2, <1>3, ClimbingForm
  <2> QED  BY <1>2, <2>1 DEF Rising
<1>5. Announced(f, fr) = {}
  BY <1>3, <1>4 DEF Announced, g
<1>6. /\ Applied(f, fr) \in Flight
      /\ Applied(f, fr).expired = f.expired /\ Applied(f, fr).byTimeout = f.byTimeout
      /\ Outcome(f, Applied(f, fr), {})
  BY <1>1, <1>5, FrameOutcome
<1>7. /\ Applied(f, fr).state = "ASCENT"
      /\ Applied(f, fr).burst = None /\ Applied(f, fr).landedAlt = None
  BY <1>1, <1>6 DEF Outcome, Rising
<1> QED  BY <1>1, <1>5, <1>6, <1>7

-----------------------------------------------------------------------------
(* The steps.                                                              *)

(* What every accepted frame does to the rest of the state.                *)
LEMMA AcceptKeepsRest ==
  ASSUME Rest, NEW f \in Flight, NEW fr \in Frame, NEW evs,
         evs \subseteq {"NEW_FLIGHT", "RESUMED"}, origin' \in AltOrNone,
         Accept(f, fr, evs)
  PROVE  Rest'
<1>1. /\ gap' = 0 /\ restarts' = restarts /\ events' = evs \cup Announced(Unglitched(f, fr), fr)
      /\ touched' \in BOOLEAN
  BY DEF Accept
<1>2. Announced(Unglitched(f, fr), fr) \subseteq {"BURST", "FLOAT", "LANDED"}
  BY DEF Announced
<1>3. since' \in Seq(Alts)
  <2>1. CASE ~(flight'.state = "LANDED" /\ Landed)
    <3>1. since' = <<>>
      BY <2>1 DEF Accept
    <3> QED  BY <3>1
  <2>2. CASE flight'.state = "LANDED" /\ Landed
    <3> DEFINE s == Append(since, fr.alt)
               m == Most(1, Len(s) - Most(NewAscentConsecutive, RedescentConsecutive) + 2)
    <3>1. s \in Seq(Alts)
      BY FrameFields DEF Rest
    <3>2. since' = SubSeq(s, m, Len(s))
      BY <2>2 DEF Accept
    <3>3. Len(s) \in Nat
      BY <3>1
    <3>7. Most(NewAscentConsecutive, RedescentConsecutive) \in Int
      BY TrackerAssumption DEF Most
    <3>4. m \in Int /\ m >= 1
      BY <3>3, <3>7 DEF Most
    <3> HIDE DEF s, m
    <3>5. \A i \in m..Len(s) : s[i] \in Alts
      BY <3>1, <3>4
    <3> QED  BY <3>2, <3>3, <3>4, <3>5, SubSeqProperties
  <2> QED  BY <2>1, <2>2
<1>4. gap' \in 0..(Stale + 1)
  BY <1>1, TrackerAssumption
<1> QED  BY <1>1, <1>2, <1>3, <1>4 DEF Rest

(* Having been high is never lost.                                         *)
LEMMA HighStays ==
  ASSUME NEW f \in Flight, NEW k \in Flight, WasHigh(f), k.max >= f.max
  PROVE  WasHigh(k)
<1>1. PICK g \in Grounds : f.max >= g + MinAirborne
  BY DEF WasHigh
<1>2. k.max >= g + MinAirborne
  BY <1>1, FlightFields, TrackerAssumption
<1> QED  BY <1>2 DEF WasHigh

LEMMA UnglitchedForm ==
  ASSUME NEW f \in Flight, NEW fr
  PROVE  LET h == Unglitched(f, fr)
         IN  /\ h \in Flight
             /\ h.state = f.state /\ h.max = f.max /\ h.burst = f.burst
             /\ h.floatFor = f.floatFor
             /\ h.expired = f.expired /\ h.byTimeout = f.byTimeout /\ h.landedAlt = f.landedAlt
<1>1. 0 \in 0..GlitchAcceptAfter
  BY TrackerAssumption
<1>2. LET h == [f EXCEPT !.glitch = 0]
      IN  /\ h \in Flight
          /\ h.state = f.state /\ h.max = f.max /\ h.burst = f.burst
          /\ h.floatFor = f.floatFor
          /\ h.expired = f.expired /\ h.byTimeout = f.byTimeout /\ h.landedAlt = f.landedAlt
  BY <1>1 DEF Flight
<1> QED  BY <1>2 DEF Unglitched

(* A frame heard by a flight in the air leaves a sound flight.             *)
LEMMA AirborneAccept ==
  ASSUME NEW f, Sound(f), f.state # "LANDED", gap \in 0..(Stale + 1),
         NEW fr \in Frame, NEW evs, Accept(f, fr, evs)
  PROVE  /\ Sound(flight') /\ TouchedIsDown'
         /\ flight'.expired = "no" /\ ~flight'.byTimeout
         /\ \E e : events' = evs \cup e /\ Outcome(f, flight', e)
<1> DEFINE u == Unglitched(f, fr)
           k == flight'
           e == Announced(u, fr)
<1>1. /\ u \in Flight
      /\ u.state = f.state /\ u.max = f.max /\ u.burst = f.burst
      /\ u.expired = f.expired /\ u.byTimeout = f.byTimeout /\ u.landedAlt = f.landedAlt
  BY UnglitchedForm DEF Sound
<1>2. /\ f \in Flight
      /\ f.expired = "no" /\ ~f.byTimeout /\ f.landedAlt = None
      /\ f.state \in Rising => f.burst = None
      /\ f.state = "DESCENT" => WasHigh(f)
      /\ f.state \in {"ASCENT", "FLOAT", "DESCENT"}
  BY FlightFields DEF Sound
<1>3. k = Applied(u, fr) /\ events' = evs \cup e
  BY DEF Accept
<1> HIDE DEF u, e
<1>4. /\ k \in Flight
      /\ k.max >= u.max /\ k.expired = u.expired /\ k.byTimeout = u.byTimeout
      /\ Outcome(u, k, e)
  BY <1>1, <1>2, <1>3, FrameOutcome DEF e
<1>5. Outcome(f, k, e)
  BY <1>1, <1>4 DEF Outcome
<1>6. k.expired = "no" /\ ~k.byTimeout
  BY <1>1, <1>2, <1>4
<1>7. f.state = "DESCENT" => WasHigh(k)
  BY <1>1, <1>2, <1>4, HighStays
<1>8. None \notin Alts
  BY TrackerAssumption DEF None
<1> HIDE DEF k
<1>9. Sound(k)
  <2>1. k.state # "LANDED" => k.landedAlt = None
    BY <1>2, <1>5 DEF Outcome
  <2>2. k.state = "LANDED" => k.landedAlt # None
    BY <1>2, <1>5, <1>8 DEF Outcome
  <2>3. k.state \in Rising => k.burst = None
    BY <1>2, <1>5 DEF Outcome, Rising
  <2>4. k.state \in {"DESCENT", "LANDED"} => WasHigh(k)
    BY <1>2, <1>5, <1>7 DEF Outcome, Rising
  <2> QED  BY <1>4, <1>6, <2>1, <2>2, <2>3, <2>4 DEF Sound, Rising
<1>10. touched' => k.state = "LANDED"
  BY DEF Accept, k
<1>11. k # NoFlight
  BY <1>4, FlightFields
<1> QED  BY <1>3, <1>5, <1>6, <1>9, <1>10, <1>11 DEF TouchedIsDown, Tracked, k

(* The flight as FlightLifecycle has it.                                   *)
Life(f) ==
  IF f # NoFlight
  THEN [state |-> f.state, expired |-> f.expired, provisional |-> f.byTimeout]
  ELSE [state |-> "ABSENT", expired |-> "no", provisional |-> FALSE]

(* A step that hears a frame is one of the outcomes the life cycle allows. *)
IsHeard(l, evs) == \E o \in Lifecycle!Heard(Life(flight)) : l = o.life /\ evs = o.events

(* The outcomes of a frame for a flight in the air, in the life cycle.     *)
LEMMA OutcomeIsFlown ==
  ASSUME NEW f \in Flight, NEW k \in Flight, NEW evs, f.state \in InAirStates,
         Outcome(f, k, evs), k.expired = "no", ~k.byTimeout
  PROVE  \E o \in Lifecycle!Flown(f.state) : Life(k) = o.life /\ evs = o.events
<1> DEFINE Out(s, e) == [life |-> [state |-> s, expired |-> "no", provisional |-> FALSE],
                         events |-> e]
<1>1. Life(k) = [state |-> k.state, expired |-> "no", provisional |-> FALSE]
  BY FlightFields DEF Life
<1>2. Out(f.state, {}) \in Lifecycle!Flown(f.state)
  BY DEF Lifecycle!Flown, Lifecycle!To, Lifecycle!Airborne
<1>3. f.state = "ASCENT" =>
        /\ Out("FLOAT", {"FLOAT"}) \in Lifecycle!Flown(f.state)
        /\ Out("DESCENT", {"BURST"}) \in Lifecycle!Flown(f.state)
        /\ Out("LANDED", {"BURST", "LANDED"}) \in Lifecycle!Flown(f.state)
  BY DEF Lifecycle!Flown, Lifecycle!To, Lifecycle!Airborne, Lifecycle!Down
<1>4. f.state = "FLOAT" =>
        /\ Out("DESCENT", {"BURST"}) \in Lifecycle!Flown(f.state)
        /\ Out("LANDED", {"BURST", "LANDED"}) \in Lifecycle!Flown(f.state)
  BY DEF Lifecycle!Flown, Lifecycle!To, Lifecycle!Airborne, Lifecycle!Down
<1>5. f.state = "DESCENT" =>
        /\ Out("ASCENT", {}) \in Lifecycle!Flown(f.state)
        /\ Out("LANDED", {"LANDED"}) \in Lifecycle!Flown(f.state)
  BY DEF Lifecycle!Flown, Lifecycle!To, Lifecycle!Airborne, Lifecycle!Down
<1>6. Out(k.state, evs) \in Lifecycle!Flown(f.state)
  BY <1>2, <1>3, <1>4, <1>5 DEF Outcome, Rising
<1>7. Life(k) = Out(k.state, evs).life /\ evs = Out(k.state, evs).events
  BY <1>1
<1> QED  BY <1>6, <1>7

LEMMA LaunchAccept ==
  ASSUME gap \in 0..(Stale + 1), NEW fr \in Frame,
         Accept(NewFlight(fr), fr, {"NEW_FLIGHT"})
  PROVE  /\ Sound(flight') /\ TouchedIsDown'
         /\ flight'.state = "ASCENT" /\ events' = {"NEW_FLIGHT"}
         /\ Life(flight') = [state |-> "ASCENT", expired |-> "no", provisional |-> FALSE]
<1> DEFINE f == Unglitched(NewFlight(fr), fr)
<1>1. /\ Applied(f, fr) \in Flight
      /\ Applied(f, fr).state = "ASCENT" /\ Applied(f, fr).expired = "no"
      /\ ~Applied(f, fr).byTimeout
      /\ Applied(f, fr).burst = None /\ Applied(f, fr).landedAlt = None
      /\ Announced(f, fr) = {}
  <2>1. JustSeen(f, fr)
    BY NewFlightForm, UnglitchedForm DEF JustSeen
  <2> QED  BY <2>1, NewFlightClimbs
<1>3. flight' = Applied(f, fr) /\ events' = {"NEW_FLIGHT"}
  BY <1>1 DEF Accept
<1> HIDE DEF f
<1>4. Sound(flight')
  BY <1>1, <1>3 DEF Sound, Rising
<1>5. ~touched'
  BY <1>1, <1>3 DEF Accept
<1>6. flight' # NoFlight /\ flight'.byTimeout = FALSE
  BY <1>1, <1>3, FlightFields
<1> QED  BY <1>1, <1>3, <1>4, <1>5, <1>6 DEF TouchedIsDown, Life

LEMMA SoundFields ==
  ASSUME NEW f, Sound(f)
  PROVE  /\ f \in Flight /\ f # NoFlight
         /\ f.state \in {"ASCENT", "FLOAT", "DESCENT", "LANDED"}
         /\ f.expired \in {"ASCENT", "FLOAT", "DESCENT", "no"}
         /\ f.byTimeout \in BOOLEAN
         /\ Life(f) = [state |-> f.state, expired |-> f.expired, provisional |-> f.byTimeout]
BY FlightFields DEF Sound, Life

LEMMA LandedAccept ==
  ASSUME NEW f, Sound(f), f.state = "LANDED", gap \in 0..(Stale + 1), NEW fr \in Frame,
         Accept(f, fr, {})
  PROVE  Sound(flight') /\ Life(flight') = Life(f) /\ events' = {}
<1> DEFINE u == Unglitched(f, fr)
           k == flight'
<1>1. /\ f \in Flight
      /\ u \in Flight
      /\ u.state = f.state /\ u.max = f.max /\ u.burst = f.burst
      /\ u.expired = f.expired /\ u.byTimeout = f.byTimeout /\ u.landedAlt = f.landedAlt
  BY UnglitchedForm DEF Sound
<1>2. k = Applied(u, fr) /\ events' = Announced(u, fr)
  BY DEF Accept
<1> HIDE DEF u, k
<1>3. /\ k \in Flight
      /\ k.max >= u.max /\ k.expired = u.expired /\ k.byTimeout = u.byTimeout
      /\ k.state = "LANDED" /\ k.burst = u.burst /\ k.landedAlt = u.landedAlt
      /\ events' = {}
  BY <1>1, <1>2, LandedStays
<1>4. WasHigh(f) => WasHigh(k)
  BY <1>1, <1>3, HighStays
<1>6. /\ k.state = f.state /\ k.burst = f.burst /\ k.expired = f.expired
      /\ k.byTimeout = f.byTimeout /\ k.landedAlt = f.landedAlt
  BY <1>1, <1>3
<1>7. /\ f.expired = "no" <=> f.landedAlt # None
      /\ f.expired # "no" => ~f.byTimeout
      /\ f.expired \in Rising => f.burst = None
      /\ f.expired \notin Rising => WasHigh(f)
      /\ f.state \notin Rising /\ f.state = "LANDED"
  BY DEF Sound, Rising
<1>5. Sound(k)
  BY <1>3, <1>4, <1>6, <1>7 DEF Sound
<1> QED  BY <1>3, <1>5, <1>6, SoundFields DEF k

LEMMA HearFirstKeeps ==
  ASSUME IInv, NEW fr \in Frame, HearFirst(fr)
  PROVE  IInv' /\ IsHeard(Life(flight'), events')
<1>1. gap \in 0..(Stale + 1) /\ Accept(NewFlight(fr), fr, {"NEW_FLIGHT"}) /\ origin' = fr.alt
  BY DEF IInv, Rest, HearFirst
<1>2. Rest'
  BY <1>1, NewFlightForm, FrameFields, AcceptKeepsRest DEF IInv, AltOrNone, JustSeen
<1>3. Life(flight) = Lifecycle!Absent
  BY DEF HearFirst, Tracked, Life, Lifecycle!Absent
<1>4. Lifecycle!Heard(Life(flight)) = {Lifecycle!Launched}
  <2>1. /\ ~Lifecycle!InAir(Lifecycle!Absent)
        /\ Lifecycle!Absent # Lifecycle!Down /\ Lifecycle!Absent # Lifecycle!DownByTimeout
    BY DEF Lifecycle!Absent, Lifecycle!InAir, Lifecycle!InAirStates, Lifecycle!Down,
           Lifecycle!DownByTimeout
  <2> QED  BY <1>3, <2>1 DEF Lifecycle!Heard
<1>5. IsHeard(Life(flight'), events')
  BY <1>1, <1>4, LaunchAccept DEF IsHeard, Lifecycle!Launched, Lifecycle!To, Lifecycle!Airborne
<1> QED  BY <1>1, <1>2, <1>5, LaunchAccept DEF IInv

LEMMA HearInAirKeeps ==
  ASSUME IInv, NEW fr \in Frame, HearInAir(fr)
  PROVE  IInv' /\ IsHeard(Life(flight'), events')
<1>1. gap \in 0..(Stale + 1) /\ Accept(flight, fr, {}) /\ origin' = origin /\ origin \in AltOrNone
  BY DEF IInv, Rest, HearInAir
<1>2. Sound(flight) /\ flight.state \in InAirStates /\ flight.state # "LANDED"
  BY DEF IInv, HearInAir, InAir, NoFlight, InAirStates
<1>3. Rest'
  BY <1>1, <1>2, AcceptKeepsRest DEF IInv, Sound
<1>4. PICK e : /\ Sound(flight') /\ TouchedIsDown'
               /\ flight'.expired = "no" /\ ~flight'.byTimeout
               /\ events' = {} \cup e /\ Outcome(flight, flight', e)
  BY <1>1, <1>2, AirborneAccept
<1>5. PICK o \in Lifecycle!Flown(flight.state) : Life(flight') = o.life /\ e = o.events
  BY <1>2, <1>4, OutcomeIsFlown DEF Sound
<1>6. /\ Life(flight).state = flight.state
      /\ Lifecycle!InAir(Life(flight)) /\ Life(flight) # Lifecycle!Absent
  BY <1>2, SoundFields DEF Lifecycle!InAir, Lifecycle!InAirStates, InAirStates, Lifecycle!Absent
<1>7. Lifecycle!Heard(Life(flight)) = Lifecycle!Flown(flight.state)
  BY <1>2, <1>6 DEF Lifecycle!Heard, Lifecycle!Down, Lifecycle!DownByTimeout
<1>8. IsHeard(Life(flight'), events')
  BY <1>4, <1>5, <1>7 DEF IsHeard
<1> QED  BY <1>3, <1>4, <1>8 DEF IInv

(* The outcomes of a frame for a flight that is closed out.                *)
LEMMA HeardWhenLanded ==
  ASSUME NEW f, Sound(f), f.state = "LANDED"
  PROVE  /\ [life |-> Life(f), events |-> {}] \in Lifecycle!Heard(Life(f))
         /\ f.expired # "no" => Lifecycle!Resumed(f.expired) \subseteq Lifecycle!Heard(Life(f))
         /\ f.expired = "no" => Lifecycle!Launched \in Lifecycle!Heard(Life(f))
         /\ f.expired = "no" /\ f.byTimeout =>
              Lifecycle!Resumed("DESCENT") \subseteq Lifecycle!Heard(Life(f))
<1> DEFINE l == Life(f)
<1>1. /\ l = [state |-> "LANDED", expired |-> f.expired, provisional |-> f.byTimeout]
      /\ f.byTimeout \in BOOLEAN
      /\ f.expired # "no" => ~f.byTimeout
  BY SoundFields DEF Sound
<1>2. Lifecycle!Down = [state |-> "LANDED", expired |-> "no", provisional |-> FALSE]
  BY DEF Lifecycle!Down
<1>3. Lifecycle!DownByTimeout = [state |-> "LANDED", expired |-> "no", provisional |-> TRUE]
  BY DEF Lifecycle!DownByTimeout
<1>4. l # Lifecycle!Absent /\ ~Lifecycle!InAir(l)
  <2>1. l.state = "LANDED"
    BY <1>1
  <2> HIDE DEF l
  <2> QED  BY <2>1 DEF Lifecycle!Absent, Lifecycle!InAir, Lifecycle!InAirStates
<1>5. l.expired = f.expired
  BY <1>1
<1> HIDE DEF l
<1>6. CASE f.expired # "no"
  <2>1. l # Lifecycle!Down /\ l # Lifecycle!DownByTimeout
    BY <1>2, <1>3, <1>5, <1>6
  <2>2. Lifecycle!Heard(l) = {Lifecycle!To(l, {})} \cup Lifecycle!Resumed(l.expired)
    BY <1>4, <2>1 DEF Lifecycle!Heard
  <2> QED  BY <1>5, <1>6, <2>2 DEF Lifecycle!To, l
<1>7. CASE f.expired = "no" /\ ~f.byTimeout
  <2>1. l = Lifecycle!Down /\ l # Lifecycle!DownByTimeout
    BY <1>1, <1>2, <1>3, <1>7
  <2>2. Lifecycle!Heard(l) = {Lifecycle!To(l, {}), Lifecycle!Launched}
    BY <1>4, <2>1 DEF Lifecycle!Heard
  <2> QED  BY <1>7, <2>2 DEF Lifecycle!To, l
<1>8. CASE f.expired = "no" /\ f.byTimeout
  <2>1. l = Lifecycle!DownByTimeout /\ l # Lifecycle!Down
    BY <1>1, <1>2, <1>3, <1>8
  <2>2. Lifecycle!Heard(l) =
          {Lifecycle!To(l, {}), Lifecycle!Launched} \cup Lifecycle!Resumed("DESCENT")
    BY <1>4, <2>1 DEF Lifecycle!Heard
  <2> QED  BY <1>8, <2>2 DEF Lifecycle!To, l
<1> QED  BY <1>1, <1>6, <1>7, <1>8

(* A closed out flight that is heard again goes on from f.                 *)
LEMMA ReopenKeeps ==
  ASSUME IInv, NEW fr \in Frame, NEW f, Sound(f), f.state \in InAirStates,
         Accept(f, fr, {"RESUMED"}), origin' = origin,
         Lifecycle!Resumed(f.state) \subseteq Lifecycle!Heard(Life(flight))
  PROVE  IInv' /\ IsHeard(Life(flight'), events')
<1>1. gap \in 0..(Stale + 1) /\ origin \in AltOrNone /\ f.state # "LANDED" /\ f \in Flight
  BY DEF IInv, Rest, InAirStates, Sound
<1>2. Rest'
  BY <1>1, AcceptKeepsRest DEF IInv
<1>3. PICK e : /\ Sound(flight') /\ TouchedIsDown'
               /\ flight'.expired = "no" /\ ~flight'.byTimeout
               /\ events' = {"RESUMED"} \cup e /\ Outcome(f, flight', e)
  BY <1>1, AirborneAccept
<1>4. PICK o \in Lifecycle!Flown(f.state) : Life(flight') = o.life /\ e = o.events
  BY <1>1, <1>3, OutcomeIsFlown DEF Sound
<1>5. Lifecycle!To(o.life, o.events \cup {"RESUMED"}) \in Lifecycle!Heard(Life(flight))
  BY <1>4 DEF Lifecycle!Resumed
<1>6. events' = o.events \cup {"RESUMED"}
  BY <1>3, <1>4
<1>7. IsHeard(Life(flight'), events')
  BY <1>4, <1>5, <1>6 DEF IsHeard, Lifecycle!To
<1> QED  BY <1>2, <1>3, <1>7 DEF IInv

LEMMA HearExpiredKeeps ==
  ASSUME IInv, NEW fr \in Frame, HearExpired(fr)
  PROVE  IInv' /\ IsHeard(Life(flight'), events')
<1> DEFINE f == Resumed(flight)
<1>1. /\ Sound(flight) /\ flight.state = "LANDED" /\ flight.expired # "no"
      /\ Accept(f, fr, {"RESUMED"}) /\ origin' = origin
  BY DEF IInv, HearExpired, Landed, NoFlight
<1>2. /\ flight \in Flight /\ flight.expired \in InAirStates
      /\ ~flight.byTimeout /\ flight.landedAlt = None
      /\ flight.expired \in Rising => flight.burst = None
      /\ flight.expired \notin Rising => WasHigh(flight)
  BY <1>1, FlightFields DEF Sound, InAirStates
<1>3. /\ f \in Flight
      /\ f.state = flight.expired /\ f.expired = "no" /\ f.byTimeout = flight.byTimeout
      /\ f.landedAlt = flight.landedAlt /\ f.burst = flight.burst /\ f.max = flight.max
  <2>1. 0 \in 0..NewAscentConsecutive
    BY TrackerAssumption
  <2> QED  BY <1>2, <2>1 DEF Resumed, Flight
<1> HIDE DEF f
<1>4. Sound(f)
  BY <1>2, <1>3 DEF Sound, WasHigh, Rising, InAirStates
<1>5. Lifecycle!Resumed(f.state) \subseteq Lifecycle!Heard(Life(flight))
  BY <1>1, <1>3, HeardWhenLanded
<1> QED  BY <1>1, <1>2, <1>3, <1>4, <1>5, ReopenKeeps

LEMMA HearStillDescendingKeeps ==
  ASSUME IInv, NEW fr \in Frame, HearStillDescending(fr)
  PROVE  IInv' /\ IsHeard(Life(flight'), events')
<1> DEFINE f == ReopenedDescent(flight)
<1>1. /\ Sound(flight) /\ flight.state = "LANDED" /\ flight.expired = "no" /\ flight.byTimeout
      /\ Accept(f, fr, {"RESUMED"}) /\ origin' = origin
  BY DEF IInv, HearStillDescending, IsStillDescending, Landed, NoFlight
<1>2. flight \in Flight /\ WasHigh(flight)
  BY <1>1 DEF Sound, Rising
<1>3. /\ f \in Flight
      /\ f.state = "DESCENT" /\ f.expired = flight.expired /\ f.byTimeout = FALSE
      /\ f.landedAlt = None /\ f.max = flight.max
  <2>1. 0 \in 0..NewAscentConsecutive /\ 0 \in 0..RedescentConsecutive /\ None \in AltOrNone
    BY TrackerAssumption DEF AltOrNone
  <2> QED  BY <1>2, <2>1 DEF ReopenedDescent, Flight, InAirStates
<1> HIDE DEF f
<1>4. Sound(f)
  BY <1>1, <1>2, <1>3 DEF Sound, WasHigh, Rising
<1>5. Lifecycle!Resumed(f.state) \subseteq Lifecycle!Heard(Life(flight))
  BY <1>1, <1>3, HeardWhenLanded
<1> QED  BY <1>1, <1>3, <1>4, <1>5, ReopenKeeps DEF InAirStates

LEMMA HearRelaunchKeeps ==
  ASSUME IInv, NEW fr \in Frame, HearRelaunch(fr)
  PROVE  IInv' /\ IsHeard(Life(flight'), events')
<1>1. /\ Sound(flight) /\ flight.state = "LANDED" /\ flight.expired = "no"
      /\ gap \in 0..(Stale + 1) /\ Accept(NewFlight(fr), fr, {"NEW_FLIGHT"}) /\ origin' = fr.alt
  BY DEF IInv, Rest, HearRelaunch, Landed, NoFlight
<1>2. Rest'
  BY <1>1, NewFlightForm, FrameFields, AcceptKeepsRest DEF IInv, AltOrNone, JustSeen
<1>3. Lifecycle!Launched \in Lifecycle!Heard(Life(flight))
  BY <1>1, HeardWhenLanded
<1>4. IsHeard(Life(flight'), events')
  BY <1>1, <1>3, LaunchAccept DEF IsHeard, Lifecycle!Launched, Lifecycle!To, Lifecycle!Airborne
<1> QED  BY <1>1, <1>2, <1>4, LaunchAccept DEF IInv

LEMMA HearPingKeeps ==
  ASSUME IInv, NEW fr \in Frame, HearPing(fr)
  PROVE  IInv' /\ IsHeard(Life(flight'), events')
<1> DEFINE f == Pinged(flight, fr)
<1>1. /\ Sound(flight) /\ flight.state = "LANDED" /\ flight.expired = "no"
      /\ gap \in 0..(Stale + 1) /\ Accept(f, fr, {}) /\ origin' = origin
      /\ ~IsStillDescending(flight, fr) /\ ~IsNewAscent(flight, fr)
      /\ origin \in AltOrNone
  BY DEF IInv, Rest, HearPing, Landed, NoFlight
<1>2. /\ flight \in Flight
      /\ flight.redescent \in 0..RedescentConsecutive
      /\ flight.reascent \in 0..NewAscentConsecutive
      /\ flight.byTimeout \in BOOLEAN
  BY <1>1, FlightFields DEF Sound
<1>3. ReascentCount(flight, fr) \in 0..NewAscentConsecutive
  BY <1>1, <1>2, TrackerAssumption DEF ReascentCount, IsNewAscent
<1>4. flight.byTimeout => RedescentCount(flight, fr) \in 0..RedescentConsecutive
  BY <1>1, <1>2, TrackerAssumption DEF RedescentCount, IsStillDescending
<1>5. (IF flight.byTimeout THEN RedescentCount(flight, fr) ELSE flight.redescent)
        \in 0..RedescentConsecutive
  BY <1>2, <1>4
<1>6. /\ f \in Flight
      /\ f.state = flight.state /\ f.expired = flight.expired /\ f.byTimeout = flight.byTimeout
      /\ f.landedAlt = flight.landedAlt /\ f.burst = flight.burst /\ f.max = flight.max
  BY <1>2, <1>3, <1>5 DEF Pinged, Flight
<1> HIDE DEF f
<1>7. Sound(f)
  BY <1>1, <1>6 DEF Sound, WasHigh
<1>8. Sound(flight') /\ Life(flight') = Life(f) /\ events' = {}
  BY <1>1, <1>6, <1>7, LandedAccept
<1>9. Life(f) = Life(flight)
  BY <1>1, <1>6, <1>7, SoundFields
<1>10. Rest'
  BY <1>1, <1>6, AcceptKeepsRest DEF IInv
<1>11. IsHeard(Life(flight'), events')
  <2> DEFINE o == [life |-> Life(flight), events |-> {}]
  <2>1. o \in Lifecycle!Heard(Life(flight))
    BY <1>1, HeardWhenLanded
  <2>2. Life(flight') = o.life /\ events' = o.events
    BY <1>8, <1>9
  <2> QED  BY <2>1, <2>2 DEF IsHeard
<1>12. touched' => touched /\ flight'.state = "LANDED"
  BY <1>8 DEF Accept, HearPing
<1>13. TouchedIsDown'
  <2> SUFFICES ASSUME touched' PROVE TouchedIsDown'
    BY DEF TouchedIsDown
  <2>1. flight.expired = "no" /\ ~flight.byTimeout
    BY <1>12 DEF IInv, TouchedIsDown
  <2>2. flight'.expired = flight.expired /\ flight'.byTimeout = flight.byTimeout
    BY <1>1, <1>8, <1>9, SoundFields
  <2>3. flight' # NoFlight
    BY <1>8, SoundFields
  <2> QED  BY <1>12, <2>1, <2>2, <2>3 DEF TouchedIsDown, Tracked
<1> QED  BY <1>8, <1>10, <1>11, <1>13 DEF IInv

LEMMA HearKeeps ==
  ASSUME IInv, NEW fr \in Frame, Hear(fr)
  PROVE  IInv' /\ IsHeard(Life(flight'), events')
BY HearFirstKeeps, HearInAirKeeps, HearExpiredKeeps, HearStillDescendingKeeps,
   HearRelaunchKeeps, HearPingKeeps DEF Hear

LEMMA HearTeleportKeeps ==
  ASSUME IInv, HearTeleport
  PROVE  IInv' /\ IsHeard(Life(flight'), events')
<1>1. /\ Sound(flight) /\ flight.glitch < GlitchAcceptAfter
      /\ flight' = [flight EXCEPT !.glitch = @ + 1]
      /\ events' = {} /\ UNCHANGED <<gap, restarts, origin, touched, since>>
  BY DEF IInv, HearTeleport, Tracked
<1>2. flight \in Flight /\ flight.glitch + 1 \in 0..GlitchAcceptAfter
  BY <1>1, FlightFields, TrackerAssumption DEF Sound
<1>3. /\ flight' \in Flight
      /\ flight'.state = flight.state /\ flight'.expired = flight.expired
      /\ flight'.byTimeout = flight.byTimeout /\ flight'.landedAlt = flight.landedAlt
      /\ flight'.burst = flight.burst /\ flight'.max = flight.max
  BY <1>1, <1>2 DEF Flight
<1>4. Sound(flight')
  BY <1>1, <1>3 DEF Sound, WasHigh
<1>5. Life(flight') = Life(flight)
  BY <1>1, <1>3, <1>4, SoundFields
<1>6. [life |-> Life(flight), events |-> {}] \in Lifecycle!Heard(Life(flight))
  <2>1. CASE flight.state = "LANDED"
    BY <1>1, <2>1, HeardWhenLanded
  <2>2. CASE flight.state # "LANDED"
    <3>1. /\ Life(flight) = [state |-> flight.state, expired |-> "no", provisional |-> FALSE]
          /\ flight.state \in InAirStates
      BY <1>1, <2>2, SoundFields DEF Sound, InAirStates
    <3>2. /\ Life(flight).state = flight.state
          /\ Lifecycle!InAir(Life(flight)) /\ Life(flight) # Lifecycle!Absent
          /\ Life(flight) # Lifecycle!Down /\ Life(flight) # Lifecycle!DownByTimeout
      BY <3>1 DEF Lifecycle!InAir, Lifecycle!InAirStates, InAirStates, Lifecycle!Absent,
                  Lifecycle!Down, Lifecycle!DownByTimeout
    <3>3. Lifecycle!Heard(Life(flight)) = Lifecycle!Flown(flight.state)
      BY <3>2 DEF Lifecycle!Heard
    <3>4. Lifecycle!To(Lifecycle!Airborne(flight.state), {}) \in Lifecycle!Flown(flight.state)
      BY DEF Lifecycle!Flown
    <3> QED  BY <3>1, <3>3, <3>4 DEF Lifecycle!To, Lifecycle!Airborne
  <2> QED  BY <2>1, <2>2
<1>7. IsHeard(Life(flight'), events')
  <2> DEFINE o == [life |-> Life(flight), events |-> {}]
  <2>1. Life(flight') = o.life /\ events' = o.events
    BY <1>1, <1>5
  <2> QED  BY <1>6, <2>1 DEF IsHeard
<1>8. Rest'
  BY <1>1 DEF IInv, Rest
<1>9. TouchedIsDown'
  <2>1. touched => flight.state = "LANDED" /\ flight.expired = "no" /\ ~flight.byTimeout
    BY DEF IInv, TouchedIsDown
  <2>2. flight' # NoFlight
    BY <1>4, SoundFields
  <2> QED  BY <1>1, <1>3, <2>1, <2>2 DEF TouchedIsDown, Tracked
<1> QED  BY <1>4, <1>7, <1>8, <1>9 DEF IInv

(* A flight in the air as the life cycle sees it.                          *)
LEMMA InAirForm ==
  ASSUME IInv, InAir
  PROVE  /\ Sound(flight) /\ flight \in Flight /\ flight.state \in InAirStates
         /\ flight.state # "LANDED" /\ ~touched
         /\ flight.expired = "no" /\ flight.byTimeout = FALSE /\ flight.landedAlt = None
         /\ flight.state \in Rising => flight.burst = None
         /\ flight.state = "DESCENT" => WasHigh(flight)
         /\ Life(flight) = [state |-> flight.state, expired |-> "no", provisional |-> FALSE]
         /\ Lifecycle!InAir(Life(flight))
<1>1. /\ Sound(flight) /\ flight.state \in InAirStates /\ flight.state # "LANDED"
      /\ ~touched
  BY DEF IInv, InAir, NoFlight, InAirStates, TouchedIsDown
<1>2. /\ flight \in Flight
      /\ flight.expired = "no" /\ flight.byTimeout = FALSE /\ flight.landedAlt = None
      /\ flight.state \in Rising => flight.burst = None
      /\ flight.state = "DESCENT" => WasHigh(flight)
  BY <1>1, SoundFields DEF Sound
<1>3. Life(flight) = [state |-> flight.state, expired |-> "no", provisional |-> FALSE]
  BY <1>1, <1>2, SoundFields
<1>4. Lifecycle!InAir(Life(flight))
  BY <1>1, <1>3 DEF Lifecycle!InAir, Lifecycle!InAirStates, InAirStates
<1> QED  BY <1>1, <1>2, <1>3, <1>4

IsSwept(l, evs) == \E o \in Lifecycle!Swept(Life(flight)) : l = o.life /\ evs = o.events

LEMMA SweepExpireKeeps ==
  ASSUME IInv, SweepExpire
  PROVE  IInv' /\ IsSwept(Life(flight'), events')
<1>1. /\ InAir /\ flight' = [flight EXCEPT !.expired = flight.state, !.state = "LANDED"]
      /\ events' = {"EXPIRED"} /\ since' = <<>> /\ UNCHANGED <<gap, restarts, origin, touched>>
  BY DEF SweepExpire, Close
<1>2. /\ flight' \in Flight
      /\ flight'.state = "LANDED" /\ flight'.expired = flight.state
      /\ flight'.byTimeout = FALSE /\ flight'.landedAlt = None
      /\ flight'.burst = flight.burst /\ flight'.max = flight.max
  BY <1>1, InAirForm DEF Flight
<1>3. Sound(flight')
  BY <1>1, <1>2, InAirForm DEF Sound, WasHigh, Rising, InAirStates
<1>4. Life(flight') = [state |-> "LANDED", expired |-> flight.state, provisional |-> FALSE]
  BY <1>2, <1>3, SoundFields
<1>5. IsSwept(Life(flight'), events')
  <2>1. Life(flight).state = flight.state
    BY <1>1, InAirForm
  <2>2. Lifecycle!To(Lifecycle!ExpiredFrom(flight.state), {"EXPIRED"})
          \in Lifecycle!Swept(Life(flight))
    <3>1. Life(flight) # Lifecycle!Absent
      BY <1>1, InAirForm DEF Lifecycle!Absent, Lifecycle!InAir, Lifecycle!InAirStates
    <3> QED  BY <1>1, <2>1, <3>1, InAirForm DEF Lifecycle!Swept
  <2> QED  BY <1>1, <1>4, <2>2 DEF IsSwept, Lifecycle!To, Lifecycle!ExpiredFrom
<1>6. Rest'
  BY <1>1 DEF IInv, Rest
<1> QED  BY <1>1, <1>3, <1>5, <1>6, InAirForm DEF IInv, TouchedIsDown

LEMMA SweepLandKeeps ==
  ASSUME IInv, SweepLand
  PROVE  IInv' /\ IsSwept(Life(flight'), events')
<1>1. /\ InAir /\ flight.state = "DESCENT"
      /\ flight' = [flight EXCEPT !.state = "LANDED", !.landedAlt = flight.last,
                                  !.byTimeout = TRUE]
      /\ events' = {"LANDED"} /\ since' = <<>> /\ UNCHANGED <<gap, restarts, origin, touched>>
  BY DEF SweepLand, Close, LostLow, IsLowDescent
<1>2. /\ flight' \in Flight
      /\ flight'.state = "LANDED" /\ flight'.expired = "no"
      /\ flight'.byTimeout = TRUE /\ flight'.landedAlt = flight.last
      /\ flight'.burst = flight.burst /\ flight'.max = flight.max
  <2>1. flight.last \in AltOrNone
    BY <1>1, InAirForm, FlightFields DEF AltOrNone
  <2> QED  BY <1>1, <2>1, InAirForm DEF Flight
<1>3. flight.last # None
  <2>1. flight.last \in Nat
    BY <1>1, InAirForm, FlightFields
  <2> QED  BY <2>1 DEF None
<1>4. Sound(flight')
  BY <1>1, <1>2, <1>3, InAirForm DEF Sound, WasHigh, Rising
<1>5. Life(flight') = [state |-> "LANDED", expired |-> "no", provisional |-> TRUE]
  BY <1>2, <1>4, SoundFields
<1>6. IsSwept(Life(flight'), events')
  <2>1. Life(flight).state = "DESCENT"
    BY <1>1, InAirForm
  <2>2. Lifecycle!To(Lifecycle!DownByTimeout, {"LANDED"}) \in Lifecycle!Swept(Life(flight))
    <3>1. Life(flight) # Lifecycle!Absent
      BY <1>1, InAirForm DEF Lifecycle!Absent, Lifecycle!InAir, Lifecycle!InAirStates
    <3> QED  BY <1>1, <2>1, <3>1, InAirForm DEF Lifecycle!Swept
  <2> QED  BY <1>1, <1>5, <2>2 DEF IsSwept, Lifecycle!To, Lifecycle!DownByTimeout
<1>7. Rest'
  BY <1>1 DEF IInv, Rest
<1> QED  BY <1>1, <1>4, <1>6, <1>7, InAirForm DEF IInv, TouchedIsDown

LEMMA GoneKeeps ==
  ASSUME IInv, Gone, restarts' \in 0..MaxRestarts
  PROVE  IInv' /\ Life(flight') = Lifecycle!Absent /\ events' = {}
<1>1. Rest'
  <2>1. gap' \in 0..(Stale + 1)
    BY TrackerAssumption DEF Gone
  <2>2. since' \in Seq(Alts)
    BY DEF Gone
  <2> QED  BY <2>1, <2>2 DEF Gone, Rest, AltOrNone
<1> QED  BY <1>1 DEF Gone, IInv, TouchedIsDown, Life, Lifecycle!Absent

LEMMA RestartKeeps ==
  ASSUME IInv, Restart
  PROVE  IInv' /\ Life(flight') = Lifecycle!Reloaded(Life(flight)) /\ events' = {}
<1>1. restarts' \in 0..MaxRestarts
  <2>1. MaxRestarts \in Nat
    BY TrackerAssumption
  <2>2. restarts \in 0..MaxRestarts /\ restarts < MaxRestarts /\ restarts' = restarts + 1
    BY DEF Restart, IInv, Rest
  <2> QED  BY <2>1, <2>2
<1>2. CASE ~InAir
  <2>1. Gone /\ Sound(flight)
    BY <1>2 DEF Restart, IInv, Tracked
  <2>2. Lifecycle!Reloaded(Life(flight)) = Lifecycle!Absent
    <3>1. Life(flight).state = flight.state
      BY <2>1, SoundFields
    <3> QED  BY <1>2, <3>1 DEF InAir, Lifecycle!Reloaded, Lifecycle!InAir, InAirStates,
                               Lifecycle!InAirStates
  <2> QED  BY <1>1, <2>1, <2>2, GoneKeeps
<1>3. CASE InAir
  <2>1. /\ flight' = Rehydrated(flight) /\ events' = {}
        /\ UNCHANGED <<gap, origin, touched, since>>
    BY <1>3 DEF Restart
  <2>2. /\ flight' \in Flight
        /\ flight'.state = flight.state /\ flight'.expired = "no"
        /\ flight'.byTimeout = FALSE /\ flight'.landedAlt = None
        /\ flight'.burst = flight.burst /\ flight'.max = flight.max
    <3>1. /\ None \in AltOrNone /\ 0 \in 0..BurstConsecutive /\ None \in -1..FloatWindow
          /\ 0 \in 0..GlitchAcceptAfter /\ 0 \in 0..NewAscentConsecutive
          /\ 0 \in 0..RedescentConsecutive
      BY TrackerAssumption DEF None, AltOrNone
    <3>2. flight \in Flight
      BY <1>3, InAirForm
    <3> DEFINE up == flight.state \in {"ASCENT", "FLOAT"}
    <3>3. up \in BOOLEAN
      OBVIOUS
    <3>4. flight' = [flight EXCEPT !.first = None, !.ascended = up,
             !.landedAlt = None, !.byTimeout = FALSE, !.expired = "no",
             !.paired = FALSE, !.neg = 0, !.floatFor = None, !.glitch = 0,
             !.reascent = 0, !.redescent = 0]
      BY <2>1 DEF Rehydrated
    <3> HIDE DEF up
    <3> QED  BY <3>1, <3>2, <3>3, <3>4 DEF Flight
  <2>3. Sound(flight')
    BY <1>3, <2>2, InAirForm DEF Sound, WasHigh, Rising
  <2>4. Life(flight') = Life(flight)
    BY <1>3, <2>2, <2>3, InAirForm, SoundFields
  <2>5. Rest'
    BY <1>1, <2>1 DEF IInv, Rest
  <2>6. Lifecycle!Reloaded(Life(flight)) = Life(flight)
    BY <1>3, InAirForm DEF Lifecycle!Reloaded
  <2> QED  BY <1>3, <2>1, <2>3, <2>4, <2>5, <2>6, InAirForm DEF IInv, TouchedIsDown
<1> QED  BY <1>2, <1>3

(* A closed out flight that was silent for too long is swept away.         *)
LEMMA SweepEvictKeeps ==
  ASSUME IInv, SweepEvict
  PROVE  IInv' /\ IsSwept(Life(flight'), events')
<1>1. /\ Sound(flight) /\ flight.state = "LANDED" /\ Gone /\ restarts' = restarts
      /\ restarts \in 0..MaxRestarts
  BY DEF SweepEvict, IInv, Rest, Landed, NoFlight
<1>2. Life(flight).state = "LANDED"
  BY <1>1, SoundFields
<1>3. Lifecycle!Swept(Life(flight)) = {Lifecycle!To(Lifecycle!Absent, {})}
  BY <1>2 DEF Lifecycle!Swept, Lifecycle!InAir, Lifecycle!InAirStates, Lifecycle!Absent
<1> QED  BY <1>1, <1>3, GoneKeeps DEF IsSwept, Lifecycle!To

-----------------------------------------------------------------------------
(* Every step keeps the invariant, and is a step of the life cycle or      *)
(* leaves the flight and its events alone.                                 *)
LEMMA StepKeeps ==
  ASSUME IInv, [Next]_vars
  PROVE  IInv' /\ (Lifecycle!Next \/ (flight' = flight /\ events' = events))
<1>1. ASSUME IsHeard(Life(flight'), events') PROVE Lifecycle!Next
  BY <1>1 DEF IsHeard, Life, Tracked, Lifecycle!Next, Lifecycle!Hear, Lifecycle!Becomes
<1>2. ASSUME IsSwept(Life(flight'), events') PROVE Lifecycle!Next
  BY <1>2 DEF IsSwept, Life, Tracked, Lifecycle!Next, Lifecycle!Sweep, Lifecycle!Becomes
<1>3. CASE HearTeleport
  BY <1>1, <1>3, HearTeleportKeeps
<1>4. CASE \E fr \in Frame : Hear(fr)
  BY <1>1, <1>4, HearKeeps
<1>5. CASE Sweep
  BY <1>2, <1>5, SweepExpireKeeps, SweepLandKeeps, SweepEvictKeeps DEF Sweep
<1>6. CASE DropOrForget
  <2>1. InAir /\ Gone /\ restarts' \in 0..MaxRestarts
    BY <1>6 DEF DropOrForget, IInv, Rest
  <2>2. IInv' /\ Life(flight') = Lifecycle!Absent /\ events' = {}
    BY <2>1, GoneKeeps
  <2>3. Lifecycle!InAir(Life(flight))
    BY <2>1, InAirForm
  <2>4. Lifecycle!DropOrForget
    BY <2>2, <2>3 DEF Life, Tracked, Lifecycle!DropOrForget, Lifecycle!Becomes, Lifecycle!To
  <2> QED  BY <2>2, <2>4 DEF Lifecycle!Next
<1>7. CASE Restart
  <2>1. IInv' /\ Life(flight') = Lifecycle!Reloaded(Life(flight)) /\ events' = {}
    BY <1>7, RestartKeeps
  <2>2. Lifecycle!Restart
    BY <2>1 DEF Life, Tracked, Lifecycle!Restart, Lifecycle!Becomes, Lifecycle!To
  <2> QED  BY <2>1, <2>2 DEF Lifecycle!Next
<1>8. CASE Tick
  <2>1. gap \in 0..(Stale + 1) /\ gap <= Stale /\ gap' = gap + 1
    BY <1>8 DEF Tick, IInv, Rest
  <2>2. gap' \in 0..(Stale + 1)
    BY <2>1, TrackerAssumption
  <2>3. UNCHANGED <<flight, events, restarts, origin, touched, since>>
    BY <1>8 DEF Tick
  <2> QED  BY <2>2, <2>3 DEF IInv, Rest, Sound, WasHigh, TouchedIsDown, Tracked
<1>9. CASE UNCHANGED vars
  BY <1>9 DEF vars, IInv, Rest, Sound, WasHigh, TouchedIsDown, Tracked
<1> QED  BY <1>3, <1>4, <1>5, <1>6, <1>7, <1>8, <1>9 DEF Next

LEMMA InitHolds == Init => IInv /\ Lifecycle!Init
<1> SUFFICES ASSUME Init PROVE IInv /\ Lifecycle!Init
  OBVIOUS
<1>1. Rest
  <2>1. gap \in 0..(Stale + 1) /\ restarts \in 0..MaxRestarts /\ since \in Seq(Alts)
    BY TrackerAssumption DEF Init
  <2> QED  BY <2>1 DEF Init, Rest, AltOrNone
<1>2. Lifecycle!Init
  BY DEF Init, Lifecycle!Init, Lifecycle!Absent, Tracked
<1> QED  BY <1>1, <1>2 DEF Init, IInv, TouchedIsDown

LEMMA InvHolds == Spec => []IInv
<1>1. Init => IInv
  BY InitHolds
<1>2. IInv /\ [Next]_vars => IInv'
  BY StepKeeps
<1> QED  BY <1>1, <1>2, PTL DEF Spec

-----------------------------------------------------------------------------
(* FlightTracker keeps the types of its record and of its counters.        *)
THEOREM FlightTypeCorrect == Spec => []TypeOK
<1>1. IInv => TypeOK
  BY DEF IInv, Rest, Sound, TypeOK
<1> QED  BY <1>1, InvHolds, PTL

(* A flight falls, or lands other than by expiring on its way up, only     *)
(* after it was high above ground: _maybe_burst()'s gate suffices, through *)
(* reopenings, relaunches, reverted bursts and restarts.                   *)
THEOREM FallsCorrect == Spec => []FallsFromHigh
<1>1. IInv => FallsFromHigh
  BY DEF IInv, FallsFromHigh, Sound, WasHigh, Tracked, Landed, Rising
<1> QED  BY <1>1, InvHolds, PTL

(* What a close-out sets, a reopening undoes: no flag of an earlier        *)
(* expiry or provisional landing is left on a flight in the air.           *)
THEOREM CloseOutCorrect == Spec => []CloseOutsAreUndone
<1>1. IInv => CloseOutsAreUndone
  BY InAirForm DEF IInv, CloseOutsAreUndone, Sound, Tracked, Landed
<1> QED  BY <1>1, InvHolds, PTL

(* Every step of FlightTracker is one of the outcomes that FlightLifecycle *)
(* allows, or leaves the flight and its events alone.                      *)
THEOREM LifecycleCorrect == Spec => FollowsLifecycle
<1>1. IInv /\ [Next]_vars => [Lifecycle!Next]_(Lifecycle!vars)
  BY StepKeeps DEF Lifecycle!vars, Tracked
<1>2. Init => Lifecycle!Init
  BY InitHolds
<1> QED  BY <1>1, <1>2, InvHolds, PTL DEF Spec, FollowsLifecycle, Lifecycle!Spec

(* A landing seen by telemetry is final: no step of the tracker brings its *)
(* flight back to DESCENT or announces that it was resumed.                *)
THEOREM TouchdownCorrect == Spec => TouchdownIsFinal
<1>1. IInv /\ [Next]_vars =>
        [touched /\ flight' # flight =>
           flight'.state # "DESCENT" /\ "RESUMED" \notin events']_vars
  <2> SUFFICES ASSUME IInv, [Next]_vars, touched, flight' # flight
               PROVE  flight'.state # "DESCENT" /\ "RESUMED" \notin events'
    OBVIOUS
  <2>1. Lifecycle!Next
    BY StepKeeps
  <2>2. Sound(flight) /\ flight.state = "LANDED" /\ flight.expired = "no" /\ ~flight.byTimeout
    BY DEF IInv, TouchedIsDown, Tracked
  <2>3. Life(flight) = [state |-> "LANDED", expired |-> "no", provisional |-> FALSE]
    BY <2>2, SoundFields
  <2>4. /\ Life(flight) = Lifecycle!Down /\ Life(flight) # Lifecycle!DownByTimeout
        /\ Life(flight) # Lifecycle!Absent /\ ~Lifecycle!InAir(Life(flight))
    BY <2>3 DEF Lifecycle!Down, Lifecycle!DownByTimeout, Lifecycle!Absent, Lifecycle!InAir,
                Lifecycle!InAirStates
  <2>5. CASE Lifecycle!Hear
    <3>1. Lifecycle!Heard(Life(flight)) = {Lifecycle!To(Life(flight), {}), Lifecycle!Launched}
      BY <2>4 DEF Lifecycle!Heard
    <3>2. IsHeard(Life(flight'), events')
      BY <2>5 DEF IsHeard, Life, Tracked, Lifecycle!Hear, Lifecycle!Becomes
    <3>3. /\ Life(flight').state \in {"LANDED", "ASCENT"}
          /\ events' \in {{}, {"NEW_FLIGHT"}}
      BY <2>3, <3>1, <3>2 DEF IsHeard, Lifecycle!To, Lifecycle!Launched, Lifecycle!Airborne
    <3> QED  BY <3>3 DEF Life, NoFlight
  <2>6. CASE Lifecycle!Sweep
    <3>1. Lifecycle!Swept(Life(flight)) = {Lifecycle!To(Lifecycle!Absent, {})}
      BY <2>4 DEF Lifecycle!Swept
    <3>2. Life(flight').state = "ABSENT" /\ events' = {}
      BY <2>6, <3>1
         DEF Life, Tracked, Lifecycle!Sweep, Lifecycle!Becomes, Lifecycle!To, Lifecycle!Absent
    <3> QED  BY <3>2 DEF Life, NoFlight
  <2>7. CASE Lifecycle!DropOrForget
    BY <2>4, <2>7 DEF Life, Tracked, Lifecycle!DropOrForget
  <2>8. CASE Lifecycle!Restart
    <3>1. Life(flight').state = "ABSENT" /\ events' = {}
      BY <2>4, <2>8 DEF Life, Tracked, Lifecycle!Restart, Lifecycle!Becomes, Lifecycle!To,
                        Lifecycle!Reloaded, Lifecycle!Absent
    <3> QED  BY <3>1 DEF Life, NoFlight
  <2> QED  BY <2>1, <2>5, <2>6, <2>7, <2>8 DEF Lifecycle!Next
<1> QED  BY <1>1, InvHolds, PTL DEF Spec, TouchdownIsFinal

-----------------------------------------------------------------------------
(* What the flight's own counters and altitudes record: the climb the gate *)
(* of the burst has seen, and the frames since the close-out.              *)

(* The gate is open only after a climb this process watched, and so is a   *)
(* burst altitude recorded.                                                *)
Gated(f, o) ==
  f.first # None =>
    /\ f.first = o
    /\ f.ascended => f.max - f.first >= MinGain
    /\ f.burst # None => f.burst - f.first >= MinGain

Recorded(f, evs) ==
  "BURST" \in evs /\ f.first # None /\ f.max - f.first >= MinGain => f.burst # None

(* The last n entries of s are in S.                                       *)
Ends(s, n, S) == n <= Len(s) /\ \A i \in 1..Len(s) : i > Len(s) - n => s[i] \in S

(* Each counter of a landed flight stands for as many frames at the end of *)
(* those since the close-out; any other flight has counted nothing.        *)
Counts(f, s) ==
  IF f.state = "LANDED" /\ f.expired = "no"
  THEN /\ f.reascent < NewAscentConsecutive /\ Ends(s, f.reascent, Above(f.landedAlt))
       /\ f.redescent < RedescentConsecutive /\ Ends(s, f.redescent, Below(f.landedAlt))
       /\ ~f.byTimeout => f.redescent = 0
  ELSE f.reascent = 0 /\ f.redescent = 0

Witnessed ==
  flight = NoFlight \/ (Gated(flight, origin) /\ Recorded(flight, events) /\ Counts(flight, since))

(* How a frame opens the gate.                                             *)
LEMMA ObservedGate ==
  ASSUME NEW f \in Flight, NEW fr \in Frame, NEW o, Gated(f, o)
  PROVE  LET g == Observed(f, fr)
         IN  /\ g \in Flight /\ Gated(g, o)
             /\ g.first = f.first /\ g.reascent = f.reascent /\ g.redescent = f.redescent
             /\ g.state = f.state /\ g.burst = f.burst
             /\ g.first # None /\ g.max - g.first >= MinGain => g.ascended
<1> DEFINE g == Observed(f, fr)
           top == Most(f.max, fr.alt)
           up == f.ascended \/ (f.first # None /\ top - f.first >= MinGain)
<1>1. g \in Flight /\ g.max >= f.max /\ g.state = f.state /\ g.burst = f.burst
  BY ObservedForm
<1>2. g = [f EXCEPT !.max = top, !.ascended = up]
  BY DEF Observed
<1>3. up \in BOOLEAN
  BY FlightFields
<1> HIDE DEF g, top, up
<1>4. /\ g.first = f.first /\ g.reascent = f.reascent /\ g.redescent = f.redescent
      /\ g.max = top /\ g.ascended = up
  BY <1>2 DEF Flight
<1>5. f.first # None => (up <=> (f.ascended \/ top - f.first >= MinGain))
  BY DEF up
<1>6. f.max \in Int /\ top \in Int /\ f.first \in Int /\ MinGain \in Int /\ top >= f.max
  BY <1>1, <1>4, FlightFields, TrackerAssumption
<1>7. f.first # None /\ up => top - f.first >= MinGain
  BY <1>5, <1>6 DEF Gated
<1>8. Gated(g, o)
  BY <1>1, <1>4, <1>7 DEF Gated
<1>9. g.first # None /\ g.max - g.first >= MinGain => g.ascended
  BY <1>4, <1>5
<1> QED  BY <1>1, <1>4, <1>8, <1>9 DEF g

(* A burst called with the gate open records the top of the climb.         *)
LEMMA ClimbingGate ==
  ASSUME NEW g \in Flight, NEW fr \in Frame, NEW o, Gated(g, o), gap \in 0..(Stale + 1)
  PROVE  LET h == Climbing(g, fr)
         IN  /\ h \in Flight /\ Gated(h, o)
             /\ h.first = g.first /\ h.reascent = g.reascent /\ h.redescent = g.redescent
             /\ BurstCalled(g, fr) /\ g.ascended => h.burst # None
<1> DEFINE h == Climbing(g, fr)
           n == NegCount(g, fr)
           w == FloatFor(g, fr)
           b == BurstAlt(g)
<1>1. h \in Flight /\ h.max = g.max
  BY ClimbingForm
<1>2. \/ h = g /\ ~BurstCalled(g, fr)
      \/ /\ h = [g EXCEPT !.state = "DESCENT", !.neg = n, !.floatFor = None, !.burst = b]
         /\ BurstCalled(g, fr)
      \/ /\ h = [g EXCEPT !.state = IF FloatCalled(g, fr) THEN "FLOAT" ELSE @,
                          !.neg = n, !.floatFor = w]
         /\ ~BurstCalled(g, fr)
      \/ h = [g EXCEPT !.neg = n] /\ ~BurstCalled(g, fr)
  <2>1. CASE g.state \notin {"ASCENT", "FLOAT"}
    BY <2>1 DEF Climbing, BurstCalled
  <2>2. CASE g.state \in {"ASCENT", "FLOAT"} /\ BurstCalled(g, fr)
    BY <2>2 DEF Climbing
  <2>3. CASE g.state = "ASCENT" /\ ~BurstCalled(g, fr)
    BY <2>3 DEF Climbing
  <2>4. CASE g.state = "FLOAT" /\ ~BurstCalled(g, fr)
    BY <2>4 DEF Climbing
  <2> QED  BY <2>1, <2>2, <2>3, <2>4
<1> HIDE DEF h, n, w, b
<1>3. /\ h.first = g.first /\ h.reascent = g.reascent /\ h.redescent = g.redescent
      /\ h.ascended = g.ascended
      /\ BurstCalled(g, fr) => h.burst = b
      /\ ~BurstCalled(g, fr) => h.burst = g.burst
  BY <1>2 DEF Flight
<1>4. b = IF g.ascended THEN g.max ELSE g.burst
  BY DEF b, BurstAlt
<1>5. g.max # None
  BY FlightFields DEF None
<1>6. Gated(h, o)
  BY <1>1, <1>3, <1>4 DEF Gated
<1> QED  BY <1>1, <1>3, <1>4, <1>5, <1>6 DEF h

LEMMA FallingGate ==
  ASSUME NEW h \in Flight, NEW fr \in Frame, NEW o, Gated(h, o)
  PROVE  LET k == FallingOn(h, fr)
         IN  /\ k \in Flight /\ Gated(k, o)
             /\ k.first = h.first /\ k.reascent = h.reascent /\ k.redescent = h.redescent
             /\ ~Reverted(h, fr) => k.burst = h.burst
<1> DEFINE k == FallingOn(h, fr)
<1>1. k \in Flight /\ k.max = h.max
  BY FallingForm
<1>2. \/ k = h
      \/ /\ k = [h EXCEPT !.state = "ASCENT", !.burst = None, !.neg = 0, !.floatFor = None]
         /\ Reverted(h, fr)
      \/ k = [h EXCEPT !.state = "LANDED", !.landedAlt = fr.alt]
  <2>1. CASE h.state # "DESCENT"
    BY <2>1 DEF FallingOn
  <2>2. CASE h.state = "DESCENT" /\ Reverted(h, fr)
    BY <2>2 DEF FallingOn
  <2>3. CASE h.state = "DESCENT" /\ ~Reverted(h, fr)
    BY <2>3 DEF FallingOn
  <2> QED  BY <2>1, <2>2, <2>3
<1> HIDE DEF k
<1>3. /\ k.first = h.first /\ k.reascent = h.reascent /\ k.redescent = h.redescent
      /\ k.ascended = h.ascended
      /\ k.burst = h.burst \/ (k.burst = None /\ Reverted(h, fr))
  BY <1>2 DEF Flight
<1>4. Gated(k, o)
  BY <1>1, <1>3 DEF Gated
<1> QED  BY <1>1, <1>3, <1>4 DEF k

(* A burst is never taken back by the frame that called it.                *)
LEMMA BurstStands ==
  ASSUME NEW f \in Flight, NEW fr \in Frame, gap \in 0..(Stale + 1),
         f.state \in Rising => f.burst = None, BurstCalled(Observed(f, fr), fr)
  PROVE  ~Reverted(Climbing(Observed(f, fr), fr), fr)
<1> DEFINE g == Observed(f, fr)
           h == Climbing(g, fr)
<1>1. g \in Flight /\ g.max >= fr.alt /\ g.state = f.state /\ g.burst = f.burst
  BY ObservedForm
<1> HIDE DEF g
<1>2. g.state \in Rising /\ h.burst \in {g.max, g.burst}
  BY <1>1, ClimbingForm DEF g
<1>3. h.burst = None \/ h.burst = g.max
  BY <1>1, <1>2
<1> HIDE DEF h
<1>4. g.max \in Nat /\ fr.alt \in Nat /\ RevertClimb \in Nat
  BY <1>1, FlightFields, FrameFields, TrackerAssumption
<1> QED  BY <1>1, <1>3, <1>4 DEF Reverted, g, h

(* What a frame leaves of the gate, the record and the counters.           *)
LEMMA FrameCarries ==
  ASSUME NEW f \in Flight, NEW fr \in Frame, NEW o, gap \in 0..(Stale + 1),
         f.state \in Rising => f.burst = None, Gated(f, o)
  PROVE  LET k == Applied(f, fr)
         IN  /\ Gated(k, o) /\ Recorded(k, Announced(f, fr))
             /\ k.reascent = f.reascent /\ k.redescent = f.redescent /\ k.last = fr.alt
<1> DEFINE g == Observed(f, fr)
           h == Climbing(g, fr)
           m == FallingOn(h, fr)
           k == [m EXCEPT !.last = fr.alt, !.under = fr.ground, !.paired = TRUE]
           evs == Announced(f, fr)
<1>1. /\ g \in Flight /\ Gated(g, o)
      /\ g.first = f.first /\ g.reascent = f.reascent /\ g.redescent = f.redescent
      /\ g.first # None /\ g.max - g.first >= MinGain => g.ascended
  BY ObservedGate
<1>2. "BURST" \in evs => BurstCalled(g, fr)
  BY DEF Announced
<1>3. BurstCalled(g, fr) => ~Reverted(h, fr)
  BY BurstStands
<1>4. Applied(f, fr) = k
  BY DEF Applied
<1> HIDE DEF g
<1>5. /\ h \in Flight /\ Gated(h, o) /\ h.max = g.max
      /\ h.first = g.first /\ h.reascent = g.reascent /\ h.redescent = g.redescent
      /\ BurstCalled(g, fr) /\ g.ascended => h.burst # None
  BY <1>1, ClimbingGate, ClimbingForm
<1> HIDE DEF h
<1>6. /\ m \in Flight /\ Gated(m, o) /\ m.max = h.max
      /\ m.first = h.first /\ m.reascent = h.reascent /\ m.redescent = h.redescent
      /\ ~Reverted(h, fr) => m.burst = h.burst
  BY <1>5, FallingGate, FallingForm
<1> HIDE DEF m
<1>7. /\ k.max = m.max /\ k.first = m.first /\ k.burst = m.burst /\ k.ascended = m.ascended
      /\ k.reascent = m.reascent /\ k.redescent = m.redescent /\ k.last = fr.alt
  BY <1>6 DEF Flight
<1> HIDE DEF k, evs
<1>8. Gated(k, o)
  BY <1>6, <1>7 DEF Gated
<1>9. Recorded(k, evs)
  BY <1>1, <1>2, <1>3, <1>5, <1>6, <1>7 DEF Recorded
<1> QED  BY <1>1, <1>4, <1>5, <1>6, <1>7, <1>8, <1>9 DEF evs

LEMMA UnglitchedGate ==
  ASSUME NEW f \in Flight, NEW o, Gated(f, o), NEW fr
  PROVE  LET u == Unglitched(f, fr)
         IN  /\ Gated(u, o)
             /\ u.reascent = f.reascent /\ u.redescent = f.redescent
<1> DEFINE u == Unglitched(f, fr)
<1>1. /\ u.first = f.first /\ u.max = f.max /\ u.burst = f.burst /\ u.ascended = f.ascended
      /\ u.reascent = f.reascent /\ u.redescent = f.redescent
  <2>1. LET v == [f EXCEPT !.glitch = 0]
        IN  /\ v.first = f.first /\ v.max = f.max /\ v.burst = f.burst
            /\ v.ascended = f.ascended
            /\ v.reascent = f.reascent /\ v.redescent = f.redescent
    BY DEF Flight
  <2> QED  BY <2>1 DEF Unglitched
<1> QED  BY <1>1 DEF Gated

(* The same for the step that accepts a frame for the flight f.            *)
LEMMA AcceptCarries ==
  ASSUME NEW f \in Flight, NEW fr \in Frame, gap \in 0..(Stale + 1),
         NEW evs, evs \subseteq {"NEW_FLIGHT", "RESUMED"}, Accept(f, fr, evs),
         f.state \in Rising => f.burst = None, Gated(f, origin')
  PROVE  /\ Gated(flight', origin') /\ Recorded(flight', events')
         /\ flight'.reascent = f.reascent /\ flight'.redescent = f.redescent
         /\ flight'.last = fr.alt
<1> DEFINE u == Unglitched(f, fr)
<1>1. /\ u \in Flight /\ Gated(u, origin')
      /\ u.state = f.state /\ u.burst = f.burst
      /\ u.reascent = f.reascent /\ u.redescent = f.redescent
  BY UnglitchedForm, UnglitchedGate
<1>2. flight' = Applied(u, fr) /\ events' = evs \cup Announced(u, fr)
  BY DEF Accept
<1> HIDE DEF u
<1>3. /\ Gated(flight', origin') /\ Recorded(flight', Announced(u, fr))
      /\ flight'.reascent = u.reascent /\ flight'.redescent = u.redescent
      /\ flight'.last = fr.alt
  BY <1>1, <1>2, FrameCarries
<1> QED  BY <1>1, <1>2, <1>3 DEF Recorded

(* What since keeps of the frames after a close-out is enough to count on. *)
LEMMA EndsGrow ==
  ASSUME NEW s \in Seq(Alts), NEW a \in Alts, NEW n \in Nat, NEW S, Ends(s, n, S), a \in S,
         NEW cap \in Nat \ {0}, n + 1 < cap
  PROVE  LET t == Append(s, a)
         IN  Ends(SubSeq(t, Most(1, Len(t) - cap + 2), Len(t)), n + 1, S)
<1> DEFINE t == Append(s, a)
           m == Most(1, Len(t) - cap + 2)
           r == SubSeq(t, m, Len(t))
<1>1. /\ t \in Seq(Alts) /\ Len(t) = Len(s) + 1 /\ Len(s) \in Nat
      /\ t[Len(s) + 1] = a
      /\ \A i \in 1..Len(s) : t[i] = s[i]
  OBVIOUS
<1>2. m \in Nat /\ m >= 1 /\ m <= Len(t) /\ (m = 1 \/ m = Len(t) - cap + 2)
  BY <1>1 DEF Most
<1> HIDE DEF t, m
<1>3. /\ Len(r) = Len(t) - m + 1
      /\ \A i \in 1..(Len(t) - m + 1) : r[i] = t[m + i - 1]
  <2>1. \A i \in m..Len(t) : t[i] \in Alts
    BY <1>1, <1>2
  <2> QED  BY <1>1, <1>2, <2>1, SubSeqProperties
<1> HIDE DEF r
<1>4. n + 1 <= Len(r)
  BY <1>1, <1>2, <1>3 DEF Ends
<1>5. ASSUME NEW i \in 1..Len(r), i > Len(r) - (n + 1)
      PROVE  r[i] \in S
  <2>1. r[i] = t[m + i - 1] /\ m + i - 1 \in 1..Len(t) /\ m + i - 1 > Len(s) - n
    BY <1>1, <1>2, <1>3, <1>5
  <2>2. CASE m + i - 1 = Len(s) + 1
    BY <1>1, <2>1, <2>2
  <2>3. CASE m + i - 1 \in 1..Len(s)
    BY <1>1, <2>1, <2>3 DEF Ends
  <2> QED  BY <1>1, <2>1, <2>2, <2>3
<1> QED  BY <1>4, <1>5 DEF Ends, r, t, m

LEMMA EndsNone ==
  ASSUME NEW s \in Seq(Alts), NEW S
  PROVE  Ends(s, 0, S)
BY DEF Ends

LEMMA NothingCounted ==
  ASSUME NEW f, f.reascent = 0, f.redescent = 0, NEW s \in Seq(Alts)
  PROVE  Counts(f, s)
BY EndsNone, TrackerAssumption DEF Counts

(* A frame for a flight that has counted nothing leaves one that has not.  *)
LEMMA CleanAccept ==
  ASSUME IInv, NEW f \in Flight, NEW fr \in Frame, NEW evs,
         evs \subseteq {"NEW_FLIGHT", "RESUMED"}, Accept(f, fr, evs),
         f.state \in Rising => f.burst = None, Gated(f, origin'),
         f.reascent = 0, f.redescent = 0, since' \in Seq(Alts)
  PROVE  Witnessed'
<1>1. gap \in 0..(Stale + 1)
  BY DEF IInv, Rest
<1>2. /\ Gated(flight', origin') /\ Recorded(flight', events')
      /\ flight'.reascent = 0 /\ flight'.redescent = 0
  BY <1>1, AcceptCarries
<1> QED  BY <1>2, NothingCounted DEF Witnessed

LEMMA LaunchCounts ==
  ASSUME IInv, NEW fr \in Frame, Accept(NewFlight(fr), fr, {"NEW_FLIGHT"}),
         origin' = fr.alt, since' \in Seq(Alts)
  PROVE  Witnessed'
<1> DEFINE f == NewFlight(fr)
<1>1. f \in Flight /\ f.burst = None
  BY NewFlightForm DEF JustSeen
<1>2. f.reascent = 0 /\ f.redescent = 0 /\ f.first = fr.alt /\ f.ascended = FALSE
  BY DEF NewFlight
<1> HIDE DEF f
<1>3. Gated(f, origin')
  BY <1>1, <1>2 DEF Gated
<1> QED  BY <1>1, <1>2, <1>3, CleanAccept DEF f

(* A closed out flight has its counters, a ping adds its frame to them.    *)
LEMMA PingCounts ==
  ASSUME IInv, Witnessed, NEW fr \in Frame, HearPing(fr)
  PROVE  Witnessed'
<1> DEFINE f == Pinged(flight, fr)
           u == Unglitched(f, fr)
           k == flight'
           cap == Most(NewAscentConsecutive, RedescentConsecutive)
           up == ReascentCount(flight, fr)
           down == IF flight.byTimeout THEN RedescentCount(flight, fr) ELSE flight.redescent
<1>1. /\ Sound(flight) /\ flight.state = "LANDED" /\ flight.expired = "no"
      /\ gap \in 0..(Stale + 1) /\ Accept(f, fr, {}) /\ origin' = origin
      /\ ~IsStillDescending(flight, fr) /\ ~IsNewAscent(flight, fr)
      /\ since \in Seq(Alts)
  BY DEF IInv, Rest, HearPing, Landed, NoFlight
<1>2. flight \in Flight /\ flight # NoFlight /\ flight.landedAlt # None
  BY <1>1, FlightFields DEF Sound
<1>3. /\ Gated(flight, origin)
      /\ flight.reascent < NewAscentConsecutive
      /\ Ends(since, flight.reascent, Above(flight.landedAlt))
      /\ flight.redescent < RedescentConsecutive
      /\ Ends(since, flight.redescent, Below(flight.landedAlt))
      /\ ~flight.byTimeout => flight.redescent = 0
      /\ flight.reascent \in Nat /\ flight.redescent \in Nat
  BY <1>1, <1>2, FlightFields DEF Witnessed, Counts
<1>4. /\ NewAscentConsecutive \in Nat \ {0} /\ RedescentConsecutive \in Nat \ {0}
      /\ cap \in Nat \ {0} /\ cap >= NewAscentConsecutive /\ cap >= RedescentConsecutive
  BY TrackerAssumption DEF Most
<1>5. up < NewAscentConsecutive /\ (up = 0 \/ (up = flight.reascent + 1 /\ IsHigh(flight, fr)))
  BY <1>1, <1>3, <1>4 DEF IsNewAscent, ReascentCount
<1>6. /\ down < RedescentConsecutive
      /\ \/ down = 0
         \/ down = flight.redescent + 1 /\ IsLow(flight, fr)
      /\ ~flight.byTimeout => down = 0
  BY <1>1, <1>3, <1>4 DEF IsStillDescending, RedescentCount
<1>7. up \in 0..NewAscentConsecutive /\ down \in 0..RedescentConsecutive
  BY <1>3, <1>4, <1>5, <1>6
<1>8. f = [flight EXCEPT !.redescent = down, !.reascent = up]
  BY DEF Pinged
<1> HIDE DEF f, up, down, cap
<1>9. /\ f \in Flight
      /\ f.state = flight.state /\ f.landedAlt = flight.landedAlt /\ f.expired = "no"
      /\ f.byTimeout = flight.byTimeout
      /\ f.reascent = up /\ f.redescent = down
      /\ f.first = flight.first /\ f.max = flight.max /\ f.burst = flight.burst
      /\ f.ascended = flight.ascended
  BY <1>1, <1>2, <1>7, <1>8 DEF Flight
<1>10. Gated(f, origin')
  BY <1>1, <1>3, <1>9 DEF Gated
<1>11. /\ Gated(k, origin') /\ Recorded(k, events') /\ k.reascent = up /\ k.redescent = down
  BY <1>1, <1>9, <1>10, AcceptCarries DEF Rising
<1>12. /\ k.state = "LANDED" /\ k.expired = "no" /\ k.landedAlt = flight.landedAlt
       /\ k.byTimeout = flight.byTimeout
  <2>1. /\ u \in Flight /\ u.state = "LANDED" /\ u.expired = "no"
        /\ u.landedAlt = f.landedAlt /\ u.byTimeout = f.byTimeout
    BY <1>1, <1>9, UnglitchedForm
  <2>2. k = Applied(u, fr)
    BY <1>1 DEF Accept
  <2> HIDE DEF u, k
  <2> QED  BY <1>1, <1>9, <2>1, <2>2, LandedStays
<1>13. since' = SubSeq(Append(since, fr.alt),
                       Most(1, Len(Append(since, fr.alt)) - cap + 2), Len(Append(since, fr.alt)))
  BY <1>1, <1>2, <1>12 DEF Accept, Landed, cap
<1>14. since' \in Seq(Alts)
  BY HearPingKeeps DEF IInv, Rest
<1>15. fr.alt \in Alts /\ Anchor(flight) = flight.landedAlt
  BY <1>2, FrameFields DEF Anchor
<1>16. Ends(since', up, Above(flight.landedAlt))
  <2>1. CASE up = 0
    BY <1>14, <2>1, EndsNone
  <2>2. CASE up = flight.reascent + 1 /\ IsHigh(flight, fr)
    <3>1. fr.alt \in Above(flight.landedAlt)
      BY <1>15, <2>2 DEF IsHigh, Above
    <3>2. up < cap
      BY <1>4, <1>5, <1>7
    <3> QED  BY <1>1, <1>3, <1>4, <1>13, <1>15, <2>2, <3>1, <3>2, EndsGrow
  <2> QED  BY <1>5, <2>1, <2>2
<1>17. Ends(since', down, Below(flight.landedAlt))
  <2>1. CASE down = 0
    BY <1>14, <2>1, EndsNone
  <2>2. CASE down = flight.redescent + 1 /\ IsLow(flight, fr)
    <3>1. fr.alt \in Below(flight.landedAlt)
      BY <1>15, <2>2 DEF IsLow, Below
    <3>2. down < cap
      BY <1>3, <1>4, <1>6, <1>7
    <3> QED  BY <1>1, <1>3, <1>4, <1>13, <1>15, <2>2, <3>1, <3>2, EndsGrow
  <2> QED  BY <1>6, <2>1, <2>2
<1>18. Counts(k, since')
  BY <1>5, <1>6, <1>11, <1>12, <1>16, <1>17 DEF Counts
<1> QED  BY <1>11, <1>18 DEF Witnessed

LEMMA HearCounts ==
  ASSUME IInv, Witnessed, NEW fr \in Frame, Hear(fr)
  PROVE  Witnessed'
<1>1. since' \in Seq(Alts)
  BY HearKeeps DEF IInv, Rest
<1>2. CASE HearFirst(fr)
  BY <1>1, <1>2, LaunchCounts DEF HearFirst
<1>3. CASE HearInAir(fr)
  <2>1. /\ InAir /\ Accept(flight, fr, {}) /\ origin' = origin
        /\ flight \in Flight /\ flight # NoFlight /\ flight.state # "LANDED"
        /\ flight.state \in Rising => flight.burst = None
    BY <1>3, InAirForm, FlightFields DEF HearInAir
  <2>2. Gated(flight, origin') /\ flight.reascent = 0 /\ flight.redescent = 0
    BY <2>1 DEF Witnessed, Counts
  <2> QED  BY <1>1, <2>1, <2>2, CleanAccept
<1>4. CASE HearExpired(fr)
  <2> DEFINE f == Resumed(flight)
  <2>1. /\ Sound(flight) /\ flight.state = "LANDED" /\ flight.expired # "no"
        /\ Accept(f, fr, {"RESUMED"}) /\ origin' = origin /\ flight # NoFlight
    BY <1>4 DEF IInv, HearExpired, Landed, NoFlight
  <2>2. Gated(flight, origin') /\ flight.reascent = 0 /\ flight.redescent = 0
    BY <2>1 DEF Witnessed, Counts
  <2>3. flight \in Flight /\ flight.expired \in InAirStates
        /\ (flight.expired \in Rising => flight.burst = None)
    BY <2>1, FlightFields DEF Sound, InAirStates
  <2>4. /\ f \in Flight /\ f.state = flight.expired
        /\ f.reascent = 0 /\ f.redescent = flight.redescent
        /\ f.first = flight.first /\ f.max = flight.max /\ f.burst = flight.burst
        /\ f.ascended = flight.ascended
    <3>1. 0 \in 0..NewAscentConsecutive
      BY TrackerAssumption
    <3> QED  BY <2>3, <3>1 DEF Resumed, Flight
  <2> HIDE DEF f
  <2>5. Gated(f, origin')
    BY <2>2, <2>4 DEF Gated
  <2> QED  BY <1>1, <2>1, <2>2, <2>3, <2>4, <2>5, CleanAccept
<1>5. CASE HearStillDescending(fr)
  <2> DEFINE f == ReopenedDescent(flight)
  <2>1. /\ Sound(flight) /\ Accept(f, fr, {"RESUMED"}) /\ origin' = origin /\ flight # NoFlight
        /\ flight \in Flight
    BY <1>5 DEF IInv, HearStillDescending, Landed, NoFlight, Sound
  <2>2. Gated(flight, origin')
    BY <2>1 DEF Witnessed
  <2>3. /\ f \in Flight /\ f.state = "DESCENT"
        /\ f.reascent = 0 /\ f.redescent = 0
        /\ f.first = flight.first /\ f.max = flight.max /\ f.burst = flight.burst
        /\ f.ascended = flight.ascended
    <3>1. 0 \in 0..NewAscentConsecutive /\ 0 \in 0..RedescentConsecutive /\ None \in AltOrNone
      BY TrackerAssumption DEF AltOrNone
    <3> QED  BY <2>1, <3>1 DEF ReopenedDescent, Flight, InAirStates
  <2> HIDE DEF f
  <2>4. Gated(f, origin')
    BY <2>2, <2>3 DEF Gated
  <2> QED  BY <1>1, <2>1, <2>3, <2>4, CleanAccept DEF Rising
<1>6. CASE HearRelaunch(fr)
  BY <1>1, <1>6, LaunchCounts DEF HearRelaunch
<1>7. CASE HearPing(fr)
  BY <1>7, PingCounts
<1> QED  BY <1>2, <1>3, <1>4, <1>5, <1>6, <1>7 DEF Hear

LEMMA StepWitnessed ==
  ASSUME IInv, Witnessed, [Next]_vars
  PROVE  Witnessed'
<1>1. since' \in Seq(Alts)
  BY StepKeeps DEF IInv, Rest
<1>2. CASE HearTeleport
  <2>1. /\ flight \in Flight /\ flight # NoFlight
        /\ flight' = [flight EXCEPT !.glitch = @ + 1]
        /\ events' = {} /\ origin' = origin /\ since' = since
    BY <1>2 DEF HearTeleport, Tracked, IInv, Sound
  <2>2. /\ flight'.first = flight.first /\ flight'.max = flight.max
        /\ flight'.burst = flight.burst /\ flight'.ascended = flight.ascended
        /\ flight'.reascent = flight.reascent /\ flight'.redescent = flight.redescent
        /\ flight'.state = flight.state /\ flight'.expired = flight.expired
        /\ flight'.landedAlt = flight.landedAlt /\ flight'.byTimeout = flight.byTimeout
    BY <2>1 DEF Flight
  <2>3. Gated(flight', origin')
    BY <2>1, <2>2 DEF Witnessed, Gated
  <2>4. Counts(flight', since')
    BY <2>1, <2>2 DEF Witnessed, Counts
  <2>5. Recorded(flight', events')
    BY <2>1 DEF Recorded
  <2> QED  BY <2>3, <2>4, <2>5 DEF Witnessed
<1>3. CASE \E fr \in Frame : Hear(fr)
  BY <1>3, HearCounts
<1>4. CASE SweepExpire \/ SweepLand
  <2>1. /\ InAir /\ flight \in Flight /\ flight # NoFlight /\ flight.state # "LANDED"
        /\ origin' = origin /\ events' \in {{"EXPIRED"}, {"LANDED"}}
        /\ \/ flight' = [flight EXCEPT !.expired = flight.state, !.state = "LANDED"]
           \/ flight' = [flight EXCEPT !.state = "LANDED", !.landedAlt = flight.last,
                                       !.byTimeout = TRUE]
    BY <1>4, InAirForm, FlightFields DEF SweepExpire, SweepLand, Close
  <2>2. /\ flight'.first = flight.first /\ flight'.max = flight.max
        /\ flight'.burst = flight.burst /\ flight'.ascended = flight.ascended
        /\ flight'.reascent = flight.reascent /\ flight'.redescent = flight.redescent
    BY <2>1 DEF Flight
  <2>3. Gated(flight', origin')
    BY <2>1, <2>2 DEF Witnessed, Gated
  <2>4. Counts(flight', since')
    <3>1. flight.reascent = 0 /\ flight.redescent = 0
      BY <2>1 DEF Witnessed, Counts
    <3> QED  BY <1>1, <2>2, <3>1, NothingCounted
  <2>5. Recorded(flight', events')
    BY <2>1 DEF Recorded
  <2> QED  BY <2>3, <2>4, <2>5 DEF Witnessed
<1>5. CASE SweepEvict \/ DropOrForget
  BY <1>5 DEF SweepEvict, DropOrForget, Gone, Witnessed
<1>6. CASE Restart
  <2>1. CASE ~InAir
    BY <1>6, <2>1 DEF Restart, Gone, Witnessed
  <2>2. CASE InAir
    <3>1. flight \in Flight /\ flight' = Rehydrated(flight) /\ events' = {}
      BY <1>6, <2>2, InAirForm DEF Restart
    <3>2. flight'.first = None /\ flight'.reascent = 0 /\ flight'.redescent = 0
      BY <3>1 DEF Rehydrated, Flight
    <3>3. Gated(flight', origin') /\ Recorded(flight', events')
      BY <3>1, <3>2 DEF Gated, Recorded
    <3> QED  BY <1>1, <3>2, <3>3, NothingCounted DEF Witnessed
  <2> QED  BY <2>1, <2>2
<1>7. CASE Tick \/ UNCHANGED vars
  <2>1. UNCHANGED <<flight, events, origin, since>>
    BY <1>7 DEF Tick, vars
  <2> QED  BY <2>1 DEF Witnessed, Gated, Recorded, Counts
<1> QED  BY <1>2, <1>3, <1>4, <1>5, <1>6, <1>7 DEF Next, Sweep

LEMMA WitnessHolds == Spec => [](IInv /\ Witnessed)
<1>1. Init => IInv /\ Witnessed
  BY InitHolds DEF Init, Witnessed
<1>2. IInv /\ Witnessed /\ [Next]_vars => (IInv /\ Witnessed)'
  BY StepKeeps, StepWitnessed
<1> QED  BY <1>1, <1>2, PTL DEF Spec

(* For a flight this process heard from its first frame, a burst altitude  *)
(* is recorded if, and only if, a climb was watched before it, whatever    *)
(* bursts were called too early, taken back or interrupted by a silence.   *)
THEOREM BurstCorrect == Spec => []BurstRecordedRight
<1>1. IInv /\ Witnessed => BurstRecordedRight
  BY DEF Witnessed, Gated, Recorded, BurstRecordedRight, BurstWasWatched, Tracked
<1> QED  BY <1>1, WitnessHolds, PTL

(* A counter that is full stands for as many frames beyond the landing.    *)
LEMMA FullCount ==
  ASSUME NEW s \in Seq(Alts), NEW n \in Nat \ {0}, NEW c \in Nat, c < n, c + 1 >= n,
         NEW S, Ends(s, c, S)
  PROVE  /\ Len(s) >= n - 1
         /\ \A i \in (Len(s) - n + 2)..Len(s) : s[i] \in S
<1>1. c = n - 1 /\ Len(s) \in Nat
  OBVIOUS
<1> QED  BY <1>1 DEF Ends

LEMMA AcceptedLast ==
  ASSUME NEW f \in Flight, NEW fr \in Frame, gap \in 0..(Stale + 1), NEW evs,
         Accept(f, fr, evs)
  PROVE  flight'.last = fr.alt
<1> DEFINE u == Unglitched(f, fr)
           g == FallingOn(Climbing(Observed(u, fr), fr), fr)
<1>1. g \in Flight
  BY UnglitchedForm, ObservedForm, ClimbingForm, FallingForm
<1>2. flight' = [g EXCEPT !.last = fr.alt, !.under = fr.ground, !.paired = TRUE]
  BY DEF Accept, Applied
<1> HIDE DEF g
<1> QED  BY <1>1, <1>2 DEF Flight

(* A closed-out flight is reopened, or its serial reused for a new flight, *)
(* only by frames in a row since the close-out that are all clearly below, *)
(* or above, the altitude of the landing: however pings, glitches and      *)
(* silences lie between them, no count outlives what it counted.           *)
THEOREM ReopeningCorrect == Spec => ReopeningIsSustained
<1>1. IInv /\ Witnessed /\ [Next]_vars =>
        [Landed /\ flight.expired = "no" /\ flight' # flight =>
           /\ "NEW_FLIGHT" \in events' =>
                LastAllIn(NewAscentConsecutive, Above(flight.landedAlt))
           /\ "RESUMED" \in events' =>
                LastAllIn(RedescentConsecutive, Below(flight.landedAlt))]_vars
  <2> SUFFICES ASSUME IInv, Witnessed, Next, Landed, flight.expired = "no",
                      events' # {}, "NEW_FLIGHT" \in events' \/ "RESUMED" \in events',
                      flight' # flight
               PROVE  /\ "NEW_FLIGHT" \in events' =>
                           LastAllIn(NewAscentConsecutive, Above(flight.landedAlt))
                      /\ "RESUMED" \in events' =>
                           LastAllIn(RedescentConsecutive, Below(flight.landedAlt))
    BY DEF vars
  <2>1. /\ Sound(flight) /\ flight \in Flight /\ flight.state = "LANDED" /\ flight # NoFlight
        /\ gap \in 0..(Stale + 1) /\ since \in Seq(Alts)
        /\ Anchor(flight) = flight.landedAlt
    BY FlightFields DEF IInv, Rest, Landed, NoFlight, Sound, Anchor
  <2>2. /\ flight.reascent < NewAscentConsecutive
        /\ Ends(since, flight.reascent, Above(flight.landedAlt))
        /\ flight.redescent < RedescentConsecutive
        /\ Ends(since, flight.redescent, Below(flight.landedAlt))
    BY <2>1 DEF Witnessed, Counts
  <2>3. /\ flight.reascent \in Nat /\ flight.redescent \in Nat
        /\ NewAscentConsecutive \in Nat \ {0} /\ RedescentConsecutive \in Nat \ {0}
    <3>1. NewAscentConsecutive \in Nat \ {0} /\ RedescentConsecutive \in Nat \ {0}
      BY TrackerAssumption
    <3>2. flight.reascent \in 0..NewAscentConsecutive
          /\ flight.redescent \in 0..RedescentConsecutive
      BY <2>1, FlightFields
    <3> QED  BY <3>1, <3>2
  <2>4. PICK fr \in Frame : HearStillDescending(fr) \/ HearRelaunch(fr)
    <3>1. PICK fr \in Frame : Hear(fr)
      BY <2>1 DEF Next, HearTeleport, Sweep, SweepExpire, SweepLand, SweepEvict, Close, Gone,
                  DropOrForget, Restart, Tick, InAir, InAirStates
    <3>2. ~HearFirst(fr) /\ ~HearInAir(fr) /\ ~HearExpired(fr)
      BY <2>1 DEF HearFirst, HearInAir, HearExpired, Tracked, InAir, InAirStates
    <3>3. ~HearPing(fr)
      <4> SUFFICES ASSUME HearPing(fr) PROVE FALSE
        OBVIOUS
      <4>1. events' = {} \cup Announced(Unglitched(Pinged(flight, fr), fr), fr)
        BY DEF HearPing, Accept
      <4> QED  BY <4>1 DEF Announced
    <3> QED  BY <3>1, <3>2, <3>3 DEF Hear
  <2>5. fr.alt \in Alts
    BY FrameFields
  <2>6. CASE HearStillDescending(fr)
    <3>1. "NEW_FLIGHT" \notin events' /\ flight'.last = fr.alt
      <4>1. Accept(ReopenedDescent(flight), fr, {"RESUMED"})
        BY <2>6 DEF HearStillDescending
      <4>2. ReopenedDescent(flight) \in Flight
        <5>1. 0 \in 0..NewAscentConsecutive /\ 0 \in 0..RedescentConsecutive /\ None \in AltOrNone
          BY TrackerAssumption DEF AltOrNone
        <5> QED  BY <2>1, <5>1 DEF ReopenedDescent, Flight, InAirStates
      <4>3. "NEW_FLIGHT" \notin events'
        BY <4>1 DEF Accept, Announced
      <4> QED  BY <2>1, <4>1, <4>2, <4>3, AcceptedLast
    <3>2. IsLow(flight, fr) /\ flight.redescent + 1 >= RedescentConsecutive
      BY <2>2, <2>6, <2>3 DEF HearStillDescending, IsStillDescending, RedescentCount
    <3>3. fr.alt \in Below(flight.landedAlt)
      BY <2>1, <2>5, <3>2 DEF IsLow, Below
    <3>4. /\ Len(since) >= RedescentConsecutive - 1
          /\ \A i \in (Len(since) - RedescentConsecutive + 2)..Len(since) :
               since[i] \in Below(flight.landedAlt)
      BY <2>1, <2>2, <2>3, <3>2, FullCount
    <3> QED  BY <3>1, <3>3, <3>4 DEF LastAllIn
  <2>7. CASE HearRelaunch(fr)
    <3>1. "RESUMED" \notin events' /\ flight'.last = fr.alt
      <4>1. Accept(NewFlight(fr), fr, {"NEW_FLIGHT"})
        BY <2>7 DEF HearRelaunch
      <4>2. NewFlight(fr) \in Flight
        BY NewFlightForm DEF JustSeen
      <4>3. "RESUMED" \notin events'
        BY <4>1 DEF Accept, Announced
      <4> QED  BY <2>1, <4>1, <4>2, <4>3, AcceptedLast
    <3>2. IsHigh(flight, fr) /\ flight.reascent + 1 >= NewAscentConsecutive
      BY <2>2, <2>7, <2>3 DEF HearRelaunch, IsNewAscent, ReascentCount
    <3>3. fr.alt \in Above(flight.landedAlt)
      BY <2>1, <2>5, <3>2 DEF IsHigh, Above
    <3>4. /\ Len(since) >= NewAscentConsecutive - 1
          /\ \A i \in (Len(since) - NewAscentConsecutive + 2)..Len(since) :
               since[i] \in Above(flight.landedAlt)
      BY <2>1, <2>2, <2>3, <3>2, FullCount
    <3> QED  BY <3>1, <3>3, <3>4 DEF LastAllIn
  <2> QED  BY <2>4, <2>6, <2>7
<1> QED  BY <1>1, WitnessHolds, PTL DEF Spec, ReopeningIsSustained
=============================================================================
