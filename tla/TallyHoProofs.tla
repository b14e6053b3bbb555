--------------------------- MODULE TallyHoProofs ---------------------------
(***************************************************************************)
(* Proofs, for any number of days, crashes and rebuilds, that the flights, *)
(* the landing truth and the alerts of a serial agree, however calls,      *)
(* rebuilds, clearing and crashes interleave.                              *)
(***************************************************************************)
EXTENDS TallyHo, SequenceTheorems, TLAPS

CloseOuts == {"expired", "provisional"}

OpRecord == [op: Ops, day: Days, from: {"expired", "provisional", "none"},
             by: Detected \cup {"none"}]

Typed ==
  /\ today \in Days
  /\ flights \in [Days -> Lives]
  /\ active \in Days \cup {NoDay}
  /\ rows \in [Days -> InAirStates \cup {"LANDED", "none"}]
  /\ truth \in [Days -> Detected \cup {"none"}]
  /\ alerts \in [Days -> SUBSET {"INBOUND", "LANDED"}]
  /\ todo \in Seq(OpRecord)
  /\ crashes \in 0..MaxCrashes /\ rebuilds \in 0..MaxRebuilds
  /\ reused \subseteq Days /\ torn \subseteq Days
  /\ inbounds \in 0..2 /\ shifted \in BOOLEAN /\ wiped \in BOOLEAN

(* What a call may still have to do for a flight in state l, once nothing  *)
(* is left to be retracted.                                                *)
Rest(d, l) ==
  {<<>>} \cup
  (IF l = Airborne("DESCENT") THEN {<<Do("inbound", d)>>} ELSE {}) \cup
  (IF l = Down THEN {LandingWork(d, "telemetry"), <<Do("notify", d)>>} ELSE {}) \cup
  (IF l = DownByTimeout
   THEN {LandingWork(d, "timeout"), <<Do("notify", d)>>, <<Do("refine", d)>>, <<Do("rerecord", d)>>}
   ELSE {})

Resuming(d, from, w) == <<Op("retract", d, from, "none")>> \o w

(* A retraction comes first; a flight that is down again is then announced. *)
IsWork(d, l) ==
  \/ todo \in Rest(d, l)
  \/ \E from \in CloseOuts : \E w \in Rest(d, l) :
       /\ todo = Resuming(d, from, w)
       /\ InAir(l) \/ (l = Down /\ w # <<>>)

(* The call in progress is about the active flight, and fits its state.    *)
WorkFits == ~Free => Tracked /\ IsWork(active, flights[active])

Retracting(d) == Doing("retract") /\ Key = d
RetractingLanding(d) == Retracting(d) /\ Head(todo).from = "provisional"

(* No landing is left of a flight in the air or lost in mid-air, but for   *)
(* what is just being retracted.                                           *)
AirIsClean ==
  \A d \in Undisturbed :
    /\ InAir(flights[d]) \/ flights[d].expired # "no" =>
         RetractingLanding(d) \/ RetractsNothing(d)
    /\ Retracting(d) => RetractingLanding(d) \/ RetractsNothing(d)

(* TruthIsOwn, at every step of a call.                                    *)
TruthFits ==
  \A d \in Undisturbed :
    /\ flights[d] = Down => Retracting(d) \/ truth[d] \in {"telemetry", "none"}
    /\ flights[d] = DownByTimeout => truth[d] \in {"timeout", "none"}

(* InboundGetsLanded, at every step of a call.                             *)
Announcing == ~Free /\ Head(todo).op \in {"retract", "record", "notify"}
InboundTold ==
  \A d \in Undisturbed :
    d = active /\ flights[d] \in {Down, DownByTimeout} /\ "INBOUND" \in alerts[d] =>
      Announcing \/ "LANDED" \in alerts[d]

(* The row of the one INBOUND push is there, as long as the flight keeps   *)
(* its key and its rows.                                                   *)
InboundOnce ==
  shifted \/ wiped \/
    (inbounds <= 1 /\ (inbounds = 1 /\ Tracked => "INBOUND" \in alerts[active]))

IInv ==
  /\ Typed /\ FlightsAgree /\ WorkFits
  /\ AirIsClean /\ TruthFits /\ InboundTold /\ InboundOnce

-----------------------------------------------------------------------------
(* Facts about the lives of a flight.                                      *)

(* A life is one of nine; what tells them apart.                           *)
LEMMA LifeFacts ==
  /\ \A l \in Lives :
       /\ InAir(l) <=> \E s \in InAirStates : l = Airborne(s)
       /\ InAir(l) => l.expired = "no" /\ ~l.provisional
                      /\ l # Absent /\ l # Down /\ l # DownByTimeout
       /\ l.expired # "no" <=> \E s \in InAirStates : l = ExpiredFrom(s)
       /\ l.provisional <=> l = DownByTimeout
       /\ l.state \in InAirStates \cup {"LANDED", "ABSENT"}
       /\ l.state = "ABSENT" <=> l = Absent
       /\ l.state \in InAirStates => l = Airborne(l.state)
       /\ l.expired # "no" => l # Absent /\ l # Down /\ l # DownByTimeout
       /\ l \in {Absent, Down, DownByTimeout} \/ InAir(l) \/ l.expired # "no"
  /\ Absent # Down /\ Absent # DownByTimeout /\ Down # DownByTimeout
  /\ ~InAir(Absent) /\ ~InAir(Down) /\ ~InAir(DownByTimeout)
  /\ Absent.expired = "no" /\ Down.expired = "no" /\ DownByTimeout.expired = "no"
  /\ Down.state = "LANDED" /\ DownByTimeout.state = "LANDED"
  /\ Absent \in Lives /\ Down \in Lives /\ DownByTimeout \in Lives
  /\ "DESCENT" \in InAirStates
  /\ \A s \in InAirStates : /\ Airborne(s) \in Lives /\ Airborne(s).state = s
                            /\ ExpiredFrom(s) \in Lives /\ InAir(Airborne(s))
                            /\ ExpiredFrom(s).state = "LANDED"
                            /\ ExpiredFrom(s).expired = s
BY DEF Lives, InAir, InAirStates, Absent, Down, DownByTimeout, Airborne, ExpiredFrom

(* A frame leaves a flight in the air, or lands it.                        *)
LEMMA FlownFacts ==
  ASSUME NEW s \in InAirStates, NEW o \in Flown(s)
  PROVE  /\ \/ o.life \in {Airborne(r) : r \in InAirStates} /\ "LANDED" \notin o.events
            \/ o.life = Down /\ "LANDED" \in o.events
         /\ "NEW_FLIGHT" \notin o.events /\ "RESUMED" \notin o.events
<1>1. CASE s = "ASCENT"
  <2>1. o \in {To(Airborne(s), {}), To(Airborne("FLOAT"), {"FLOAT"}),
               To(Airborne("DESCENT"), {"BURST"}), To(Down, {"BURST", "LANDED"})}
    BY <1>1 DEF Flown
  <2> QED  BY <2>1 DEF To, InAirStates
<1>2. CASE s = "FLOAT"
  <2>1. o \in {To(Airborne(s), {}), To(Airborne("DESCENT"), {"BURST"}),
               To(Down, {"BURST", "LANDED"})}
    BY <1>2 DEF Flown
  <2> QED  BY <2>1 DEF To, InAirStates
<1>3. CASE s = "DESCENT"
  <2>1. o \in {To(Airborne(s), {}), To(Airborne("ASCENT"), {}), To(Down, {"LANDED"})}
    BY <1>3 DEF Flown
  <2> QED  BY <2>1 DEF To, InAirStates
<1> QED  BY <1>1, <1>2, <1>3 DEF InAirStates

(* So does a frame that resumes one.                                       *)
LEMMA ResumedFacts ==
  ASSUME NEW s \in InAirStates, NEW o \in Resumed(s)
  PROVE  /\ \/ o.life \in {Airborne(r) : r \in InAirStates} /\ "LANDED" \notin o.events
            \/ o.life = Down /\ "LANDED" \in o.events
         /\ "NEW_FLIGHT" \notin o.events /\ "RESUMED" \in o.events
<1>1. PICK p \in Flown(s) : o = To(p.life, p.events \cup {"RESUMED"})
  BY DEF Resumed
<1> QED  BY <1>1, FlownFacts DEF To

(* What a frame may do: launch, fly on, change nothing, or resume.         *)
LEMMA HeardFacts ==
  ASSUME NEW l \in Lives, NEW o \in Heard(l)
  PROVE  \/ /\ o = Launched
            /\ l \in {Absent, Down, DownByTimeout}
         \/ /\ InAir(l) /\ "NEW_FLIGHT" \notin o.events /\ "RESUMED" \notin o.events
            /\ \/ o.life \in {Airborne(r) : r \in InAirStates} /\ "LANDED" \notin o.events
               \/ o.life = Down /\ "LANDED" \in o.events
         \/ o = To(l, {}) /\ ~InAir(l) /\ l # Absent
         \/ /\ l = DownByTimeout \/ l.expired # "no"
            /\ "NEW_FLIGHT" \notin o.events /\ "RESUMED" \in o.events
            /\ \/ o.life \in {Airborne(r) : r \in InAirStates} /\ "LANDED" \notin o.events
               \/ o.life = Down /\ "LANDED" \in o.events
<1>1. CASE l = Absent
  BY <1>1, LifeFacts DEF Heard
<1>2. CASE InAir(l)
  <2>1. l.state \in InAirStates /\ o \in Flown(l.state)
    BY <1>2, LifeFacts DEF Heard, InAir
  <2> QED  BY <1>2, <2>1, FlownFacts
<1>3. CASE l = Down
  BY <1>3, LifeFacts DEF Heard
<1>4. CASE l = DownByTimeout
  <2>1. o \in {To(l, {}), Launched} \cup Resumed("DESCENT")
    BY <1>4, LifeFacts DEF Heard
  <2>2. "DESCENT" \in InAirStates
    BY DEF InAirStates
  <2> QED  BY <1>4, <2>1, <2>2, ResumedFacts, LifeFacts
<1>5. CASE l.expired # "no"
  <2>1. o \in {To(l, {})} \cup Resumed(l.expired) /\ ~InAir(l)
    BY <1>5, LifeFacts DEF Heard
  <2>2. l.expired \in InAirStates
    BY <1>5, LifeFacts
  <2> QED  BY <1>5, <2>1, <2>2, ResumedFacts, LifeFacts
<1> QED  BY <1>1, <1>2, <1>3, <1>4, <1>5, LifeFacts

(* What the sweep may do: give up, land by timeout, or evict.              *)
LEMMA SweptFacts ==
  ASSUME NEW l \in Lives, NEW o \in Swept(l)
  PROVE  \/ /\ InAir(l) /\ o.life \in {ExpiredFrom(s) : s \in InAirStates}
            /\ "LANDED" \notin o.events
         \/ l = Airborne("DESCENT") /\ o.life = DownByTimeout /\ "LANDED" \in o.events
         \/ ~InAir(l) /\ l # Absent /\ o.life = Absent /\ "LANDED" \notin o.events
<1>1. CASE InAir(l)
  <2>1. o \in {To(ExpiredFrom(l.state), {"EXPIRED"})} \cup
         (IF l.state = "DESCENT" THEN {To(DownByTimeout, {"LANDED"})} ELSE {})
    BY <1>1 DEF Swept
  <2>2. l.state \in InAirStates /\ l = Airborne(l.state)
    BY <1>1, LifeFacts DEF InAir
  <2> HIDE DEF Airborne, ExpiredFrom, DownByTimeout
  <2> QED  BY <1>1, <2>1, <2>2 DEF To
<1>2. CASE ~InAir(l)
  <2>1. l # Absent /\ o = To(Absent, {})
    BY <1>2 DEF Swept
  <2> QED  BY <1>2, <2>1 DEF To
<1> QED  BY <1>1, <1>2

-----------------------------------------------------------------------------
(* Facts about what a call has still to do.                                *)

LEMMA OpFacts ==
  ASSUME NEW op \in Ops, NEW d \in Days, NEW from \in {"expired", "provisional", "none"},
         NEW by \in Detected \cup {"none"}
  PROVE  /\ Op(op, d, from, by) \in OpRecord
         /\ Op(op, d, from, by).op = op /\ Op(op, d, from, by).day = d
         /\ Op(op, d, from, by).from = from /\ Op(op, d, from, by).by = by
BY DEF Op, OpRecord

LEMMA DoFacts ==
  ASSUME NEW op \in Ops, NEW d \in Days
  PROVE  Do(op, d) \in OpRecord /\ Do(op, d).op = op /\ Do(op, d).day = d
BY OpFacts DEF Do

(* What is left once nothing is to be retracted: whose it is, what the     *)
(* flight must be for it, and what comes after.                            *)
LEMMA RestFacts ==
  ASSUME NEW d \in Days, NEW l \in Lives, NEW w \in Rest(d, l)
  PROVE  /\ w \in Seq(OpRecord)
         /\ w # <<>> =>
              /\ Head(w).day = d /\ Tail(w) \in Rest(d, l)
              /\ \/ Head(w).op = "inbound" /\ l = Airborne("DESCENT") /\ Tail(w) = <<>>
                 \/ /\ Head(w).op = "record" /\ Tail(w) = <<Do("notify", d)>>
                    /\ \/ l = Down /\ Head(w).by = "telemetry"
                       \/ l = DownByTimeout /\ Head(w).by = "timeout"
                 \/ Head(w).op = "notify" /\ l \in {Down, DownByTimeout} /\ Tail(w) = <<>>
                 \/ /\ Head(w).op \in {"refine", "rerecord"} /\ Tail(w) = <<>>
                    /\ l = DownByTimeout
<1>1. \A op \in Ops : /\ Do(op, d) \in OpRecord /\ Do(op, d).op = op /\ Do(op, d).day = d
  BY DoFacts
<1>2. \A by \in Detected : LET r == Op("record", d, "none", by)
                           IN r \in OpRecord /\ r.op = "record" /\ r.day = d /\ r.by = by
  BY OpFacts DEF Ops
<1>3. Ops = {"retract", "record", "notify", "inbound", "refine", "rerecord"}
  BY DEF Ops
<1>4. <<>> \in Rest(d, l)
  BY DEF Rest
<1>5. CASE w = <<>>
  BY <1>5
<1>6. CASE l = Airborne("DESCENT") /\ w = <<Do("inbound", d)>>
  BY <1>6, <1>1, <1>3, <1>4
<1>7. CASE \E by \in Detected : /\ w = LandingWork(d, by)
                                /\ \/ l = Down /\ by = "telemetry"
                                   \/ l = DownByTimeout /\ by = "timeout"
  <2>1. PICK by \in Detected : /\ w = LandingWork(d, by)
                               /\ \/ l = Down /\ by = "telemetry"
                                  \/ l = DownByTimeout /\ by = "timeout"
    BY <1>7
  <2>2. w = <<Op("record", d, "none", by), Do("notify", d)>>
    BY <2>1 DEF LandingWork
  <2>3. <<Do("notify", d)>> \in Rest(d, l)
    BY <2>1 DEF Rest
  <2> QED  BY <2>1, <2>2, <2>3, <1>1, <1>2, <1>3
<1>8. CASE l \in {Down, DownByTimeout} /\ w = <<Do("notify", d)>>
  BY <1>8, <1>1, <1>3, <1>4
<1>9. CASE l = DownByTimeout /\ w \in {<<Do("refine", d)>>, <<Do("rerecord", d)>>}
  <2>1. PICK op \in {"refine", "rerecord"} : w = <<Do(op, d)>>
    BY <1>9
  <2> QED  BY <1>9, <2>1, <1>1, <1>3, <1>4
<1> QED
  <2>1. "telemetry" \in Detected /\ "timeout" \in Detected
    BY DEF Detected
  <2> HIDE DEF LandingWork, Do, Airborne, Down, DownByTimeout
  <2> QED  BY <2>1, <1>5, <1>6, <1>7, <1>8, <1>9 DEF Rest

(* A retraction put before it comes first.                                 *)
LEMMA ResumingFacts ==
  ASSUME NEW d \in Days, NEW w \in Seq(OpRecord),
         NEW from \in CloseOuts
  PROVE  LET t == Resuming(d, from, w)
         IN /\ t \in Seq(OpRecord) /\ t # <<>> /\ Tail(t) = w
            /\ Head(t).op = "retract" /\ Head(t).day = d /\ Head(t).from = from
<1> DEFINE r == Op("retract", d, from, "none")
<1>1. r \in OpRecord /\ r.op = "retract" /\ r.day = d /\ r.from = from
  BY OpFacts DEF Ops, CloseOuts
<1>2. Resuming(d, from, w) = <<r>> \o w
  BY DEF Resuming
<1> HIDE DEF r
<1> QED  BY <1>1, <1>2

(* The next commit is about the active flight, and what it is tells what   *)
(* the flight is.                                                          *)
LEMMA NextCommit ==
  ASSUME Typed, WorkFits, ~Free
  PROVE  /\ Tracked /\ active \in Days /\ Key = active
         /\ flights[active] \in Lives
         /\ Tail(todo) \in Rest(active, flights[active])
         /\ \/ /\ Head(todo).op = "inbound" /\ Tail(todo) = <<>>
               /\ flights[active] = Airborne("DESCENT")
            \/ /\ Head(todo).op = "record" /\ Tail(todo) = <<Do("notify", active)>>
               /\ \/ flights[active] = Down /\ Head(todo).by = "telemetry"
                  \/ flights[active] = DownByTimeout /\ Head(todo).by = "timeout"
            \/ /\ Head(todo).op = "notify" /\ Tail(todo) = <<>>
               /\ flights[active] \in {Down, DownByTimeout}
            \/ /\ Head(todo).op \in {"refine", "rerecord"} /\ Tail(todo) = <<>>
               /\ flights[active] = DownByTimeout
            \/ /\ Head(todo).op = "retract" /\ Head(todo).from \in CloseOuts
               /\ \/ InAir(flights[active])
                  \/ flights[active] = Down /\ Tail(todo) # <<>>
<1>1. active \in Days /\ flights[active] \in Lives /\ Tracked
  BY DEF Typed, WorkFits, Tracked, NoDay, Days
<1>2. IsWork(active, flights[active])
  BY DEF WorkFits
<1>3. CASE todo \in Rest(active, flights[active])
  <2>1. todo # <<>>
    BY DEF Free
  <2>2. Head(todo).day = active /\ Tail(todo) \in Rest(active, flights[active])
    BY <1>1, <1>3, <2>1, RestFacts
  <2>3. \/ /\ Head(todo).op = "inbound" /\ Tail(todo) = <<>>
           /\ flights[active] = Airborne("DESCENT")
        \/ /\ Head(todo).op = "record" /\ Tail(todo) = <<Do("notify", active)>>
           /\ \/ flights[active] = Down /\ Head(todo).by = "telemetry"
              \/ flights[active] = DownByTimeout /\ Head(todo).by = "timeout"
        \/ /\ Head(todo).op = "notify" /\ Tail(todo) = <<>>
           /\ flights[active] \in {Down, DownByTimeout}
        \/ /\ Head(todo).op \in {"refine", "rerecord"} /\ Tail(todo) = <<>>
           /\ flights[active] = DownByTimeout
    BY <1>1, <1>3, <2>1, RestFacts
  <2> QED  BY <1>1, <2>2, <2>3 DEF Key
<1>4. CASE todo \notin Rest(active, flights[active])
  <2>1. PICK from \in CloseOuts :
          \E w \in Rest(active, flights[active]) :
            /\ todo = Resuming(active, from, w)
            /\ InAir(flights[active]) \/ (flights[active] = Down /\ w # <<>>)
    BY <1>2, <1>4 DEF IsWork
  <2>2. PICK w \in Rest(active, flights[active]) :
            /\ todo = Resuming(active, from, w)
            /\ InAir(flights[active]) \/ (flights[active] = Down /\ w # <<>>)
    BY <2>1
  <2>3. w \in Seq(OpRecord)
    BY <1>1, RestFacts
  <2>4. /\ Tail(todo) = w /\ Head(todo).op = "retract" /\ Head(todo).day = active
        /\ Head(todo).from = from
    <3> DEFINE t == Resuming(active, from, w)
    <3>0. active \in Days
      BY <1>1
    <3>1. /\ Tail(t) = w /\ Head(t).op = "retract" /\ Head(t).day = active
          /\ Head(t).from = from
      BY <3>0, <2>3, ResumingFacts, Zenon
    <3>2. todo = t
      BY <2>2
    <3> HIDE DEF t
    <3> QED  BY <3>1, <3>2
  <2>5. Key = active
    BY <2>4 DEF Key
  <2>6. /\ Head(todo).op = "retract" /\ Head(todo).from \in CloseOuts
        /\ InAir(flights[active]) \/ (flights[active] = Down /\ Tail(todo) # <<>>)
    BY <2>2, <2>4
  <2> QED  BY <1>1, <2>2, <2>4, <2>5, <2>6
<1> QED  BY <1>3, <1>4

-----------------------------------------------------------------------------
(* The commits of a call keep the invariant.                               *)

LEMMA AgreementKept ==
  ASSUME FlightsAgree, UNCHANGED <<flights, active, rows>>
  PROVE  FlightsAgree'
BY DEF FlightsAgree, ActiveIsTracked, RowsMatchFlights, Tracked, NoDay, Days

(* Whatever was committed, what is left fits the flight.                   *)
LEMMA AfterCommit ==
  ASSUME Typed, WorkFits, ~Free, Done, UNCHANGED memory
  PROVE  WorkFits' /\ ~Doing("retract")' /\ todo' \in Seq(OpRecord)
<1>1. /\ Tracked /\ active \in Days /\ flights[active] \in Lives
      /\ todo' \in Rest(active, flights[active])
  BY NextCommit DEF Done
<1>2. active' = active /\ flights' = flights
  BY DEF memory
<1>3. WorkFits'
  <2>1. IsWork(active, flights[active])'
    BY <1>1, <1>2 DEF IsWork
  <2> QED  BY <1>1, <1>2, <2>1 DEF WorkFits, Tracked, NoDay
<1>4. todo' # <<>> => Head(todo').op # "retract"
  BY <1>1, RestFacts
<1>5. todo' \in Seq(OpRecord)
  BY <1>1, RestFacts
<1> QED  BY <1>3, <1>4, <1>5 DEF Doing, Free

LEMMA RetractKeeps ==
  ASSUME IInv, Retract
  PROVE  IInv'
<1> USE DEF IInv
<1>1. /\ ~Free /\ Head(todo).op = "retract" /\ Tracked /\ active \in Days /\ Key = active
      /\ Tail(todo) \in Rest(active, flights[active]) /\ flights[active] \in Lives
      /\ InAir(flights[active]) \/ (flights[active] = Down /\ Tail(todo) # <<>>)
  BY NextCommit DEF Retract, Doing
<1>2. /\ truth' = [truth EXCEPT ![active] = "none"]
      /\ alerts' = [alerts EXCEPT ![active] = @ \ {"LANDED"}]
      /\ todo' = Tail(todo)
      /\ UNCHANGED <<today, flights, active, rows, crashes, rebuilds,
                     reused, torn, inbounds, shifted, wiped>>
  BY <1>1 DEF Retract, Done, memory, history
<1>3. WorkFits' /\ ~Doing("retract")' /\ todo' \in Seq(OpRecord)
  BY <1>1, <1>2, AfterCommit DEF Done, memory
<1>4. Typed'
  BY <1>1, <1>2, <1>3 DEF Typed
<1>5. FlightsAgree'
  BY <1>2, AgreementKept
<1>6. Undisturbed' = Undisturbed /\ Undisturbed \subseteq Days
  BY <1>2 DEF Undisturbed, Days
<1>7. \A d \in Days : d # active => ~Retracting(d) /\ truth'[d] = truth[d] /\ alerts'[d] = alerts[d]
  BY <1>1, <1>2 DEF Retracting, Typed
<1>8. truth'[active] = "none" /\ alerts'[active] = alerts[active] \ {"LANDED"}
  BY <1>1, <1>2 DEF Typed
<1>9. AirIsClean'
  <2> SUFFICES ASSUME NEW d \in Undisturbed
               PROVE  /\ InAir(flights[d]) \/ flights[d].expired # "no" => RetractsNothing(d)'
                      /\ ~Retracting(d)'
    BY <1>2, <1>6 DEF AirIsClean
  <2> QED  BY <1>3, <1>6, <1>7, <1>8 DEF AirIsClean, Retracting, RetractingLanding, RetractsNothing
<1>10. TruthFits'
  <2> SUFFICES ASSUME NEW d \in Undisturbed
               PROVE  /\ flights[d] = Down => truth'[d] \in {"telemetry", "none"}
                      /\ flights[d] = DownByTimeout => truth'[d] \in {"timeout", "none"}
    BY <1>2, <1>6 DEF TruthFits
  <2> QED  BY <1>6, <1>7, <1>8 DEF TruthFits
<1>11. InboundTold'
  <2>1. flights[active] \in {Down, DownByTimeout} => Announcing'
    <3> SUFFICES ASSUME flights[active] = Down, todo' # <<>>
                 PROVE  todo' # <<>> /\ Head(todo').op \in {"record", "notify"}
      BY <1>1, <1>2, LifeFacts DEF Announcing, Free
    <3>1. flights[active] # Airborne("DESCENT") /\ flights[active] # DownByTimeout
      BY LifeFacts
    <3> QED  BY <1>1, <1>2, <3>1, RestFacts
  <2> QED  BY <1>2, <1>6, <2>1 DEF InboundTold
<1>12. InboundOnce'
  BY <1>1, <1>2, <1>8 DEF InboundOnce, Tracked
<1> QED  BY <1>3, <1>4, <1>5, <1>9, <1>10, <1>11, <1>12

LEMMA RecordKeeps ==
  ASSUME IInv, NEW refused \in BOOLEAN, RecordLanding(refused)
  PROVE  IInv'
<1> USE DEF IInv
<1>1. /\ ~Free /\ Head(todo).op = "record" /\ Tracked /\ active \in Days /\ Key = active
      /\ Tail(todo) = <<Do("notify", active)>>
      /\ \/ flights[active] = Down /\ Head(todo).by = "telemetry"
         \/ flights[active] = DownByTimeout /\ Head(todo).by = "timeout"
  BY NextCommit DEF RecordLanding, Doing
<1>2. /\ truth' = IF refused THEN truth ELSE [truth EXCEPT ![active] = Head(todo).by]
      /\ todo' = Tail(todo)
      /\ UNCHANGED <<today, flights, active, rows, alerts, crashes, rebuilds,
                     reused, torn, inbounds, shifted, wiped>>
  BY <1>1 DEF RecordLanding, Done, memory, history
<1>3. WorkFits' /\ ~Doing("retract")' /\ todo' \in Seq(OpRecord)
  BY <1>1, <1>2, AfterCommit DEF Done, memory
<1>4. Typed'
  <2>1. Head(todo).by \in Detected
    BY <1>1 DEF Detected
  <2> QED  BY <1>1, <1>2, <1>3, <2>1 DEF Typed
<1>5. FlightsAgree'
  BY <1>2, AgreementKept
<1>6. Undisturbed' = Undisturbed /\ Undisturbed \subseteq Days
  BY <1>2 DEF Undisturbed, Days
<1>7. \A d \in Days : ~Retracting(d)
  BY <1>1 DEF Retracting, Doing
<1>8. /\ \A d \in Days : d # active => truth'[d] = truth[d]
      /\ truth'[active] \in {truth[active], Head(todo).by}
  BY <1>1, <1>2 DEF Typed
<1>9. ~InAir(flights[active]) /\ flights[active].expired = "no" /\ Down # DownByTimeout
  BY <1>1, LifeFacts
<1>10. AirIsClean'
  <2> SUFFICES ASSUME NEW d \in Undisturbed
               PROVE  /\ InAir(flights[d]) \/ flights[d].expired # "no" => RetractsNothing(d)'
                      /\ ~Retracting(d)'
    BY <1>2, <1>6 DEF AirIsClean
  <2> QED  BY <1>2, <1>3, <1>6, <1>7, <1>8, <1>9
           DEF AirIsClean, Retracting, RetractingLanding, RetractsNothing
<1>11. TruthFits'
  <2> SUFFICES ASSUME NEW d \in Undisturbed
               PROVE  /\ flights[d] = Down => truth'[d] \in {"telemetry", "none"}
                      /\ flights[d] = DownByTimeout => truth'[d] \in {"timeout", "none"}
    BY <1>2, <1>6 DEF TruthFits
  <2> QED  BY <1>1, <1>6, <1>7, <1>8, <1>9 DEF TruthFits
<1>12. InboundTold'
  <2>1. Announcing'
    <3>1. todo' = <<Do("notify", active)>>
      BY <1>1, <1>2
    <3>2. Do("notify", active).op = "notify"
      BY <1>1, DoFacts DEF Ops
    <3> QED  BY <3>1, <3>2 DEF Announcing, Free
  <2> QED  BY <2>1 DEF InboundTold
<1>13. InboundOnce'
  BY <1>2 DEF InboundOnce, Tracked
<1> QED  BY <1>3, <1>4, <1>5, <1>10, <1>11, <1>12, <1>13

LEMMA NotifyKeeps ==
  ASSUME IInv, NEW inside \in BOOLEAN, NotifyLanded(inside)
  PROVE  IInv'
<1> USE DEF IInv
<1>1. /\ ~Free /\ Head(todo).op = "notify" /\ Tracked /\ active \in Days /\ Key = active
      /\ flights[active] \in {Down, DownByTimeout}
  BY NextCommit DEF NotifyLanded, Doing
<1>2. /\ alerts' = IF inside \/ "INBOUND" \in alerts[active]
                   THEN [alerts EXCEPT ![active] = @ \cup {"LANDED"}] ELSE alerts
      /\ todo' = Tail(todo)
      /\ UNCHANGED <<today, flights, active, rows, truth, crashes, rebuilds,
                     reused, torn, inbounds, shifted, wiped>>
  BY <1>1 DEF NotifyLanded, Concerned, Done, memory, history
<1>3. WorkFits' /\ ~Doing("retract")' /\ todo' \in Seq(OpRecord)
  BY <1>1, <1>2, AfterCommit DEF Done, memory
<1>4. Typed'
  BY <1>1, <1>2, <1>3 DEF Typed
<1>5. FlightsAgree'
  BY <1>2, AgreementKept
<1>6. Undisturbed' = Undisturbed /\ Undisturbed \subseteq Days
  BY <1>2 DEF Undisturbed, Days
<1>7. \A d \in Days : ~Retracting(d)
  BY <1>1 DEF Retracting, Doing
<1>8. /\ \A d \in Days : d # active => alerts'[d] = alerts[d]
      /\ \A d \in Days : "INBOUND" \in alerts'[d] <=> "INBOUND" \in alerts[d]
      /\ "INBOUND" \in alerts[active] => "LANDED" \in alerts'[active]
  BY <1>1, <1>2 DEF Typed
<1>9. ~InAir(flights[active]) /\ flights[active].expired = "no"
  BY <1>1, LifeFacts
<1>10. AirIsClean'
  <2> SUFFICES ASSUME NEW d \in Undisturbed
               PROVE  /\ InAir(flights[d]) \/ flights[d].expired # "no" => RetractsNothing(d)'
                      /\ ~Retracting(d)'
    BY <1>2, <1>6 DEF AirIsClean
  <2> QED  BY <1>2, <1>3, <1>6, <1>7, <1>8, <1>9
           DEF AirIsClean, Retracting, RetractingLanding, RetractsNothing
<1>11. TruthFits'
  <2> SUFFICES ASSUME NEW d \in Undisturbed
               PROVE  /\ flights[d] = Down => truth[d] \in {"telemetry", "none"}
                      /\ flights[d] = DownByTimeout => truth[d] \in {"timeout", "none"}
    BY <1>2, <1>6 DEF TruthFits
  <2> QED  BY <1>6, <1>7 DEF TruthFits
<1>12. InboundTold'
  BY <1>2, <1>8 DEF InboundTold
<1>13. InboundOnce'
  BY <1>1, <1>2, <1>8 DEF InboundOnce, Tracked
<1> QED  BY <1>3, <1>4, <1>5, <1>10, <1>11, <1>12, <1>13

LEMMA InboundKeeps ==
  ASSUME IInv, NEW matches \in BOOLEAN, NotifyInbound(matches)
  PROVE  IInv'
<1> USE DEF IInv
<1>1. /\ ~Free /\ Head(todo).op = "inbound" /\ Tracked /\ active \in Days /\ Key = active
      /\ flights[active] = Airborne("DESCENT")
  BY NextCommit DEF NotifyInbound, Doing
<1>2. /\ IF matches /\ "INBOUND" \notin alerts[active]
         THEN /\ alerts' = [alerts EXCEPT ![active] = @ \cup {"INBOUND"}]
              /\ inbounds' = Min2(inbounds + 1)
         ELSE UNCHANGED <<alerts, inbounds>>
      /\ todo' = Tail(todo)
      /\ UNCHANGED <<today, flights, active, rows, truth, crashes, rebuilds,
                     reused, torn, shifted, wiped>>
  BY <1>1 DEF NotifyInbound, Done, memory
<1>3. WorkFits' /\ ~Doing("retract")' /\ todo' \in Seq(OpRecord)
  BY <1>1, <1>2, AfterCommit DEF Done, memory
<1>4. inbounds \in 0..2 /\ inbounds' \in 0..2
  <2>1. inbounds \in 0..2
    BY DEF Typed
  <2>2. Min2(inbounds + 1) \in 0..2
    BY <2>1 DEF Min2
  <2> QED  BY <1>2, <2>1, <2>2
<1>5. /\ alerts' \in [Days -> SUBSET {"INBOUND", "LANDED"}]
      /\ \A d \in Days : d # active => alerts'[d] = alerts[d]
      /\ \A d \in Days : "LANDED" \in alerts'[d] <=> "LANDED" \in alerts[d]
  BY <1>1, <1>2 DEF Typed
<1>6. Typed'
  BY <1>1, <1>2, <1>3, <1>4, <1>5 DEF Typed
<1>7. FlightsAgree'
  BY <1>2, AgreementKept
<1>8. Undisturbed' = Undisturbed /\ Undisturbed \subseteq Days
  BY <1>2 DEF Undisturbed, Days
<1>9. \A d \in Days : ~Retracting(d)
  BY <1>1 DEF Retracting, Doing
<1>10. AirIsClean'
  <2> SUFFICES ASSUME NEW d \in Undisturbed
               PROVE  /\ InAir(flights[d]) \/ flights[d].expired # "no" => RetractsNothing(d)'
                      /\ ~Retracting(d)'
    BY <1>2, <1>8 DEF AirIsClean
  <2> QED  BY <1>2, <1>3, <1>5, <1>8, <1>9
           DEF AirIsClean, Retracting, RetractingLanding, RetractsNothing
<1>11. TruthFits'
  <2> SUFFICES ASSUME NEW d \in Undisturbed
               PROVE  /\ flights[d] = Down => truth[d] \in {"telemetry", "none"}
                      /\ flights[d] = DownByTimeout => truth[d] \in {"timeout", "none"}
    BY <1>2, <1>8 DEF TruthFits
  <2> QED  BY <1>8, <1>9 DEF TruthFits
<1>12. InboundTold'
  <2>1. flights[active] \notin {Down, DownByTimeout}
    BY <1>1, LifeFacts
  <2> QED  BY <1>2, <2>1 DEF InboundTold
<1>13. InboundOnce'
  <2>1. CASE matches /\ "INBOUND" \notin alerts[active]
    <3>1. inbounds' = Min2(inbounds + 1) /\ "INBOUND" \in alerts'[active]
      BY <1>1, <1>2, <2>1 DEF Typed
    <3>2. shifted \/ wiped \/ inbounds = 0
      BY <1>1, <1>4, <2>1 DEF InboundOnce
    <3>3. inbounds = 0 => Min2(inbounds + 1) = 1
      BY DEF Min2
    <3> QED  BY <1>2, <3>1, <3>2, <3>3 DEF InboundOnce
  <2>2. CASE ~(matches /\ "INBOUND" \notin alerts[active])
    BY <1>2, <2>2 DEF InboundOnce, Tracked
  <2> QED  BY <2>1, <2>2
<1> QED  BY <1>3, <1>6, <1>7, <1>10, <1>11, <1>12, <1>13

LEMMA RefineKeeps ==
  ASSUME IInv, NEW better \in BOOLEAN, Refine(better)
  PROVE  IInv'
<1> USE DEF IInv
<1>1. /\ ~Free /\ Head(todo).op = "refine" /\ Tracked /\ active \in Days /\ Key = active
      /\ flights[active] = DownByTimeout /\ Tail(todo) = <<>>
  BY NextCommit DEF Refine, Doing
<1>2. /\ UNCHANGED <<today, flights, active, rows, truth, alerts, crashes, rebuilds,
                     reused, torn, inbounds, shifted, wiped>>
      /\ todo' \in {<<>>, <<Do("rerecord", active)>> \o <<>>}
  BY <1>1 DEF Refine, memory, store, history
<1>3. todo' \in {<<>>, <<Do("rerecord", active)>>}
  BY <1>2
<1>4. Do("rerecord", active) \in OpRecord /\ Do("rerecord", active).op = "rerecord"
  BY <1>1, DoFacts DEF Ops
<1>5. todo' \in Seq(OpRecord)
  <2>1. <<Do("rerecord", active)>> \in Seq(OpRecord)
    BY <1>4
  <2>2. <<>> \in Seq(OpRecord)
    OBVIOUS
  <2> QED  BY <1>3, <2>1, <2>2
<1>6. ~Doing("retract")'
  BY <1>3, <1>4 DEF Doing, Free
<1>7. WorkFits'
  <2>1. todo' \in Rest(active, flights[active])
    BY <1>1, <1>3 DEF Rest
  <2>2. IsWork(active, flights[active])'
    BY <1>2, <2>1 DEF IsWork
  <2> QED  BY <1>1, <1>2, <2>2 DEF WorkFits, Tracked
<1>8. Typed'
  BY <1>2, <1>5 DEF Typed
<1>9. FlightsAgree'
  BY <1>2, AgreementKept
<1>10. ~Doing("retract") /\ ~Announcing
  BY <1>1 DEF Doing, Announcing
<1>11. AirIsClean'
  BY <1>2, <1>6, <1>10
     DEF AirIsClean, Retracting, RetractingLanding, RetractsNothing, Undisturbed
<1>12. TruthFits'
  BY <1>2, <1>6, <1>10 DEF TruthFits, Retracting, Undisturbed
<1>13. InboundTold'
  BY <1>2, <1>10 DEF InboundTold, Undisturbed
<1>14. InboundOnce'
  BY <1>2 DEF InboundOnce, Tracked
<1> QED  BY <1>7, <1>8, <1>9, <1>11, <1>12, <1>13, <1>14

LEMMA RerecordKeeps ==
  ASSUME IInv, Rerecord
  PROVE  IInv'
<1> USE DEF IInv
<1>1. /\ ~Free /\ Head(todo).op = "rerecord" /\ Tracked /\ active \in Days /\ Key = active
      /\ flights[active] = DownByTimeout
  BY NextCommit DEF Rerecord, Doing
<1>2. /\ truth' = [truth EXCEPT ![active] = "timeout"]
      /\ todo' = Tail(todo)
      /\ UNCHANGED <<today, flights, active, rows, alerts, crashes, rebuilds,
                     reused, torn, inbounds, shifted, wiped>>
  BY <1>1 DEF Rerecord, Done, memory, history
<1>3. WorkFits' /\ ~Doing("retract")' /\ todo' \in Seq(OpRecord)
  BY <1>1, <1>2, AfterCommit DEF Done, memory
<1>4. Typed'
  <2>1. "timeout" \in Detected
    BY DEF Detected
  <2> QED  BY <1>1, <1>2, <1>3, <2>1 DEF Typed
<1>5. FlightsAgree'
  BY <1>2, AgreementKept
<1>6. Undisturbed' = Undisturbed /\ Undisturbed \subseteq Days
  BY <1>2 DEF Undisturbed, Days
<1>7. ~Doing("retract") /\ ~Announcing
  BY <1>1 DEF Doing, Announcing
<1>8. /\ \A d \in Days : d # active => truth'[d] = truth[d]
      /\ truth'[active] = "timeout"
  BY <1>1, <1>2 DEF Typed
<1>9. ~InAir(flights[active]) /\ flights[active].expired = "no" /\ flights[active] # Down
  BY <1>1, LifeFacts
<1>10. AirIsClean'
  <2> SUFFICES ASSUME NEW d \in Undisturbed
               PROVE  /\ InAir(flights[d]) \/ flights[d].expired # "no" => RetractsNothing(d)'
                      /\ ~Retracting(d)'
    BY <1>2, <1>6 DEF AirIsClean
  <2> QED  BY <1>2, <1>3, <1>6, <1>7, <1>8, <1>9
           DEF AirIsClean, Retracting, RetractingLanding, RetractsNothing
<1>11. TruthFits'
  <2> SUFFICES ASSUME NEW d \in Undisturbed
               PROVE  /\ flights[d] = Down => truth'[d] \in {"telemetry", "none"}
                      /\ flights[d] = DownByTimeout => truth'[d] \in {"timeout", "none"}
    BY <1>2, <1>6 DEF TruthFits
  <2> QED  BY <1>6, <1>7, <1>8, <1>9 DEF TruthFits, Retracting
<1>12. InboundTold'
  BY <1>2, <1>7 DEF InboundTold, Undisturbed
<1>13. InboundOnce'
  BY <1>2 DEF InboundOnce, Tracked
<1> QED  BY <1>3, <1>4, <1>5, <1>10, <1>11, <1>12, <1>13

-----------------------------------------------------------------------------
(* So does what may come between two commits.                              *)

LEMMA ClearAlertsKeeps ==
  ASSUME IInv, ClearAlerts
  PROVE  IInv'
<1> USE DEF IInv
<1>1. /\ alerts' = [d \in Days |-> IF rows[d] \in InAirStates THEN alerts[d] ELSE {}]
      /\ wiped' = (wiped \/ \E d \in Days : alerts'[d] # alerts[d])
      /\ UNCHANGED <<today, flights, active, rows, truth, todo, crashes, rebuilds, reused,
                     torn, inbounds, shifted>>
  BY DEF ClearAlerts, memory
<1>2. alerts' \in [Days -> SUBSET {"INBOUND", "LANDED"}]
  BY <1>1 DEF Typed
<1>3. Typed'
  BY <1>1, <1>2 DEF Typed
<1>4. FlightsAgree'
  BY <1>1, AgreementKept
<1>5. WorkFits'
  BY <1>1 DEF WorkFits, IsWork, Tracked, Free
<1>6. Undisturbed' = Undisturbed /\ Undisturbed \subseteq Days
  BY <1>1 DEF Undisturbed
<1>7. \A d \in Days : alerts'[d] \subseteq alerts[d]
  BY <1>1
<1>8. AirIsClean'
  BY <1>1, <1>6, <1>7
     DEF AirIsClean, Retracting, RetractingLanding, RetractsNothing, Doing, Free, Key
<1>9. TruthFits'
  BY <1>1, <1>6 DEF TruthFits, Retracting, Doing, Free, Key
<1>10. InboundTold'
  <2> SUFFICES ASSUME NEW d \in Undisturbed, d = active, flights[d] \in {Down, DownByTimeout}
               PROVE  "INBOUND" \notin alerts'[d]
    BY <1>1, <1>6 DEF InboundTold
  <2>1. ~InAir(flights[d])
    BY LifeFacts
  <2>2. rows[d] \notin InAirStates
    BY <1>6, <2>1 DEF FlightsAgree, RowsMatchFlights
  <2> QED  BY <1>1, <1>6, <2>2
<1>11. InboundOnce'
  <2>1. ASSUME ~wiped', Tracked PROVE alerts'[active] = alerts[active]
    BY <1>1, <2>1 DEF Tracked, Typed, NoDay, Days
  <2>2. wiped => wiped'
    BY <1>1
  <2> QED  BY <1>1, <2>1, <2>2 DEF InboundOnce, Tracked
<1> QED  BY <1>3, <1>4, <1>5, <1>8, <1>9, <1>10, <1>11

LEMMA ClearAccuracyKeeps ==
  ASSUME IInv, ClearAccuracy
  PROVE  IInv'
<1> USE DEF IInv
<1>1. /\ truth' = [d \in Days |-> "none"]
      /\ UNCHANGED <<today, flights, active, rows, alerts, todo, crashes, rebuilds, reused,
                     torn, inbounds, shifted, wiped>>
  BY DEF ClearAccuracy, memory, history
<1>2. Typed'
  BY <1>1 DEF Typed
<1>3. FlightsAgree'
  BY <1>1, AgreementKept
<1>4. WorkFits'
  BY <1>1 DEF WorkFits, IsWork, Tracked, Free
<1>5. Undisturbed' = Undisturbed /\ Undisturbed \subseteq Days
  BY <1>1 DEF Undisturbed
<1>6. AirIsClean'
  BY <1>1, <1>5 DEF AirIsClean, Retracting, RetractingLanding, RetractsNothing, Doing, Free, Key
<1>7. TruthFits'
  BY <1>1, <1>5 DEF TruthFits
<1>8. InboundTold'
  BY <1>1, <1>5 DEF InboundTold, Announcing, Free
<1>9. InboundOnce'
  BY <1>1 DEF InboundOnce, Tracked
<1> QED  BY <1>2, <1>3, <1>4, <1>6, <1>7, <1>8, <1>9

(* A step that changes nothing but the date.                               *)
LEMMA StandingStill ==
  ASSUME IInv, today' \in Days,
         UNCHANGED <<memory, store, todo, crashes, rebuilds, history>>
  PROVE  IInv'
<1> USE DEF IInv
<1>1. UNCHANGED <<flights, active, rows, truth, alerts, todo, crashes, rebuilds, reused,
                  torn, inbounds, shifted, wiped>>
  BY DEF memory, store, history
<1>2. Typed'
  BY <1>1 DEF Typed
<1>3. FlightsAgree'
  BY <1>1, AgreementKept
<1>4. WorkFits'
  BY <1>1 DEF WorkFits, IsWork, Tracked, Free
<1>5. AirIsClean'
  BY <1>1
     DEF AirIsClean, Retracting, RetractingLanding, RetractsNothing, Doing, Free, Key, Undisturbed
<1>6. TruthFits'
  BY <1>1 DEF TruthFits, Retracting, Doing, Free, Key, Undisturbed
<1>7. InboundTold'
  BY <1>1 DEF InboundTold, Announcing, Free, Undisturbed
<1>8. InboundOnce'
  BY <1>1 DEF InboundOnce, Tracked
<1> QED  BY <1>2, <1>3, <1>4, <1>5, <1>6, <1>7, <1>8

LEMMA MidnightKeeps ==
  ASSUME IInv, Midnight
  PROVE  IInv'
<1>1. today \in 1..LastDay /\ LastDay \in Nat
  BY TallyHoAssumption DEF IInv, Typed, Days
<1>2. today' \in Days
  BY <1>1 DEF Midnight, Days
<1> QED  BY <1>2, StandingStill DEF Midnight

(* What comes back after a crash are the flights that were in the air, and *)
(* the calls it cut short count as such.                                   *)
LEMMA CrashKeeps ==
  ASSUME IInv, Crash
  PROVE  IInv'
<1> USE DEF IInv
<1>1. /\ flights' = [d \in Days |-> IF rows[d] \in InAirStates THEN Airborne(rows[d])
                                                               ELSE Absent]
      /\ active' \in {d \in Days \cup {NoDay} :
           IF d = NoDay THEN \A e \in Days : flights'[e] = Absent ELSE flights'[d] # Absent}
      /\ todo' = <<>>
      /\ torn' = torn \cup {todo[i].day : i \in 1..Len(todo)}
      /\ UNCHANGED <<today, rows, truth, alerts, rebuilds, reused, inbounds, shifted, wiped>>
  BY DEF Crash, store
<1>2. \A d \in Days : flights'[d] = IF InAir(flights[d]) THEN flights[d] ELSE Absent
  <2> SUFFICES ASSUME NEW d \in Days
               PROVE  flights'[d] = IF InAir(flights[d]) THEN flights[d] ELSE Absent
    OBVIOUS
  <2>1. flights[d] \in Lives
    BY DEF Typed
  <2>2. \/ InAir(flights[d]) /\ rows[d] = flights[d].state
        \/ ~InAir(flights[d]) /\ rows[d] \notin InAirStates
    BY DEF FlightsAgree, RowsMatchFlights
  <2>3. InAir(flights[d]) => flights[d].state \in InAirStates
                             /\ flights[d] = Airborne(flights[d].state)
    BY <2>1, LifeFacts DEF InAir
  <2> QED  BY <1>1, <2>2, <2>3
<1>3. ~InAir(Absent) /\ Absent.expired = "no" /\ Absent \in Lives
      /\ Absent \notin {Down, DownByTimeout}
  BY LifeFacts
<1>4. \A d \in Days : InAir(flights'[d]) => flights'[d] = flights[d] /\ InAir(flights[d])
  BY <1>2, <1>3
<1>5. \A d \in Days : flights'[d] # Absent => InAir(flights'[d])
  BY <1>2
<1>6. active' \in Days \cup {NoDay} /\ flights' \in [Days -> Lives]
  <2>1. \A d \in Days : flights'[d] \in Lives
    BY <1>2, <1>3 DEF Typed
  <2>2. flights' = [d \in Days |-> flights'[d]]
    BY <1>1
  <2> QED  BY <1>1, <2>1, <2>2
<1>7. /\ Tracked' => active' \in Days /\ flights'[active'] # Absent /\ active' = active
      /\ \A d \in Days : InAir(flights'[d]) => active' = d
  <2>1. \A d \in Days : InAir(flights[d]) => active = d
    BY DEF FlightsAgree, ActiveIsTracked
  <2>2. Tracked' => active' \in Days /\ flights'[active'] # Absent
    BY <1>1 DEF Tracked, NoDay, Days
  <2>3. ~Tracked' => \A d \in Days : flights'[d] = Absent
    BY <1>1 DEF Tracked
  <2> QED  BY <1>3, <1>4, <1>5, <2>1, <2>2, <2>3
<1>8. Typed'
  <2>1. crashes' \in 0..MaxCrashes
    BY TallyHoAssumption DEF Typed, Crash
  <2>2. torn' \subseteq Days
    <3>1. \A i \in 1..Len(todo) : todo[i] \in OpRecord
      BY DEF Typed
    <3>2. \A r \in OpRecord : r.day \in Days
      BY DEF OpRecord
    <3> QED  BY <1>1, <3>1, <3>2 DEF Typed
  <2>3. todo' \in Seq(OpRecord)
    BY <1>1
  <2> QED  BY <1>1, <1>6, <2>1, <2>2, <2>3 DEF Typed
<1>9. FlightsAgree'
  <2>1. ActiveIsTracked'
    BY <1>7 DEF ActiveIsTracked
  <2>2. RowsMatchFlights'
    BY <1>1, <1>2, <1>3 DEF FlightsAgree, RowsMatchFlights
  <2> QED  BY <2>1, <2>2 DEF FlightsAgree
<1>10. WorkFits'
  BY <1>1 DEF WorkFits, Free
<1>11. Undisturbed' \subseteq Undisturbed /\ Undisturbed \subseteq Days
  BY <1>1 DEF Undisturbed
<1>12. \A d \in Undisturbed' : ~Retracting(d)
  <2> SUFFICES ASSUME NEW d \in Undisturbed', Retracting(d)
               PROVE  FALSE
    OBVIOUS
  <2>1. todo # <<>> /\ Head(todo).day = d /\ todo \in Seq(OpRecord)
    BY DEF Retracting, Doing, Free, Key, Typed
  <2>2. 1 \in 1..Len(todo) /\ Head(todo) = todo[1]
    BY <2>1
  <2>3. d \in torn'
    BY <1>1, <2>1, <2>2
  <2> QED  BY <2>3 DEF Undisturbed
<1>13. AirIsClean'
  <2> SUFFICES ASSUME NEW d \in Undisturbed'
               PROVE  /\ InAir(flights'[d]) \/ flights'[d].expired # "no" => RetractsNothing(d)'
                      /\ ~Retracting(d)'
    BY DEF AirIsClean
  <2>1. d \in Undisturbed /\ d \in Days
    BY <1>11
  <2>2. ~Retracting(d)'
    BY <1>1 DEF Retracting, Doing, Free
  <2>3. flights'[d].expired # "no" => InAir(flights'[d])
    BY <1>3, <1>5, <2>1
  <2>4. InAir(flights[d]) => RetractsNothing(d)
    BY <1>12, <2>1 DEF AirIsClean, RetractingLanding
  <2> QED  BY <1>1, <1>4, <2>1, <2>2, <2>3, <2>4 DEF RetractsNothing
<1>14. \A d \in Days : flights'[d] \notin {Down, DownByTimeout}
  <2>1. \A l \in Lives : InAir(l) => l \notin {Down, DownByTimeout}
    BY LifeFacts
  <2> QED  BY <1>2, <1>3, <2>1 DEF Typed
<1>15. TruthFits' /\ InboundTold'
  BY <1>11, <1>14 DEF TruthFits, InboundTold
<1>16. InboundOnce'
  BY <1>1, <1>7 DEF InboundOnce, Tracked
<1> QED  BY <1>8, <1>9, <1>10, <1>13, <1>15, <1>16

-----------------------------------------------------------------------------
(* What a frame or a sweep does to the flight, and what is then to do.     *)

(* The commits that follow a frame's own, but for a retraction.            *)
LEMMA FollowUp ==
  ASSUME NEW d \in Days, NEW l, NEW o,
         \/ o.life \in Lives /\ "LANDED" \notin o.events
         \/ o.life = Down /\ "LANDED" \in o.events
  PROVE  \E w \in Rest(d, o.life) :
           /\ FrameWork(d, l, o) = Retraction(d, l, o.events) \o w
           /\ o.life = Down /\ "LANDED" \in o.events => w # <<>>
<1> DEFINE r == Retraction(d, l, o.events)
<1>1. CASE o.life = Down /\ "LANDED" \in o.events
  <2>1. ~Refines(o.life) /\ o.life # Airborne("DESCENT")
    BY <1>1, LifeFacts DEF Refines, Down
  <2> HIDE DEF r
  <2>2. FrameWork(d, l, o) = r \o LandingWork(d, "telemetry")
    BY <1>1, <2>1 DEF FrameWork, r
  <2>3. LandingWork(d, "telemetry") # <<>>
    BY DEF LandingWork
  <2>4. LandingWork(d, "telemetry") \in Rest(d, o.life)
    BY <1>1 DEF Rest
  <2> QED  BY <2>2, <2>3, <2>4 DEF r
<1>2. CASE o.life \in Lives /\ "LANDED" \notin o.events /\ Refines(o.life)
  <2>1. o.life = DownByTimeout /\ o.life # Airborne("DESCENT")
    BY <1>2, LifeFacts DEF Refines
  <2> HIDE DEF r
  <2>2. FrameWork(d, l, o) = r \o <<Do("refine", d)>>
    BY <1>2, <2>1 DEF FrameWork, r
  <2>3. <<Do("refine", d)>> \in Rest(d, o.life)
    BY <2>1 DEF Rest
  <2> QED  BY <1>2, <2>2, <2>3 DEF r
<1>3. CASE /\ o.life \in Lives /\ "LANDED" \notin o.events /\ ~Refines(o.life)
           /\ o.life = Airborne("DESCENT")
  <2> HIDE DEF r
  <2>1. FrameWork(d, l, o) = r \o <<Do("inbound", d)>>
    BY <1>3 DEF FrameWork, r
  <2>2. <<Do("inbound", d)>> \in Rest(d, o.life)
    BY <1>3 DEF Rest
  <2> QED  BY <1>3, <2>1, <2>2 DEF r
<1>4. CASE /\ o.life \in Lives /\ "LANDED" \notin o.events /\ ~Refines(o.life)
           /\ o.life # Airborne("DESCENT")
  <2> HIDE DEF r
  <2>1. FrameWork(d, l, o) = r \o <<>>
    BY <1>4 DEF FrameWork, r
  <2>2. <<>> \in Rest(d, o.life)
    BY DEF Rest
  <2> QED  BY <1>4, <2>1, <2>2 DEF r
<1> QED  BY <1>1, <1>2, <1>3, <1>4

LEMMA FrameOutcomes ==
  ASSUME NEW d \in Days, NEW l \in Lives, NEW o \in Heard(l)
  PROVE  LET w == FrameWork(d, l, o)
         IN \/ /\ "NEW_FLIGHT" \in o.events /\ l \in {Absent, Down, DownByTimeout}
               /\ o.life = Airborne("ASCENT") /\ w = <<>>
            \/ /\ "NEW_FLIGHT" \notin o.events /\ InAir(l) /\ w \in Rest(d, o.life)
               /\ \/ o.life \in {Airborne(s) : s \in InAirStates}
                  \/ o.life = Down /\ w # <<>>
            \/ /\ "NEW_FLIGHT" \notin o.events /\ ~InAir(l) /\ l # Absent
               /\ o.life = l /\ w \in Rest(d, l)
            \/ /\ "NEW_FLIGHT" \notin o.events /\ (l = DownByTimeout \/ l.expired # "no")
               /\ \E v \in Rest(d, o.life) :
                    /\ w = Resuming(d, CloseOut(l), v)
                    /\ \/ o.life \in {Airborne(s) : s \in InAirStates}
                       \/ o.life = Down /\ v # <<>>
<1>1. \A s \in InAirStates : Airborne(s) \in Lives
  BY LifeFacts
<1> DEFINE w == FrameWork(d, l, o)
<1> HIDE DEF w
<1>2. ASSUME "RESUMED" \notin o.events,
             \/ o.life \in Lives /\ "LANDED" \notin o.events
             \/ o.life = Down /\ "LANDED" \in o.events
      PROVE  w \in Rest(d, o.life) /\ (o.life = Down /\ "LANDED" \in o.events => w # <<>>)
  <2>1. PICK v \in Rest(d, o.life) :
           /\ w = Retraction(d, l, o.events) \o v
           /\ o.life = Down /\ "LANDED" \in o.events => v # <<>>
    BY <1>2, FollowUp DEF w
  <2>2. Retraction(d, l, o.events) = <<>>
    BY <1>2 DEF Retraction
  <2>3. v \in Seq(OpRecord)
    <3>1. o.life \in Lives
      BY <1>2, LifeFacts
    <3> QED  BY <3>1, RestFacts
  <2>4. w = <<>> \o v
    BY <2>1, <2>2
  <2>5. w = v
    BY <2>3, <2>4
  <2> QED  BY <2>1, <2>5
<1>3. ASSUME "RESUMED" \in o.events,
             \/ o.life \in Lives /\ "LANDED" \notin o.events
             \/ o.life = Down /\ "LANDED" \in o.events
      PROVE  \E v \in Rest(d, o.life) :
               /\ w = Resuming(d, CloseOut(l), v)
               /\ o.life = Down /\ "LANDED" \in o.events => v # <<>>
  <2>1. PICK v \in Rest(d, o.life) :
           /\ w = Retraction(d, l, o.events) \o v
           /\ o.life = Down /\ "LANDED" \in o.events => v # <<>>
    BY <1>3, FollowUp DEF w
  <2>2. Retraction(d, l, o.events) = <<Op("retract", d, CloseOut(l), "none")>>
    BY <1>3 DEF Retraction
  <2> QED  BY <2>1, <2>2 DEF Resuming
<1>4. CASE o = Launched /\ l \in {Absent, Down, DownByTimeout}
  <2>1. o.life = Airborne("ASCENT") /\ o.events = {"NEW_FLIGHT"}
    BY <1>4 DEF Launched, To
  <2>2. ~Refines(o.life) /\ o.life # Airborne("DESCENT")
    BY <2>1 DEF Refines, Airborne
  <2>3. Retraction(d, l, o.events) = <<>>
    BY <2>1 DEF Retraction
  <2>4. FrameWork(d, l, o) = Retraction(d, l, o.events) \o <<>>
    BY <2>1, <2>2 DEF FrameWork
  <2>5. w = <<>>
    BY <2>3, <2>4 DEF w
  <2> QED  BY <1>4, <2>1, <2>5 DEF w
<1>5. CASE /\ InAir(l) /\ "NEW_FLIGHT" \notin o.events /\ "RESUMED" \notin o.events
           /\ \/ o.life \in {Airborne(r) : r \in InAirStates} /\ "LANDED" \notin o.events
              \/ o.life = Down /\ "LANDED" \in o.events
  <2>1. w \in Rest(d, o.life) /\ (o.life = Down /\ "LANDED" \in o.events => w # <<>>)
    BY <1>1, <1>2, <1>5
  <2> QED  BY <1>5, <2>1 DEF w
<1>6. CASE o = To(l, {}) /\ ~InAir(l) /\ l # Absent
  <2>1. o.life = l /\ o.events = {}
    BY <1>6 DEF To
  <2>2. w \in Rest(d, o.life)
    BY <1>2, <2>1
  <2> QED  BY <1>6, <2>1, <2>2 DEF w
<1>7. CASE /\ l = DownByTimeout \/ l.expired # "no"
           /\ "NEW_FLIGHT" \notin o.events /\ "RESUMED" \in o.events
           /\ \/ o.life \in {Airborne(r) : r \in InAirStates} /\ "LANDED" \notin o.events
              \/ o.life = Down /\ "LANDED" \in o.events
  <2>1. \E v \in Rest(d, o.life) :
          /\ w = Resuming(d, CloseOut(l), v)
          /\ o.life = Down /\ "LANDED" \in o.events => v # <<>>
    BY <1>1, <1>3, <1>7
  <2> QED  BY <1>7, <2>1 DEF w
<1> QED  BY <1>4, <1>5, <1>6, <1>7, HeardFacts

-----------------------------------------------------------------------------
(* The calls keep the invariant.                                           *)

(* The life of the active flight, where there is one.                      *)
LEMMA PresentLives ==
  ASSUME IInv
  PROVE  /\ Present \in Lives
         /\ InAir(Present) => Tracked /\ active \in Days /\ Present = flights[active]
         /\ Present # Absent => Tracked /\ active \in Days /\ Present = flights[active]
         /\ \A d \in Days : InAir(flights[d]) => d = active /\ Present = flights[d]
<1>1. Tracked => active \in Days /\ Present = flights[active]
  BY DEF IInv, Typed, Tracked, NoDay, Days, Present
<1>2. ~Tracked => Present = Absent
  BY DEF Present
<1>3. Absent \in Lives /\ ~InAir(Absent)
  BY LifeFacts
<1>4. \A d \in Days : InAir(flights[d]) => d = active
  BY DEF IInv, FlightsAgree, ActiveIsTracked
<1>5. \A d \in Days : d = active => Tracked
  BY DEF Tracked, NoDay, Days
<1> QED  BY <1>1, <1>2, <1>3, <1>4, <1>5 DEF IInv, Typed

(* Between calls nothing is left of a landing, but for one that is down.   *)
LEMMA FreeFacts ==
  ASSUME IInv, Free
  PROVE  /\ ~Announcing /\ \A d \in Days : ~Retracting(d)
         /\ \A d \in Undisturbed : InAir(flights[d]) \/ flights[d].expired # "no"
                                     => RetractsNothing(d)
<1>1. ~Announcing /\ \A d \in Days : ~Retracting(d)
  BY DEF Announcing, Retracting, Doing
<1>2. Undisturbed \subseteq Days
  BY DEF Undisturbed
<1> QED  BY <1>1, <1>2 DEF IInv, AirIsClean, RetractingLanding

(* A frame that launches a flight: the key of its day is new, or was       *)
(* another's.                                                              *)
LEMMA LaunchKeeps ==
  ASSUME IInv, NEW o \in Heard(Present), Frame(o), "NEW_FLIGHT" \in o.events
  PROVE  IInv'
<1> USE DEF IInv
<1>1. /\ Free /\ today \in Days
      /\ flights' = [flights EXCEPT ![today] = o.life]
      /\ active' = today
      /\ rows' = [rows EXCEPT ![today] = RowOf(o.life)]
      /\ todo' = FrameWork(today, Present, o)
      /\ reused' = IF Taken(today) THEN reused \cup {today} ELSE reused
      /\ inbounds' = 0 /\ shifted' = FALSE /\ wiped' = FALSE
      /\ UNCHANGED <<today, truth, alerts, crashes, rebuilds, torn>>
  BY DEF Frame, Typed
<1>2. ~InAir(Present) /\ o.life = Airborne("ASCENT") /\ todo' = <<>>
  BY <1>1, FrameOutcomes, PresentLives, LifeFacts
<1>3. /\ o.life \in Lives /\ InAir(o.life) /\ o.life.state = "ASCENT" /\ o.life # Absent
      /\ o.life.expired = "no" /\ o.life \notin {Down, DownByTimeout}
  <2>1. "ASCENT" \in InAirStates
    BY DEF InAirStates
  <2> QED  BY <1>2, <2>1, LifeFacts
<1>4. \A d \in Days : ~InAir(flights[d])
  BY <1>2, PresentLives
<1>5. /\ flights'[today] = o.life /\ rows'[today] = "ASCENT"
      /\ \A d \in Days : d # today => flights'[d] = flights[d] /\ rows'[d] = rows[d]
  BY <1>1, <1>3 DEF Typed, RowOf
<1>6. Typed'
  <2>1. rows' \in [Days -> InAirStates \cup {"LANDED", "none"}]
    BY <1>1, <1>3 DEF Typed, RowOf, InAirStates
  <2>2. todo' \in Seq(OpRecord) /\ inbounds' \in 0..2
    BY <1>1, <1>2
  <2> QED  BY <1>1, <1>3, <2>1, <2>2 DEF Typed
<1>7. FlightsAgree'
  <2>1. ActiveIsTracked'
    BY <1>1, <1>3, <1>4, <1>5 DEF ActiveIsTracked
  <2>2. RowsMatchFlights'
    BY <1>3, <1>4, <1>5 DEF FlightsAgree, RowsMatchFlights, InAir
  <2> QED  BY <2>1, <2>2 DEF FlightsAgree
<1>8. WorkFits'
  BY <1>2 DEF WorkFits, Free
<1>9. /\ Undisturbed' \subseteq Undisturbed /\ Undisturbed \subseteq Days
      /\ today \in Undisturbed' => RetractsNothing(today)
  BY <1>1 DEF Undisturbed, Taken, RetractsNothing
<1>10. AirIsClean'
  <2> SUFFICES ASSUME NEW d \in Undisturbed'
               PROVE  /\ InAir(flights'[d]) \/ flights'[d].expired # "no" => RetractsNothing(d)
                      /\ ~Retracting(d)'
    BY <1>1 DEF AirIsClean, RetractsNothing
  <2>1. ~Retracting(d)'
    BY <1>2 DEF Retracting, Doing, Free
  <2> QED  BY <1>1, <1>5, <1>9, <2>1, FreeFacts
<1>11. TruthFits'
  <2> SUFFICES ASSUME NEW d \in Undisturbed'
               PROVE  /\ flights'[d] = Down => truth[d] \in {"telemetry", "none"}
                      /\ flights'[d] = DownByTimeout => truth[d] \in {"timeout", "none"}
    BY <1>1 DEF TruthFits
  <2>1. d \in Undisturbed /\ d \in Days
    BY <1>9
  <2> QED  BY <1>1, <1>3, <1>5, <2>1, FreeFacts DEF TruthFits
<1>12. InboundTold'
  BY <1>1, <1>3, <1>5 DEF InboundTold
<1>13. InboundOnce'
  BY <1>1 DEF InboundOnce
<1> QED  BY <1>6, <1>7, <1>8, <1>10, <1>11, <1>12, <1>13

(* A frame of the active flight: it flies on, lands, stays, or is resumed, *)
(* which has its landing retracted first.                                  *)
LEMMA FollowKeeps ==
  ASSUME IInv, NEW o \in Heard(Present), Frame(o), "NEW_FLIGHT" \notin o.events
  PROVE  IInv'
<1> USE DEF IInv
<1> DEFINE l == Present
           n == o.life
<1>1. /\ Free
      /\ flights' = [flights EXCEPT ![active] = n]
      /\ active' = active
      /\ rows' = [rows EXCEPT ![active] = RowOf(n)]
      /\ todo' = FrameWork(active, Present, o)
      /\ UNCHANGED <<today, truth, alerts, crashes, rebuilds, reused, torn,
                     inbounds, shifted, wiped>>
  BY DEF Frame, Typed
<1>2. l \in Lives
  BY PresentLives
<1>3. l # Absent
  <2>1. l = Absent => o = Launched
    BY <1>2, HeardFacts, LifeFacts
  <2>2. "NEW_FLIGHT" \in Launched.events
    BY DEF Launched, To
  <2> QED  BY <2>1, <2>2
<1>4. Tracked /\ active \in Days /\ l = flights[active]
  BY <1>3, PresentLives
<1> HIDE DEF l, n
<1>5. \/ /\ InAir(l) /\ todo' \in Rest(active, n)
         /\ \/ n \in {Airborne(s) : s \in InAirStates}
            \/ n = Down /\ todo' # <<>>
      \/ ~InAir(l) /\ l # Absent /\ n = l /\ todo' \in Rest(active, n)
      \/ /\ l = DownByTimeout \/ l.expired # "no"
         /\ \E v \in Rest(active, n) :
              /\ todo' = Resuming(active, CloseOut(l), v)
              /\ \/ n \in {Airborne(s) : s \in InAirStates}
                 \/ n = Down /\ v # <<>>
  BY <1>1, <1>2, <1>4, FrameOutcomes DEF l, n
<1>6. n \in Lives /\ n # Absent
  BY <1>2, <1>3, <1>5, LifeFacts
<1>7. \A d \in Days : InAir(flights[d]) => d = active
  BY PresentLives
<1>8. /\ flights'[active] = n /\ rows'[active] = n.state
      /\ \A d \in Days : d # active => flights'[d] = flights[d] /\ rows'[d] = rows[d]
  BY <1>1, <1>4 DEF Typed, RowOf
<1>9. n.state \in InAirStates \cup {"LANDED"}
  BY <1>6, LifeFacts
<1>10. CloseOut(l) \in CloseOuts
  BY DEF CloseOut, CloseOuts
<1>11. todo' \in Seq(OpRecord)
  BY <1>4, <1>5, <1>6, <1>10, RestFacts, ResumingFacts
<1>12. Typed'
  BY <1>1, <1>6, <1>8, <1>9, <1>11 DEF Typed, RowOf, n
<1>13. FlightsAgree'
  <2>1. ActiveIsTracked'
    BY <1>1, <1>4, <1>6, <1>7, <1>8 DEF ActiveIsTracked
  <2>2. RowsMatchFlights'
    BY <1>4, <1>8, <1>9 DEF FlightsAgree, RowsMatchFlights, InAir
  <2> QED  BY <2>1, <2>2 DEF FlightsAgree
<1>14. WorkFits'
  <2>1. n \in {Airborne(s) : s \in InAirStates} => InAir(n)
    BY LifeFacts
  <2>2. IsWork(active, n)'
    BY <1>1, <1>5, <1>10, <2>1 DEF IsWork
  <2> QED  BY <1>1, <1>4, <1>8, <2>2 DEF WorkFits, Tracked
<1>15. Undisturbed' = Undisturbed /\ Undisturbed \subseteq Days
  BY <1>1 DEF Undisturbed
<1>16. ASSUME Doing("retract")'
       PROVE  /\ Key' = active /\ (l = DownByTimeout \/ l.expired # "no")
              /\ Head(todo').from = CloseOut(l)
  <2>1. \A w \in Rest(active, n) : w # <<>> => Head(w).op # "retract"
    BY <1>4, <1>6, RestFacts
  <2>2. todo' # <<>> /\ Head(todo').op = "retract"
    BY <1>16 DEF Doing, Free
  <2>3. PICK v \in Rest(active, n) : todo' = Resuming(active, CloseOut(l), v)
    BY <1>5, <2>1, <2>2
  <2>4. v \in Seq(OpRecord)
    BY <1>4, <1>6, RestFacts
  <2>5. Head(todo').day = active /\ Head(todo').from = CloseOut(l)
    BY <1>4, <1>10, <2>3, <2>4, ResumingFacts
  <2> QED  BY <1>5, <2>1, <2>2, <2>5 DEF Key
<1>17. AirIsClean'
  <2> SUFFICES ASSUME NEW d \in Undisturbed
               PROVE  /\ InAir(flights'[d]) \/ flights'[d].expired # "no" =>
                           RetractingLanding(d)' \/ RetractsNothing(d)
                      /\ Retracting(d)' => RetractingLanding(d)' \/ RetractsNothing(d)
    BY <1>1, <1>15 DEF AirIsClean, RetractsNothing
  <2>1. CASE d # active
    <3>1. ~Retracting(d)'
      BY <1>16, <2>1 DEF Retracting
    <3> QED  BY <1>1, <1>8, <1>15, <2>1, <3>1, FreeFacts
  <2>2. CASE d = active /\ (InAir(l) \/ l.expired # "no")
    BY <1>1, <1>4, <2>2, FreeFacts
  <2>3. CASE d = active /\ ~InAir(l) /\ l.expired = "no"
    <3>1. Retracting(d)' => RetractingLanding(d)'
      <4> SUFFICES ASSUME Retracting(d)'
                   PROVE  Head(todo').from = "provisional"
        BY DEF RetractingLanding
      <4> QED  BY <1>16, <2>3 DEF CloseOut, Retracting
    <3>2. InAir(n) \/ n.expired # "no" => Retracting(d)'
      <4> SUFFICES ASSUME InAir(n) \/ n.expired # "no"
                   PROVE  Retracting(d)'
        OBVIOUS
      <4>1. PICK v \in Rest(active, n) : todo' = Resuming(active, CloseOut(l), v)
        BY <1>5, <2>3
      <4>2. v \in Seq(OpRecord)
        BY <1>4, <1>6, RestFacts
      <4>3. todo' # <<>> /\ Head(todo').op = "retract" /\ Head(todo').day = active
        BY <1>4, <1>10, <4>1, <4>2, ResumingFacts
      <4> QED  BY <2>3, <4>3 DEF Retracting, Doing, Free, Key
    <3> QED  BY <1>8, <2>3, <3>1, <3>2
  <2> QED  BY <2>1, <2>2, <2>3
<1>18. TruthFits'
  <2> SUFFICES ASSUME NEW d \in Undisturbed
               PROVE  /\ flights'[d] = Down =>
                           Retracting(d)' \/ truth[d] \in {"telemetry", "none"}
                      /\ flights'[d] = DownByTimeout => truth[d] \in {"timeout", "none"}
    BY <1>1, <1>15 DEF TruthFits
  <2>1. CASE d # active \/ n = l
    <3>1. flights'[d] = flights[d] /\ ~Retracting(d)
      BY <1>1, <1>4, <1>8, <1>15, <2>1, FreeFacts
    <3> QED  BY <3>1 DEF TruthFits
  <2>2. CASE d = active /\ InAir(l)
    <3>1. truth[d] = "none"
      BY <1>1, <1>4, <2>2, FreeFacts DEF RetractsNothing
    <3> QED  BY <3>1
  <2>3. CASE d = active /\ ~InAir(l) /\ n # l
    <3>1. PICK v \in Rest(active, n) :
            /\ todo' = Resuming(active, CloseOut(l), v)
            /\ n \in {Airborne(s) : s \in InAirStates} \/ n = Down
      BY <1>5, <2>3
    <3>2. v \in Seq(OpRecord)
      BY <1>4, <1>6, RestFacts
    <3>3. todo' # <<>> /\ Head(todo').op = "retract" /\ Head(todo').day = active
      BY <1>4, <1>10, <3>1, <3>2, ResumingFacts
    <3>4. n # DownByTimeout
      BY <3>1, LifeFacts
    <3> QED  BY <1>8, <2>3, <3>3, <3>4 DEF Retracting, Doing, Free, Key
  <2> QED  BY <2>1, <2>2, <2>3
<1>19. InboundTold'
  <2> SUFFICES ASSUME active \in Undisturbed, n \in {Down, DownByTimeout},
                      "INBOUND" \in alerts[active]
               PROVE  Announcing' \/ "LANDED" \in alerts[active]
    BY <1>1, <1>4, <1>8, <1>15 DEF InboundTold
  <2>1. n \notin {Airborne(s) : s \in InAirStates}
    BY LifeFacts
  <2>2. CASE InAir(l)
    <3>0. l # DownByTimeout /\ l.expired = "no"
      BY <1>2, <2>2, LifeFacts
    <3>1. n = Down /\ todo' # <<>> /\ todo' \in Rest(active, n)
      BY <1>5, <2>1, <2>2, <3>0
    <3>2. n # Airborne("DESCENT") /\ n # DownByTimeout
      BY <3>1, LifeFacts
    <3> QED  BY <1>4, <1>6, <3>1, <3>2, RestFacts DEF Announcing, Free
  <2>3. CASE ~InAir(l) /\ n = l
    BY <1>1, <1>4, <2>3, FreeFacts DEF InboundTold
  <2>4. CASE ~InAir(l) /\ n # l
    <3>1. PICK v \in Rest(active, n) : todo' = Resuming(active, CloseOut(l), v)
      BY <1>5, <2>4
    <3>2. v \in Seq(OpRecord)
      BY <1>4, <1>6, RestFacts
    <3>3. todo' # <<>> /\ Head(todo').op = "retract"
      BY <1>4, <1>10, <3>1, <3>2, ResumingFacts
    <3> QED  BY <3>3 DEF Announcing, Free
  <2> QED  BY <2>2, <2>3, <2>4
<1>20. InboundOnce'
  BY <1>1 DEF InboundOnce, Tracked
<1> QED  BY <1>12, <1>13, <1>14, <1>17, <1>18, <1>19, <1>20

LEMMA FrameKeeps ==
  ASSUME IInv, NEW o \in Heard(Present), Frame(o)
  PROVE  IInv'
BY LaunchKeeps, FollowKeeps

(* The sweep: a flight is given up or lands by timeout, or one that is     *)
(* down is evicted, with the key when it is the active one.                *)
LEMMA SweepKeeps ==
  ASSUME IInv, NEW e \in Days, NEW o \in Swept(flights[e]), Sweep(e, o)
  PROVE  IInv'
<1> USE DEF IInv
<1> DEFINE n == o.life
<1>1. /\ Free
      /\ flights' = [flights EXCEPT ![e] = n]
      /\ active' = IF n = Absent THEN (IF active = e THEN NoDay ELSE active) ELSE active
      /\ rows' = IF n = Absent THEN rows ELSE [rows EXCEPT ![e] = RowOf(n)]
      /\ todo' = SweepWork(e, o.events)
      /\ UNCHANGED <<today, truth, alerts, crashes, rebuilds, reused, torn,
                     inbounds, shifted, wiped>>
  BY DEF Sweep, ActiveAfterEviction, history
<1>2. flights[e] \in Lives
  BY DEF Typed
<1>3. \/ /\ InAir(flights[e]) /\ n \in {ExpiredFrom(s) : s \in InAirStates}
         /\ "LANDED" \notin o.events
      \/ InAir(flights[e]) /\ n = DownByTimeout /\ "LANDED" \in o.events
      \/ ~InAir(flights[e]) /\ flights[e] # Absent /\ n = Absent /\ "LANDED" \notin o.events
  BY <1>2, SweptFacts, LifeFacts
<1> HIDE DEF n
<1>4. /\ n \in Lives /\ ~InAir(n) /\ n.state \notin InAirStates
      /\ n # Absent => n.state = "LANDED"
      /\ n # Down
  BY <1>3, LifeFacts DEF InAir
<1>5. /\ active' \in {active, NoDay}
      /\ active' # NoDay => active' = active /\ (n = Absent => active # e)
  BY <1>1
<1>6. InAir(flights[e]) => /\ e = active /\ n # Absent /\ active' = active
  <2>1. InAir(flights[e]) => e = active
    BY PresentLives
  <2>2. InAir(flights[e]) => n # Absent
    BY <1>3, LifeFacts
  <2> QED  BY <1>1, <2>1, <2>2
<1>7. \A d \in Days : InAir(flights[d]) => d = active
  BY PresentLives
<1>8. /\ flights'[e] = n /\ rows'[e] \notin InAirStates
      /\ \A d \in Days : d # e => flights'[d] = flights[d] /\ rows'[d] = rows[d]
      /\ rows' \in [Days -> InAirStates \cup {"LANDED", "none"}]
  <2>1. CASE n = Absent
    <3>1. ~InAir(flights[e])
      BY <1>6, <2>1
    <3>2. rows[e] \notin InAirStates
      BY <3>1 DEF FlightsAgree, RowsMatchFlights
    <3> QED  BY <1>1, <2>1, <3>2 DEF Typed
  <2>2. CASE n # Absent
    <3>1. RowOf(n) = "LANDED" /\ "LANDED" \notin InAirStates
      BY <1>4, <2>2 DEF RowOf, InAirStates
    <3> QED  BY <1>1, <2>2, <3>1 DEF Typed
  <2> QED  BY <2>1, <2>2
<1>9. /\ todo' = IF "LANDED" \in o.events THEN LandingWork(e, "timeout") ELSE <<>>
      /\ n = DownByTimeout => "LANDED" \in o.events
      /\ "LANDED" \in o.events => n = DownByTimeout /\ e = active /\ active' = active
  <2>1. n = DownByTimeout => n # Absent /\ n \notin {ExpiredFrom(s) : s \in InAirStates}
    BY LifeFacts
  <2> QED  BY <1>1, <1>3, <1>6, <2>1 DEF SweepWork
<1>10. todo' \in Rest(e, n)
  BY <1>9 DEF Rest
<1>11. todo' \in Seq(OpRecord) /\ ~Doing("retract")'
  BY <1>4, <1>10, RestFacts DEF Doing, Free
<1>12. Typed'
  <2>1. active' \in Days \cup {NoDay} /\ flights' \in [Days -> Lives]
    BY <1>1, <1>4, <1>5 DEF Typed, n
  <2> QED  BY <1>1, <1>8, <1>11, <2>1 DEF Typed
<1>13. FlightsAgree'
  <2>1. ActiveIsTracked'
    <3>1. Tracked' => flights'[active'] # Absent
      <4> SUFFICES ASSUME active' # NoDay PROVE flights'[active'] # Absent
        BY DEF Tracked
      <4>1. active' = active /\ active \in Days /\ flights[active] # Absent
            /\ (n = Absent => active # e)
        BY <1>5 DEF Typed, FlightsAgree, ActiveIsTracked, Tracked
      <4> QED  BY <1>8, <4>1
    <3>2. \A d \in Days : InAir(flights'[d]) => active' = d
      <4> SUFFICES ASSUME NEW d \in Days, InAir(flights'[d]) PROVE active' = d
        OBVIOUS
      <4>1. d # e /\ InAir(flights[d]) /\ d = active
        BY <1>4, <1>7, <1>8
      <4> QED  BY <1>1, <4>1
    <3> QED  BY <3>1, <3>2 DEF ActiveIsTracked
  <2>2. RowsMatchFlights'
    BY <1>4, <1>8 DEF FlightsAgree, RowsMatchFlights
  <2> QED  BY <2>1, <2>2 DEF FlightsAgree
<1>14. WorkFits'
  <2> SUFFICES ASSUME todo' # <<>> PROVE Tracked' /\ IsWork(active, flights[active])'
    BY DEF WorkFits, Free
  <2>1. e = active /\ active' = active
    BY <1>9
  <2> QED  BY <1>8, <1>10, <2>1 DEF IsWork, Tracked, NoDay, Days
<1>15. Undisturbed' = Undisturbed /\ Undisturbed \subseteq Days
  BY <1>1 DEF Undisturbed
<1>16. e \in Undisturbed /\ n # Absent => RetractsNothing(e)
  BY <1>1, <1>3, FreeFacts
<1>17. AirIsClean'
  <2> SUFFICES ASSUME NEW d \in Undisturbed
               PROVE  InAir(flights'[d]) \/ flights'[d].expired # "no" => RetractsNothing(d)
    BY <1>1, <1>11, <1>15 DEF AirIsClean, RetractsNothing, Retracting
  <2>1. CASE d # e
    BY <1>1, <1>8, <1>15, <2>1, FreeFacts
  <2>2. CASE d = e
    BY <1>4, <1>8, <1>16, <2>2, LifeFacts
  <2> QED  BY <2>1, <2>2
<1>18. TruthFits'
  <2> SUFFICES ASSUME NEW d \in Undisturbed
               PROVE  /\ flights'[d] = Down => truth[d] \in {"telemetry", "none"}
                      /\ flights'[d] = DownByTimeout => truth[d] \in {"timeout", "none"}
    BY <1>1, <1>15 DEF TruthFits
  <2>1. CASE d # e
    BY <1>1, <1>8, <1>15, <2>1, FreeFacts DEF TruthFits
  <2>2. CASE d = e
    BY <1>4, <1>8, <1>16, <2>2, LifeFacts DEF RetractsNothing
  <2> QED  BY <2>1, <2>2
<1>19. InboundTold'
  <2> SUFFICES ASSUME NEW d \in Undisturbed, d = active', flights'[d] \in {Down, DownByTimeout},
                      "INBOUND" \in alerts[d]
               PROVE  Announcing' \/ "LANDED" \in alerts[d]
    BY <1>1, <1>15 DEF InboundTold
  <2>1. CASE d # e
    BY <1>1, <1>5, <1>8, <1>15, <2>1, FreeFacts DEF InboundTold, NoDay, Days
  <2>2. CASE d = e
    <3>1. todo' = <<Op("record", e, "none", "timeout"), Do("notify", e)>>
      BY <1>4, <1>8, <1>9, <2>2 DEF LandingWork
    <3>2. Op("record", e, "none", "timeout").op = "record"
      BY DEF Op
    <3> QED  BY <3>1, <3>2 DEF Announcing, Free
  <2> QED  BY <2>1, <2>2
<1>20. InboundOnce'
  BY <1>1, <1>5 DEF InboundOnce, Tracked
<1> QED  BY <1>12, <1>13, <1>14, <1>17, <1>18, <1>19, <1>20

(* Dropping the active flight, or losing it to a rebuild that fails.       *)
LEMMA FlightGone ==
  ASSUME IInv, Free, InAir(Present),
         flights' = [flights EXCEPT ![active] = Absent], active' = NoDay,
         NEW r \in {"LANDED", "none"}, rows' = [rows EXCEPT ![active] = r],
         torn' \in {torn, torn \cup {active}}, rebuilds' \in 0..MaxRebuilds,
         UNCHANGED <<today, truth, alerts, todo, crashes, reused, inbounds, shifted, wiped>>
  PROVE  IInv'
<1> USE DEF IInv
<1>1. active \in Days /\ \A d \in Days : InAir(flights[d]) => d = active
  BY PresentLives
<1>2. /\ Absent \in Lives /\ ~InAir(Absent) /\ Absent.expired = "no"
      /\ Absent \notin {Down, DownByTimeout}
  BY LifeFacts
<1>3. /\ flights'[active] = Absent /\ rows'[active] = r
      /\ \A d \in Days : d # active => flights'[d] = flights[d] /\ rows'[d] = rows[d]
  BY <1>1 DEF Typed
<1>4. Typed'
  BY <1>1, <1>2 DEF Typed
<1>5. FlightsAgree'
  <2>1. ActiveIsTracked'
    BY <1>1, <1>2, <1>3 DEF ActiveIsTracked, Tracked
  <2>2. r \notin InAirStates
    BY DEF InAirStates
  <2>3. RowsMatchFlights'
    BY <1>2, <1>3, <2>2 DEF FlightsAgree, RowsMatchFlights
  <2> QED  BY <2>1, <2>3 DEF FlightsAgree
<1>6. WorkFits'
  BY DEF WorkFits, Free
<1>7. Undisturbed' \subseteq Undisturbed /\ Undisturbed \subseteq Days
  BY DEF Undisturbed
<1>8. AirIsClean'
  <2> SUFFICES ASSUME NEW d \in Undisturbed'
               PROVE  /\ InAir(flights'[d]) \/ flights'[d].expired # "no" => RetractsNothing(d)
                      /\ ~Retracting(d)'
    BY DEF AirIsClean, RetractsNothing
  <2>1. ~Retracting(d)'
    BY DEF Retracting, Doing, Free
  <2> QED  BY <1>2, <1>3, <1>7, <2>1, FreeFacts
<1>9. TruthFits'
  <2> SUFFICES ASSUME NEW d \in Undisturbed'
               PROVE  /\ flights'[d] = Down => truth[d] \in {"telemetry", "none"}
                      /\ flights'[d] = DownByTimeout => truth[d] \in {"timeout", "none"}
    BY DEF TruthFits
  <2> QED  BY <1>2, <1>3, <1>7, FreeFacts DEF TruthFits
<1>10. InboundTold'
  BY <1>7 DEF InboundTold, NoDay, Days
<1>11. InboundOnce'
  BY DEF InboundOnce, Tracked
<1> QED  BY <1>4, <1>5, <1>6, <1>8, <1>9, <1>10, <1>11

LEMMA DropKeeps ==
  ASSUME IInv, Drop
  PROVE  IInv'
<1>1. rebuilds \in 0..MaxRebuilds
  BY DEF IInv, Typed
<1> QED  BY <1>1, FlightGone DEF Drop, history

LEMMA RebuildLosesKeeps ==
  ASSUME IInv, RebuildLoses
  PROVE  IInv'
<1>1. rebuilds' \in 0..MaxRebuilds
  BY TallyHoAssumption DEF IInv, Typed, RebuildLoses
<1>2. alerts' = alerts
  BY DEF RebuildLoses, AlertsWithout
<1> QED  BY <1>1, <1>2, FlightGone DEF RebuildLoses, RowsWithout

(* Rebuilding the active flight, whether its replay ends or breaks.        *)
LEMMA RebuildKeeps ==
  ASSUME IInv, NEW n \in Days, NEW olds \in SUBSET Days,
         NEW l \in {Airborne(s) : s \in InAirStates} \cup {Down},
         \A m \in olds : m < n,
         Rebuild(n, olds, l),
         \/ /\ todo' = CASE l = Down -> LandingWork(n, "telemetry")
                         [] l = Airborne("DESCENT") -> <<Do("inbound", n)>>
                         [] OTHER -> <<>>
            /\ torn' = torn
         \/ todo' = <<>> /\ torn' = torn \cup {active, n}
  PROVE  IInv'
<1> USE DEF IInv
<1>1. active \in Days /\ \A d \in Days : InAir(flights[d]) => d = active
  BY PresentLives DEF Rebuild
<1>2. n \notin olds
  <2>1. n \in Nat
    BY TallyHoAssumption DEF Days
  <2>2. ~(n < n)
    BY <2>1
  <2> QED  BY <2>2
<1>3. /\ flights' = [d \in Days |-> CASE d = n -> l
                                     [] d \in olds -> Down
                                     [] OTHER -> [flights EXCEPT ![active] = Absent][d]]
      /\ rows' = [d \in Days |-> CASE d = n -> RowOf(l)
                                   [] d \in olds -> "LANDED"
                                   [] OTHER -> [rows EXCEPT ![active] = "none"][d]]
      /\ inbounds' = IF n > active \/ active \in olds THEN 0 ELSE inbounds
      /\ shifted' = (~(n > active \/ active \in olds) /\ (shifted \/ n # active))
      /\ wiped' = (wiped /\ ~(n > active \/ active \in olds))
      /\ alerts' = alerts /\ active' = n
      /\ reused' = reused \cup {d \in olds \cup {n} :
                                 \/ d # active /\ rows[d] # "none"
                                 \/ truth[d] # "none" \/ "LANDED" \in alerts[d]}
      /\ UNCHANGED <<today, truth, crashes>>
  BY DEF Rebuild, RowsWithout, AlertsWithout
<1>4. /\ flights'[n] = l /\ rows'[n] = l.state
      /\ \A d \in olds : flights'[d] = Down /\ rows'[d] = "LANDED"
      /\ n # active /\ active \notin olds => flights'[active] = Absent /\ rows'[active] = "none"
      /\ \A d \in Days : d # n /\ d \notin olds /\ d # active =>
           flights'[d] = flights[d] /\ rows'[d] = rows[d]
  <2>1. /\ [flights EXCEPT ![active] = Absent][active] = Absent
        /\ [rows EXCEPT ![active] = "none"][active] = "none"
        /\ \A d \in Days : d # active => /\ [flights EXCEPT ![active] = Absent][d] = flights[d]
                                         /\ [rows EXCEPT ![active] = "none"][d] = rows[d]
    BY <1>1 DEF Typed
  <2> DEFINE F == [flights EXCEPT ![active] = Absent]
             R == [rows EXCEPT ![active] = "none"]
  <2> HIDE DEF F, R
  <2>2. /\ flights' = [d \in Days |-> CASE d = n -> l
                                     [] d \in olds -> Down
                                     [] OTHER -> F[d]]
        /\ rows' = [d \in Days |-> CASE d = n -> RowOf(l)
                                   [] d \in olds -> "LANDED"
                                   [] OTHER -> R[d]]
    BY <1>3 DEF F, R
  <2>3. flights'[n] = l /\ rows'[n] = l.state
    BY <1>2, <2>2 DEF RowOf
  <2>4. ASSUME NEW d \in olds PROVE flights'[d] = Down /\ rows'[d] = "LANDED"
    <3>1. d \in Days /\ d # n
      BY <1>2
    <3> QED  BY <2>2, <3>1
  <2>5. ASSUME NEW d \in Days, d # n, d \notin olds
        PROVE  flights'[d] = F[d] /\ rows'[d] = R[d]
    BY <2>2, <2>5
  <2> QED  BY <1>1, <2>1, <2>3, <2>4, <2>5 DEF F, R
<1>5. /\ l \in Lives /\ l # Absent /\ l # DownByTimeout /\ l.expired = "no"
      /\ l.state \in InAirStates \cup {"LANDED"}
      /\ l = Down \/ InAir(l)
  BY LifeFacts
<1>6. /\ Absent \in Lives /\ ~InAir(Absent) /\ Absent.expired = "no"
      /\ Absent \notin {Down, DownByTimeout}
      /\ Down \in Lives /\ ~InAir(Down) /\ Down.expired = "no" /\ Down # DownByTimeout
      /\ "LANDED" \notin InAirStates /\ "none" \notin InAirStates
  BY LifeFacts DEF InAirStates
<1>7. /\ \A d \in Days : \/ d = n \/ d \in olds
                         \/ flights'[d] = Absent /\ rows'[d] = "none"
                         \/ /\ d # active /\ ~InAir(flights[d])
                            /\ flights'[d] = flights[d] /\ rows'[d] = rows[d]
  BY <1>1, <1>4
<1>8. todo' \in Rest(n, l) /\ (l = Down /\ todo' = <<>> => n \in torn')
  <2>1. CASE todo' = <<>> /\ torn' = torn \cup {active, n}
    BY <2>1 DEF Rest
  <2>2. CASE /\ todo' = CASE l = Down -> LandingWork(n, "telemetry")
                          [] l = Airborne("DESCENT") -> <<Do("inbound", n)>>
                          [] OTHER -> <<>>
             /\ torn' = torn
    <3>1. CASE l = Down
      <4>1. todo' = LandingWork(n, "telemetry")
        <5>1. l # Airborne("DESCENT")
          BY <3>1, LifeFacts
        <5> QED  BY <2>2, <3>1, <5>1
      <4>2. todo' # <<>>
        BY <4>1 DEF LandingWork
      <4> QED  BY <3>1, <4>1, <4>2 DEF Rest
    <3>2. CASE l # Down /\ l = Airborne("DESCENT")
      <4>1. todo' = <<Do("inbound", n)>>
        BY <2>2, <3>2
      <4> QED  BY <3>2, <4>1 DEF Rest
    <3>3. CASE l # Down /\ l # Airborne("DESCENT")
      <4>1. todo' = <<>>
        BY <2>2, <3>3
      <4> QED  BY <3>3, <4>1 DEF Rest
    <3> QED  BY <3>1, <3>2, <3>3
  <2> QED  BY <2>1, <2>2
<1>9. todo' \in Seq(OpRecord) /\ ~Doing("retract")'
  BY <1>5, <1>8, RestFacts DEF Doing, Free
<1>10. Typed'
  <2>1. flights' \in [Days -> Lives]
    <3>1. \A d \in Days : flights'[d] \in Lives
      BY <1>4, <1>5, <1>6, <1>7 DEF Typed
    <3>2. flights' = [d \in Days |-> flights'[d]]
      BY <1>3
    <3> QED  BY <3>1, <3>2
  <2>2. rows' \in [Days -> InAirStates \cup {"LANDED", "none"}]
    <3>1. \A d \in Days : rows'[d] \in InAirStates \cup {"LANDED", "none"}
      BY <1>4, <1>5, <1>7 DEF Typed
    <3>2. rows' = [d \in Days |-> rows'[d]]
      BY <1>3
    <3> QED  BY <3>1, <3>2
  <2>3. inbounds' \in 0..2 /\ shifted' \in BOOLEAN /\ wiped' \in BOOLEAN
    <3>1. inbounds \in 0..2 /\ 0 \in 0..2
      BY DEF Typed
    <3>2. inbounds' \in {0, inbounds}
      BY <1>3
    <3>3. shifted' \in BOOLEAN /\ wiped' \in BOOLEAN
      BY <1>3
    <3> QED  BY <3>1, <3>2, <3>3
  <2>4. rebuilds' \in 0..MaxRebuilds
    BY TallyHoAssumption DEF Typed, Rebuild
  <2>5. reused' \subseteq Days /\ torn' \subseteq Days
    BY <1>1, <1>3 DEF Typed
  <2> QED  BY <1>3, <1>9, <2>1, <2>2, <2>3, <2>4, <2>5 DEF Typed
<1>11. FlightsAgree'
  <2>1. ActiveIsTracked'
    BY <1>3, <1>4, <1>5, <1>6, <1>7 DEF ActiveIsTracked
  <2>2. RowsMatchFlights'
    <3> SUFFICES ASSUME NEW d \in Days
                 PROVE  \/ InAir(flights'[d]) /\ rows'[d] = flights'[d].state
                        \/ ~InAir(flights'[d]) /\ rows'[d] \notin InAirStates
      BY DEF RowsMatchFlights
    <3>1. CASE d = n
      BY <1>4, <3>1 DEF InAir
    <3>2. CASE d \in olds
      BY <1>4, <1>6, <3>2
    <3>3. CASE flights'[d] = Absent /\ rows'[d] = "none"
      BY <1>6, <3>3
    <3>4. CASE ~InAir(flights[d]) /\ flights'[d] = flights[d] /\ rows'[d] = rows[d]
      BY <3>4 DEF FlightsAgree, RowsMatchFlights
    <3> QED  BY <1>7, <3>1, <3>2, <3>3, <3>4
  <2> QED  BY <2>1, <2>2 DEF FlightsAgree
<1>12. WorkFits'
  BY <1>3, <1>4, <1>8 DEF WorkFits, IsWork, Tracked, NoDay, Days
<1>13. /\ Undisturbed' \subseteq Undisturbed /\ Undisturbed \subseteq Days
       /\ \A d \in olds \cup {n} : d \in Undisturbed' => RetractsNothing(d)
  BY <1>3 DEF Undisturbed, RetractsNothing
<1>14. AirIsClean'
  <2> SUFFICES ASSUME NEW d \in Undisturbed'
               PROVE  InAir(flights'[d]) \/ flights'[d].expired # "no" => RetractsNothing(d)
    BY <1>3, <1>9 DEF AirIsClean, RetractsNothing, Retracting
  <2>1. d \in Undisturbed /\ d \in Days /\ Free
    BY <1>13 DEF Rebuild
  <2> QED  BY <1>6, <1>7, <1>13, <2>1, FreeFacts
<1>15. TruthFits'
  <2> SUFFICES ASSUME NEW d \in Undisturbed'
               PROVE  /\ flights'[d] = Down => truth[d] \in {"telemetry", "none"}
                      /\ flights'[d] = DownByTimeout => truth[d] \in {"timeout", "none"}
    BY <1>3 DEF TruthFits
  <2>1. d \in Undisturbed /\ d \in Days /\ Free
    BY <1>13 DEF Rebuild
  <2> QED  BY <1>6, <1>7, <1>13, <2>1, FreeFacts DEF TruthFits, RetractsNothing
<1>16. InboundTold'
  <2> SUFFICES ASSUME n \in Undisturbed', l \in {Down, DownByTimeout}
               PROVE  Announcing'
    BY <1>3, <1>4 DEF InboundTold
  <2>1. l = Down /\ todo' # <<>>
    BY <1>5, <1>8 DEF Undisturbed
  <2>2. l # Airborne("DESCENT") /\ l # DownByTimeout
    BY <2>1, LifeFacts
  <2> QED  BY <1>5, <1>8, <2>1, <2>2, RestFacts DEF Announcing, Free
<1>17. InboundOnce'
  <2>1. CASE n > active \/ active \in olds
    BY <1>3, <2>1 DEF InboundOnce
  <2>2. CASE ~(n > active \/ active \in olds)
    <3>1. inbounds' = inbounds /\ alerts' = alerts /\ active' = n
          /\ (~shifted' => ~shifted /\ n = active) /\ (~wiped' => ~wiped)
      BY <1>3, <2>2
    <3>2. Tracked
      BY <1>1 DEF Tracked, NoDay, Days
    <3> QED  BY <3>1, <3>2 DEF InboundOnce
  <2> QED  BY <2>1, <2>2
<1> QED  BY <1>10, <1>11, <1>12, <1>14, <1>15, <1>16, <1>17

-----------------------------------------------------------------------------
(* Initially, and at every step.                                           *)

LEMMA InitHolds ==
  ASSUME Init
  PROVE  IInv
<1>1. /\ today = 1 /\ flights = [d \in Days |-> Absent] /\ active = NoDay
      /\ rows = [d \in Days |-> "none"] /\ truth = [d \in Days |-> "none"]
      /\ alerts = [d \in Days |-> {}] /\ todo = <<>> /\ crashes = 0 /\ rebuilds = 0
      /\ reused = {} /\ torn = {} /\ inbounds = 0 /\ shifted = FALSE /\ wiped = FALSE
  BY DEF Init
<1>2. /\ Absent \in Lives /\ ~InAir(Absent) /\ Absent.expired = "no"
      /\ Absent \notin {Down, DownByTimeout}
  BY LifeFacts
<1>3. Typed
  <2>1. 1 \in Days /\ 0 \in 0..MaxCrashes /\ 0 \in 0..MaxRebuilds /\ 0 \in 0..2
    BY TallyHoAssumption DEF Days
  <2>2. <<>> \in Seq(OpRecord)
    OBVIOUS
  <2> QED  BY <1>1, <1>2, <2>1, <2>2 DEF Typed
<1>4. FlightsAgree
  BY <1>1, <1>2 DEF FlightsAgree, ActiveIsTracked, RowsMatchFlights, Tracked, InAirStates
<1>5. WorkFits /\ InboundOnce
  BY <1>1 DEF WorkFits, Free, InboundOnce, Tracked
<1>6. AirIsClean /\ TruthFits /\ InboundTold
  BY <1>1, <1>2 DEF AirIsClean, TruthFits, InboundTold, Undisturbed, RetractsNothing,
                    Retracting, Doing, Free
<1> QED  BY <1>3, <1>4, <1>5, <1>6 DEF IInv

LEMMA StepKeeps ==
  ASSUME IInv, [Next]_vars
  PROVE  IInv'
<1>1. ASSUME NEW o \in Heard(Present), Frame(o) PROVE IInv'
  BY <1>1, FrameKeeps
<1>2. ASSUME NEW d \in Days, NEW o \in Swept(flights[d]), Sweep(d, o) PROVE IInv'
  BY <1>2, SweepKeeps
<1>3. CASE Drop
  BY <1>3, DropKeeps
<1>4. ASSUME NEW n \in Days, NEW olds \in SUBSET Days,
             NEW l \in {Airborne(s) : s \in InAirStates} \cup {Down},
             \A m \in olds : m < n, RebuildDone(n, olds, l) \/ RebuildBreaks(n, olds, l)
      PROVE  IInv'
  BY <1>4, RebuildKeeps DEF RebuildDone, RebuildBreaks
<1>5. CASE RebuildLoses
  BY <1>5, RebuildLosesKeeps
<1>6. CASE Commit
  BY <1>6, RetractKeeps, RecordKeeps, NotifyKeeps, InboundKeeps, RefineKeeps, RerecordKeeps
     DEF Commit
<1>7. CASE ClearAlerts \/ ClearAccuracy \/ Midnight \/ Crash
  BY <1>7, ClearAlertsKeeps, ClearAccuracyKeeps, MidnightKeeps, CrashKeeps
<1>8. CASE UNCHANGED vars
  <2>1. today' \in Days
    BY <1>8 DEF vars, IInv, Typed
  <2> QED  BY <1>8, <2>1, StandingStill DEF vars
<1>9. CASE Consume
  BY <1>9, <1>1, <1>2, <1>3, <1>4, <1>5 DEF Consume
<1> QED  BY <1>6, <1>7, <1>8, <1>9 DEF Next

THEOREM Inductive == Spec => []IInv
BY InitHolds, StepKeeps, PTL DEF Spec

-----------------------------------------------------------------------------
(* What follows from it.                                                   *)

(* The tables, the flights and the pending commits keep their types.       *)
THEOREM TypeCorrect == Spec => []TypeOK
<1>1. IInv => TypeOK
  <2> SUFFICES ASSUME IInv PROVE TypeOK
    OBVIOUS
  <2>1. \A i \in 1..Len(todo) : todo[i] \in OpRecord
    BY DEF IInv, Typed
  <2> QED  BY <2>1 DEF IInv, Typed, TypeOK, OpRecord
<1> QED  BY <1>1, Inductive, PTL

(* update() finds the flight of its key, and load_active() and the         *)
(* dashboard read from the rows just the flights the tracker has in the    *)
(* air, whatever calls, rebuilds and crashes came between.                 *)
THEOREM Agreement == Spec => []FlightsAgree
<1>1. IInv => FlightsAgree
  BY DEF IInv
<1> QED  BY <1>1, Inductive, PTL

(* process_frame() retracts all that a provisional landing left before     *)
(* anything else is done, and RESUMED takes nothing back of a flight that  *)
(* was given up in mid-air.                                                *)
THEOREM RetractionIsExact == Spec => []LandingsAreRetracted
<1>1. IInv => LandingsAreRetracted
  <2> SUFFICES ASSUME IInv PROVE LandingsAreRetracted
    OBVIOUS
  <2>1. NoLandingInAir
    BY FreeFacts DEF NoLandingInAir, RetractsNothing
  <2>2. ExpiredNeverRecorded
    <3> SUFFICES ASSUME Doing("retract"), Head(todo).from = "expired", Key \in Undisturbed
                 PROVE  RetractsNothing(Key)
      BY DEF ExpiredNeverRecorded
    <3>1. Retracting(Key) /\ ~RetractingLanding(Key)
      BY DEF Retracting, RetractingLanding
    <3> QED  BY <3>1 DEF IInv, AirIsClean
  <2> QED  BY <2>1, <2>2 DEF LandingsAreRetracted
<1> QED  BY <1>1, Inductive, PTL

(* Neither a silence nor pings from the ground overwrite the truth of a    *)
(* confirmed landing, between any two calls.                               *)
THEOREM TruthStaysOwn == Spec => []TruthIsOwn
<1>1. IInv => TruthIsOwn
  <2> SUFFICES ASSUME IInv, Free PROVE TruthIsOwn
    BY DEF TruthIsOwn
  <2>1. Undisturbed \subseteq Days
    BY DEF Undisturbed
  <2> QED  BY <2>1, FreeFacts DEF IInv, TruthFits, TruthIsOwn
<1> QED  BY <1>1, Inductive, PTL

(* handle_landed() reaches everyone handle_prediction() told INBOUND, once *)
(* the call that landed the flight is done.                                *)
THEOREM LandedFollowsInbound == Spec => []InboundGetsLanded
<1>1. IInv => InboundGetsLanded
  BY FreeFacts DEF IInv, InboundTold, InboundGetsLanded
<1> QED  BY <1>1, Inductive, PTL

(* The alert rows keep sweeps, resumptions, restarts and rebuilds under    *)
(* the same key from announcing a flight INBOUND again.                    *)
THEOREM OneInbound == Spec => []InboundOncePerKey
<1>1. IInv => InboundOncePerKey
  BY DEF IInv, InboundOnce, InboundOncePerKey
<1> QED  BY <1>1, Inductive, PTL

-----------------------------------------------------------------------------
(* The flight between the calls.                                           *)

(* A step that leaves the tracker's flights alone leaves the present one,  *)
(* which every flight may do.                                              *)
LEMMA StillFollows ==
  ASSUME IInv, Present' = Present
  PROVE  Follows(Present, Present')
<1>1. Present' = Present
  OBVIOUS
<1>2. Present \in Lives
  BY PresentLives
<1>3. CASE InAir(Present)
  BY <1>1, <1>3 DEF Follows, Reloaded
<1>4. CASE ~InAir(Present)
  <2>1. CASE Present = Absent
    BY <1>1, <1>4, <2>1 DEF Follows, Reloaded
  <2>2. CASE Present # Absent
    <3>1. To(Present, {}) \in Heard(Present) /\ To(Present, {}).life = Present
      BY <1>4, <2>2 DEF Heard, To
    <3> QED  BY <1>1, <3>1 DEF Follows
  <2> QED  BY <2>1, <2>2
<1> QED  BY <1>1, <1>3, <1>4

LEMMA Unmoved ==
  ASSUME IInv, UNCHANGED <<flights, active>>
  PROVE  Follows(Present, Present')
<1>1. Present' = Present
  BY DEF Present, Tracked
<1> QED  BY <1>1, StillFollows

(* A frame: to the flight it finds, or to one it launches.                 *)
LEMMA FrameFollows ==
  ASSUME IInv, NEW o \in Heard(Present), Frame(o)
  PROVE  crashes' = crashes /\ Follows(Present, Present')
<1> DEFINE d == IF "NEW_FLIGHT" \in o.events THEN today ELSE active
<1>1. flights' = [flights EXCEPT ![d] = o.life] /\ active' = d /\ crashes' = crashes
  BY DEF Frame
<1>2. d \in Days
  <2>1. today \in Days
    BY DEF IInv, Typed
  <2>2. Present = Absent => o = Launched
    BY HeardFacts, LifeFacts, PresentLives
  <2>3. "NEW_FLIGHT" \in Launched.events
    BY DEF Launched, To
  <2> QED  BY <2>1, <2>2, <2>3, PresentLives
<1>3. d # NoDay
  BY <1>2 DEF Days, NoDay
<1> HIDE DEF d
<1>4. Present' = o.life
  BY <1>1, <1>2, <1>3 DEF Present, Tracked, IInv, Typed
<1> QED  BY <1>1, <1>4 DEF Follows

(* The sweep: of the present flight, or of one that was relaunched since.  *)
LEMMA SweepFollows ==
  ASSUME IInv, NEW e \in Days, NEW o \in Swept(flights[e]), Sweep(e, o)
  PROVE  crashes' = crashes /\ Follows(Present, Present')
<1>1. /\ flights' = [flights EXCEPT ![e] = o.life] /\ crashes' = crashes
      /\ active' = IF o.life = Absent /\ active = e THEN NoDay ELSE active
  BY DEF Sweep, ActiveAfterEviction
<1>2. e # NoDay /\ flights \in [Days -> Lives] /\ active \in Days \cup {NoDay}
  BY DEF Days, NoDay, IInv, Typed
<1>3. CASE active = e
  <2>1. Present = flights[e]
    BY <1>2, <1>3 DEF Present, Tracked
  <2>2. Present' = o.life
    BY <1>1, <1>2, <1>3 DEF Present, Tracked
  <2> QED  BY <1>1, <2>1, <2>2 DEF Follows
<1>4. CASE active # e
  <2>1. active' = active /\ (active # NoDay => flights'[active] = flights[active])
    BY <1>1, <1>2, <1>4
  <2>2. Present' = Present
    BY <2>1 DEF Present, Tracked
  <2> QED  BY <1>1, <2>2, StillFollows
<1> QED  BY <1>3, <1>4

(* A restart reads the rows, which agree with the flights.                 *)
LEMMA CrashFollows ==
  ASSUME IInv, Crash
  PROVE  Present' = Reloaded(Present)
<1>1. /\ flights' = [d \in Days |-> IF rows[d] \in InAirStates THEN Airborne(rows[d]) ELSE Absent]
      /\ active' \in {d \in Days \cup {NoDay} :
           IF d = NoDay THEN \A e \in Days : flights'[e] = Absent ELSE flights'[d] # Absent}
  BY DEF Crash
<1>2. \A d \in Days : flights'[d] = IF InAir(flights[d]) THEN flights[d] ELSE Absent
  <2> SUFFICES ASSUME NEW d \in Days
               PROVE  flights'[d] = IF InAir(flights[d]) THEN flights[d] ELSE Absent
    OBVIOUS
  <2>1. flights[d] \in Lives
    BY DEF IInv, Typed
  <2>2. \/ InAir(flights[d]) /\ rows[d] = flights[d].state
        \/ ~InAir(flights[d]) /\ rows[d] \notin InAirStates
    BY DEF IInv, FlightsAgree, RowsMatchFlights
  <2>3. InAir(flights[d]) => flights[d].state \in InAirStates
                             /\ flights[d] = Airborne(flights[d].state)
    BY <2>1, LifeFacts DEF InAir
  <2> QED  BY <1>1, <2>2, <2>3
<1>3. ~InAir(Absent)
  BY LifeFacts
<1>4. CASE InAir(Present)
  <2>1. active \in Days /\ Present = flights[active] /\ active # NoDay
    BY <1>4, PresentLives DEF Days, NoDay
  <2>2. flights'[active] = Present /\ Present # Absent
    BY <1>2, <1>3, <1>4, <2>1
  <2>3. active' \in Days /\ active' # NoDay /\ flights'[active'] # Absent
    BY <1>1, <2>1, <2>2 DEF Days, NoDay
  <2>4. InAir(flights[active'])
    BY <1>2, <2>3
  <2>5. active' = active
    BY <2>3, <2>4, PresentLives
  <2> QED  BY <1>4, <2>2, <2>3, <2>5 DEF Present, Tracked, Reloaded
<1>5. CASE ~InAir(Present)
  <2>1. \A d \in Days : ~InAir(flights[d])
    BY <1>5, PresentLives
  <2>2. \A d \in Days : flights'[d] = Absent
    BY <1>2, <2>1
  <2>3. active' = NoDay
    BY <1>1, <2>2
  <2> QED  BY <1>5, <2>3 DEF Present, Tracked, Reloaded
<1> QED  BY <1>4, <1>5

LEMMA MovesFollow ==
  ASSUME IInv, [Next]_vars
  PROVE  /\ crashes' # crashes => Present' = Reloaded(Present)
         /\ rebuilds' = rebuilds => Follows(Present, Present')
<1>1. ASSUME NEW o \in Heard(Present), Frame(o)
      PROVE  crashes' = crashes /\ Follows(Present, Present')
  BY <1>1, FrameFollows
<1>2. ASSUME NEW d \in Days, NEW o \in Swept(flights[d]), Sweep(d, o)
      PROVE  crashes' = crashes /\ Follows(Present, Present')
  BY <1>2, SweepFollows
<1>3. ASSUME Drop PROVE crashes' = crashes /\ Follows(Present, Present')
  <2>1. active' = NoDay /\ InAir(Present) /\ crashes' = crashes
    BY <1>3 DEF Drop
  <2>2. Present' = Absent
    BY <2>1 DEF Present, Tracked
  <2> QED  BY <2>1, <2>2 DEF Follows
<1>4. ASSUME NEW n, NEW olds, NEW l, RebuildDone(n, olds, l) \/ RebuildBreaks(n, olds, l)
      PROVE  crashes' = crashes /\ rebuilds' # rebuilds
  <2>1. crashes' = crashes /\ rebuilds' = rebuilds + 1
    BY <1>4 DEF RebuildDone, RebuildBreaks, Rebuild
  <2>2. rebuilds \in Nat
    BY TallyHoAssumption DEF IInv, Typed
  <2> QED  BY <2>1, <2>2
<1>5. ASSUME RebuildLoses PROVE crashes' = crashes /\ rebuilds' # rebuilds
  <2>1. crashes' = crashes /\ rebuilds' = rebuilds + 1
    BY <1>5 DEF RebuildLoses
  <2>2. rebuilds \in Nat
    BY TallyHoAssumption DEF IInv, Typed
  <2> QED  BY <2>1, <2>2
<1>6. CASE Commit
  <2>1. UNCHANGED <<flights, active, crashes>>
    BY <1>6 DEF Commit, Retract, RecordLanding, NotifyLanded, NotifyInbound, Refine, Rerecord,
       memory
  <2> QED  BY <2>1, Unmoved
<1>7. CASE ClearAlerts \/ ClearAccuracy \/ Midnight
  <2>1. UNCHANGED <<flights, active, crashes>>
    BY <1>7 DEF ClearAlerts, ClearAccuracy, Midnight, memory
  <2> QED  BY <2>1, Unmoved
<1>8. CASE Crash
  BY <1>8, CrashFollows DEF Follows
<1>9. CASE UNCHANGED vars
  <2>1. UNCHANGED <<flights, active, crashes>>
    BY <1>9 DEF vars, memory
  <2> QED  BY <2>1, Unmoved
<1>10. CASE Consume
  BY <1>1, <1>2, <1>3, <1>4, <1>5, <1>10 DEF Consume
<1> QED  BY <1>6, <1>7, <1>8, <1>9, <1>10 DEF Next

(* The flight of the serial moves as FlightLifecycle allows, whatever the  *)
(* daemon commits around it and however often it is cut short and started  *)
(* again; a restart brings back the flight that was in the air.            *)
THEOREM FollowsTheRules == Spec => PresentFollowsLifecycle
<1>1. IInv /\ [Next]_vars =>
        [/\ crashes' # crashes => Present' = Reloaded(Present)
         /\ rebuilds' = rebuilds => Follows(Present, Present')]_vars
  BY MovesFollow
<1> QED  BY <1>1, Inductive, PTL DEF Spec, PresentFollowsLifecycle
=============================================================================
