---------------------------- MODULE FlightStates ----------------------------
(***************************************************************************)
(* The states of a flight, and what one call of the tracker may make of    *)
(* it: the outcomes of a frame, of the timeout sweep and of a restart.     *)
(* Altitudes, rates and timeouts, which decide between the outcomes, are   *)
(* left to FlightTracker; FlightLifecycle is the specification made of     *)
(* these outcomes, and TallyHo moves its flights with them.                *)
(***************************************************************************)

InAirStates == {"ASCENT", "FLOAT", "DESCENT"}
Events == {"NEW_FLIGHT", "BURST", "FLOAT", "LANDED", "EXPIRED", "RESUMED"}

Absent == [state |-> "ABSENT", expired |-> "no", provisional |-> FALSE]
Airborne(s) == [state |-> s, expired |-> "no", provisional |-> FALSE]
Down == [state |-> "LANDED", expired |-> "no", provisional |-> FALSE]
DownByTimeout == [state |-> "LANDED", expired |-> "no", provisional |-> TRUE]
ExpiredFrom(s) == [state |-> "LANDED", expired |-> s, provisional |-> FALSE]

Lives == {Absent, Down, DownByTimeout}
           \cup {Airborne(s) : s \in InAirStates}
           \cup {ExpiredFrom(s) : s \in InAirStates}

InAir(l) == l.state \in InAirStates
To(l, evs) == [life |-> l, events |-> evs]

-----------------------------------------------------------------------------
(* One call's outcomes: the flight after it, and the events it returns.    *)

(* _apply_frame() on a flight in the air.  A frame can call the burst and  *)
(* the landing at once; a called burst can be taken back.                  *)
Flown(s) ==
  {To(Airborne(s), {})} \cup
  CASE s = "ASCENT" ->
         {To(Airborne("FLOAT"), {"FLOAT"}), To(Airborne("DESCENT"), {"BURST"}),
          To(Down, {"BURST", "LANDED"})}
    [] s = "FLOAT" ->
         {To(Airborne("DESCENT"), {"BURST"}), To(Down, {"BURST", "LANDED"})}
    [] s = "DESCENT" ->
         {To(Airborne("ASCENT"), {}), To(Down, {"LANDED"})}

Resumed(s) == {To(o.life, o.events \cup {"RESUMED"}) : o \in Flown(s)}
Launched == To(Airborne("ASCENT"), {"NEW_FLIGHT"})

(* update(): a frame of the serial.  Only a provisional landing can be     *)
(* reopened, only a flight that is not expired can be relaunched.          *)
Heard(l) ==
  CASE l = Absent -> {Launched}
    [] InAir(l) -> Flown(l.state)
    [] l = Down -> {To(l, {}), Launched}
    [] l = DownByTimeout -> {To(l, {}), Launched} \cup Resumed("DESCENT")
    [] OTHER -> {To(l, {})} \cup Resumed(l.expired)

(* check_timeouts(): a silent flight is closed out, an old one evicted.    *)
Swept(l) ==
  CASE InAir(l) ->
         {To(ExpiredFrom(l.state), {"EXPIRED"})} \cup
         (IF l.state = "DESCENT" THEN {To(DownByTimeout, {"LANDED"})} ELSE {})
    [] l = Absent -> {}
    [] OTHER -> {To(Absent, {})}

(* load_active(): flights in the air come back, those closed out do not.   *)
Reloaded(l) == IF InAir(l) THEN l ELSE Absent
=============================================================================
