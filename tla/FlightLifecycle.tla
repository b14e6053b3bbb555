-------------------------- MODULE FlightLifecycle --------------------------
(***************************************************************************)
(* What the tracker promises of one serial's flight: the states it moves   *)
(* through, the events it announces on the way, and the three ways to be   *)
(* LANDED - heard coming down, assumed down after a silence (provisional), *)
(* or closed out in mid-air after a silence (expired).                     *)
(***************************************************************************)
EXTENDS FlightStates

VARIABLES
  life,   \* the flight tracked for the serial, or Absent
  events  \* the events of the latest call

vars == <<life, events>>

-----------------------------------------------------------------------------
Init == life = Absent /\ events = {}

Becomes(o) == life' = o.life /\ events' = o.events

Hear == \E o \in Heard(life) : Becomes(o)
Sweep == \E o \in Swept(life) : Becomes(o)
DropOrForget == InAir(life) /\ Becomes(To(Absent, {}))
Restart == Becomes(To(Reloaded(life), {}))

Next == Hear \/ Sweep \/ DropOrForget \/ Restart

Spec == Init /\ [][Next]_vars
=============================================================================
