------------------------------ MODULE TallyHo ------------------------------
(***************************************************************************)
(* The daemon around the tracker, for one serial and one subscriber: what  *)
(* the consumer thread commits, in order, for a frame, a maintenance tick  *)
(* or a rebuilt history - the flight's row, the landing truth, the alerts  *)
(* - under the key (serial, launch day), while the web thread clears       *)
(* histories and the process may die between any two commits.              *)
(* The flight itself moves by the outcomes of FlightStates.                *)
(***************************************************************************)
EXTENDS FlightStates, Integers, Sequences

CONSTANTS
  LastDay,      \* bound on the days, counted from 1
  MaxCrashes,   \* bound on crashes of the process
  MaxRebuilds   \* bound on rebuilds from fetched history

ASSUME TallyHoAssumption ==
  LastDay \in Nat \ {0} /\ MaxCrashes \in Nat /\ MaxRebuilds \in Nat

VARIABLES
  today,     \* the UTC date of the frames
  flights,   \* flights[d]: the tracker's flight launched on day d, or Absent
  active,    \* the day of the serial's active flight, or NoDay
  rows,      \* rows[d]: the state column of the flights table, or "none"
  truth,     \* truth[d]: the landings table, by how the landing was detected
  alerts,    \* alerts[d]: the kinds of alert rows the subscriber has
  todo,      \* what the consumer thread's call has still to commit, in order
  crashes,
  rebuilds,
  reused,    \* history: days on which a later flight took over the key
  torn,      \* history: days on which a crash cut a call short
  inbounds,  \* history: INBOUND pushes (at most 2 counted) for the present flight
  shifted,   \* history: the present flight was rebuilt under another day
  wiped      \* history: the present flight's alert rows were cleared

store == <<rows, truth, alerts>>
memory == <<flights, active>>
history == <<reused, torn, inbounds, shifted, wiped>>
vars == <<today, memory, store, todo, crashes, rebuilds, history>>

Days == 1..LastDay
NoDay == 0
Detected == {"timeout", "telemetry"}
Ops == {"retract", "record", "notify", "inbound", "refine", "rerecord"}

Tracked == active # NoDay
Present == IF Tracked THEN flights[active] ELSE Absent
Free == todo = <<>>
Min2(n) == IF n < 2 THEN n ELSE 2

RowOfExpired(l) == IF l.expired # "no" THEN "EXPIRED" ELSE l.state
RowOf(l) == l.state

(* A key that an earlier flight of the serial has left something under.    *)
Taken(d) == rows[d] # "none" \/ truth[d] # "none" \/ "LANDED" \in alerts[d]

-----------------------------------------------------------------------------
(* What process_frame() has left to do once the tracker took the frame:    *)
(* "from" tells the close-out a RESUMED takes back, "by" the detection.    *)

Op(op, d, from, by) == [op |-> op, day |-> d, from |-> from, by |-> by]
Do(op, d) == Op(op, d, "none", "none")

CloseOut(l) == IF l.expired # "no" THEN "expired" ELSE "provisional"

NoRetraction(d, before, evs) == <<>>
Retraction(d, before, evs) ==
  IF "RESUMED" \in evs THEN <<Op("retract", d, CloseOut(before), "none")>> ELSE <<>>

LandingWork(d, by) == <<Op("record", d, "none", by), Do("notify", d)>>

RefinesAny(l) == l.state = "LANDED" /\ l.expired = "no"
Refines(l) == l.provisional

FrameWork(d, before, o) ==
  Retraction(d, before, o.events) \o
  CASE "LANDED" \in o.events -> LandingWork(d, "telemetry")
    [] "LANDED" \notin o.events /\ Refines(o.life) -> <<Do("refine", d)>>
    [] o.life = Airborne("DESCENT") -> <<Do("inbound", d)>>
    [] OTHER -> <<>>

-----------------------------------------------------------------------------
Init ==
  /\ today = 1
  /\ flights = [d \in Days |-> Absent]
  /\ active = NoDay
  /\ rows = [d \in Days |-> "none"]
  /\ truth = [d \in Days |-> "none"]
  /\ alerts = [d \in Days |-> {}]
  /\ todo = <<>>
  /\ crashes = 0
  /\ rebuilds = 0
  /\ reused = {}
  /\ torn = {}
  /\ inbounds = 0
  /\ shifted = FALSE
  /\ wiped = FALSE

(* process_frame(): tracker.update(), which commits the row, then the rest *)
(* of the call; a frame of a new flight takes the key of its day.          *)
Frame(o) ==
  LET launched == "NEW_FLIGHT" \in o.events
      d == IF launched THEN today ELSE active
  IN /\ Free
     /\ flights' = [flights EXCEPT ![d] = o.life]
     /\ active' = d
     /\ rows' = [rows EXCEPT ![d] = RowOf(o.life)]
     /\ todo' = FrameWork(d, Present, o)
     /\ reused' = IF launched /\ Taken(d) THEN reused \cup {d} ELSE reused
     /\ inbounds' = IF launched THEN 0 ELSE inbounds
     /\ shifted' = (shifted /\ ~launched)
     /\ wiped' = (wiped /\ ~launched)
     /\ UNCHANGED <<today, truth, alerts, crashes, rebuilds, torn>>

(* tick(): the timeout sweep closes a flight out or evicts it.             *)
SweepWork(d, evs) == IF "LANDED" \in evs THEN LandingWork(d, "timeout") ELSE <<>>

ActiveAfterEviction(d) == IF active = d THEN NoDay ELSE active

Sweep(d, o) ==
  /\ Free
  /\ flights' = [flights EXCEPT ![d] = o.life]
  /\ active' = IF o.life = Absent THEN ActiveAfterEviction(d) ELSE active
  /\ rows' = IF o.life = Absent THEN rows ELSE [rows EXCEPT ![d] = RowOf(o.life)]
  /\ todo' = SweepWork(d, o.events)
  /\ UNCHANGED <<today, truth, alerts, crashes, rebuilds, history>>

(* _drop_outside_roi(): closed out and evicted, nothing announced.         *)
Drop ==
  /\ Free
  /\ InAir(Present)
  /\ flights' = [flights EXCEPT ![active] = Absent]
  /\ active' = NoDay
  /\ rows' = [rows EXCEPT ![active] = "LANDED"]
  /\ UNCHANGED <<today, truth, alerts, todo, crashes, rebuilds, history>>

(* _rebuild_from_history(): the flight is forgotten, its rows are deleted  *)
(* and its history is replayed, in one transaction.  The history may begin *)
(* on an earlier day, and hold earlier flights of the serial (olds), which *)
(* the replay lands without recording them.                                *)
RowsKept(d) == rows
RowsWithout(d) == [rows EXCEPT ![d] = "none"]
AlertsErased(d) == [alerts EXCEPT ![d] = {}]
AlertsWithout(d) == alerts

Rebuild(n, olds, l) ==
  /\ Free
  /\ InAir(Present)
  /\ rebuilds < MaxRebuilds
  /\ rebuilds' = rebuilds + 1
  /\ n <= today
  /\ \E m \in olds \cup {n} : m <= active
  /\ LET cleared == [flights EXCEPT ![active] = Absent]
         kept == RowsWithout(active)
         later == n > active \/ active \in olds  \* the last flight is another one
     IN /\ flights' = [d \in Days |-> CASE d = n -> l
                                        [] d \in olds -> Down
                                        [] OTHER -> cleared[d]]
        /\ rows' = [d \in Days |-> CASE d = n -> RowOf(l)
                                     [] d \in olds -> "LANDED"
                                     [] OTHER -> kept[d]]
        /\ inbounds' = IF later THEN 0 ELSE inbounds
        /\ shifted' = (~later /\ (shifted \/ n # active))
        /\ wiped' = (wiped /\ ~later)
  /\ alerts' = AlertsWithout(active)
  /\ active' = n
  /\ reused' = reused \cup {d \in olds \cup {n} :
                             \/ d # active /\ rows[d] # "none"
                             \/ truth[d] # "none" \/ "LANDED" \in alerts[d]}
  /\ UNCHANGED <<today, truth, crashes>>

(* The replay reaches its end, and its outcome is announced.               *)
RebuildDone(n, olds, l) ==
  /\ Rebuild(n, olds, l)
  /\ todo' = CASE l = Down -> LandingWork(n, "telemetry")
               [] l = Airborne("DESCENT") -> <<Do("inbound", n)>>
               [] OTHER -> <<>>
  /\ UNCHANGED torn

(* It raises on the way: what was replayed is committed, nothing is        *)
(* announced, and apply_backfills() goes on without it.                    *)
RebuildBreaks(n, olds, l) ==
  /\ Rebuild(n, olds, l)
  /\ todo' = <<>>
  /\ torn' = torn \cup {active, n}

(* It raises on the first frame of the history: no flight is left.         *)
RebuildLoses ==
  /\ Free
  /\ InAir(Present)
  /\ rebuilds < MaxRebuilds
  /\ rebuilds' = rebuilds + 1
  /\ flights' = [flights EXCEPT ![active] = Absent]
  /\ rows' = RowsWithout(active)
  /\ alerts' = AlertsWithout(active)
  /\ active' = NoDay
  /\ torn' = torn \cup {active}
  /\ UNCHANGED <<today, truth, todo, crashes, reused, inbounds, shifted, wiped>>

-----------------------------------------------------------------------------
(* The commits that follow, one at a time.                                 *)

Doing(op) == ~Free /\ Head(todo).op = op
Key == Head(todo).day
Done == todo' = Tail(todo)

(* store.retract_landing()                                                 *)
Retract ==
  /\ Doing("retract")
  /\ truth' = [truth EXCEPT ![Key] = "none"]
  /\ alerts' = [alerts EXCEPT ![Key] = @ \ {"LANDED"}]
  /\ Done
  /\ UNCHANGED <<today, memory, rows, crashes, rebuilds, history>>

(* _record_landing(): refused when too little of a descent was seen.       *)
RecordLanding(refused) ==
  /\ Doing("record")
  /\ truth' = IF refused THEN truth ELSE [truth EXCEPT ![Key] = Head(todo).by]
  /\ Done
  /\ UNCHANGED <<today, memory, rows, alerts, crashes, rebuilds, history>>

(* handle_landed(): to whoever is near, or was told INBOUND.               *)
NearOnly(inside) == inside
Concerned(inside) == inside \/ "INBOUND" \in alerts[Key]

NotifyLanded(inside) ==
  /\ Doing("notify")
  /\ alerts' = IF Concerned(inside)
               THEN [alerts EXCEPT ![Key] = @ \cup {"LANDED"}] ELSE alerts
  /\ Done
  /\ UNCHANGED <<today, memory, rows, truth, crashes, rebuilds, history>>

(* handle_prediction(), when a prediction is due and lies within reach.    *)
NotifyInbound(matches) ==
  /\ Doing("inbound")
  /\ IF matches /\ "INBOUND" \notin alerts[Key]
     THEN /\ alerts' = [alerts EXCEPT ![Key] = @ \cup {"INBOUND"}]
          /\ inbounds' = Min2(inbounds + 1)
     ELSE UNCHANGED <<alerts, inbounds>>
  /\ Done
  /\ UNCHANGED <<today, memory, rows, truth, crashes, rebuilds, reused, torn, shifted, wiped>>

(* _refine_timeout_landing(): the truth row is read, then written.         *)
Refine(better) ==
  /\ Doing("refine")
  /\ todo' = IF better /\ truth[Key] # "none"
             THEN <<Do("rerecord", Key)>> \o Tail(todo) ELSE Tail(todo)
  /\ UNCHANGED <<today, memory, store, crashes, rebuilds, history>>

Rerecord ==
  /\ Doing("rerecord")
  /\ truth' = [truth EXCEPT ![Key] = "timeout"]
  /\ Done
  /\ UNCHANGED <<today, memory, rows, alerts, crashes, rebuilds, history>>

-----------------------------------------------------------------------------
(* Everything that may come between two commits.                           *)

(* clear_alerts() of the web thread: all but the flights in the air.       *)
ClearAlerts ==
  /\ alerts' = [d \in Days |-> IF rows[d] \in InAirStates THEN alerts[d] ELSE {}]
  /\ wiped' = (wiped \/ \E d \in Days : alerts'[d] # alerts[d])
  /\ UNCHANGED <<today, memory, rows, truth, todo, crashes, rebuilds, reused, torn,
                 inbounds, shifted>>

(* clear_accuracy() of the web thread.                                     *)
ClearAccuracy ==
  /\ truth' = [d \in Days |-> "none"]
  /\ UNCHANGED <<today, memory, rows, alerts, todo, crashes, rebuilds, history>>

Midnight ==
  /\ today < LastDay
  /\ today' = today + 1
  /\ UNCHANGED <<memory, store, todo, crashes, rebuilds, history>>

(* The process dies and starts again: load_active() brings back the        *)
(* flights whose row is in the air, the latest of them active.             *)
Crash ==
  /\ crashes < MaxCrashes
  /\ crashes' = crashes + 1
  /\ flights' = [d \in Days |-> IF rows[d] \in InAirStates THEN Airborne(rows[d]) ELSE Absent]
  /\ active' \in {d \in Days \cup {NoDay} :
       IF d = NoDay THEN \A e \in Days : flights'[e] = Absent ELSE flights'[d] # Absent}
  /\ todo' = <<>>
  /\ torn' = torn \cup {todo[i].day : i \in 1..Len(todo)}
  /\ UNCHANGED <<today, store, rebuilds, reused, inbounds, shifted, wiped>>

Consume ==
  \/ \E o \in Heard(Present) : Frame(o)
  \/ \E d \in Days : \E o \in Swept(flights[d]) : Sweep(d, o)
  \/ Drop
  \/ \E n \in Days, olds \in SUBSET Days,
        l \in {Airborne(s) : s \in InAirStates} \cup {Down} :
       (\A m \in olds : m < n) /\ (RebuildDone(n, olds, l) \/ RebuildBreaks(n, olds, l))
  \/ RebuildLoses

Commit ==
  \/ Retract
  \/ \E refused \in BOOLEAN : RecordLanding(refused)
  \/ \E inside \in BOOLEAN : NotifyLanded(inside)
  \/ \E matches \in BOOLEAN : NotifyInbound(matches)
  \/ \E better \in BOOLEAN : Refine(better)
  \/ Rerecord

Next ==
  \/ Consume \/ Commit
  \/ ClearAlerts \/ ClearAccuracy \/ Midnight \/ Crash

Spec == Init /\ [][Next]_vars

-----------------------------------------------------------------------------
TypeOK ==
  /\ today \in Days
  /\ flights \in [Days -> Lives]
  /\ active \in Days \cup {NoDay}
  /\ rows \in [Days -> InAirStates \cup {"LANDED", "none"}]
  /\ truth \in [Days -> Detected \cup {"none"}]
  /\ alerts \in [Days -> SUBSET {"INBOUND", "LANDED"}]
  /\ \A i \in 1..Len(todo) : todo[i] \in
       [op: Ops, day: Days, from: {"expired", "provisional", "none"}, by: Detected \cup {"none"}]
  /\ crashes \in 0..MaxCrashes /\ rebuilds \in 0..MaxRebuilds
  /\ reused \subseteq Days /\ torn \subseteq Days
  /\ inbounds \in 0..2 /\ shifted \in BOOLEAN /\ wiped \in BOOLEAN

(* update() never finds an active key without its flight, and no flight    *)
(* in the air is left where neither frames nor sweeps of it can come: it   *)
(* is the active one.                                                      *)
ActiveIsTracked ==
  /\ Tracked => flights[active] # Absent
  /\ \A d \in Days : InAir(flights[d]) => active = d

(* The dashboard and load_active() see as in the air just the flights the  *)
(* tracker has in the air: closing out, dropping and rebuilding leave no   *)
(* row behind.                                                             *)
RowsMatchFlights ==
  \A d \in Days : \/ InAir(flights[d]) /\ rows[d] = flights[d].state
                  \/ ~InAir(flights[d]) /\ rows[d] \notin InAirStates

(* The tracker's key, its flights and the rows of the store agree after    *)
(* every call, however calls were cut short by crashes.                    *)
FlightsAgree == ActiveIsTracked /\ RowsMatchFlights

(* Days whose key served one flight, and whose calls and rebuilds ran to   *)
(* their end.                                                              *)
Undisturbed == Days \ (reused \cup torn)

(* A flight in the air has neither a landing nor a LANDED alert: what a    *)
(* provisional landing left is retracted before anything else is done.     *)
NoLandingInAir ==
  Free => \A d \in Undisturbed :
            InAir(flights[d]) => truth[d] = "none" /\ "LANDED" \notin alerts[d]

(* The landing truth of a flight that is down is of its own detection: a   *)
(* confirmed landing is not overwritten by what a silence left behind, nor *)
(* by pings from the ground.                                               *)
TruthIsOwn ==
  Free => \A d \in Undisturbed :
            /\ flights[d] = Down => truth[d] \in {"telemetry", "none"}
            /\ flights[d] = DownByTimeout => truth[d] \in {"timeout", "none"}

(* A subscriber who was told INBOUND is told where the flight landed,      *)
(* whichever way the landing was found out.                                *)
InboundGetsLanded ==
  Free => \A d \in Undisturbed :
            d = active /\ flights[d] \in {Down, DownByTimeout} /\ "INBOUND" \in alerts[d]
              => "LANDED" \in alerts[d]

(* What RESUMED does for a flight that was closed out in mid-air takes     *)
(* nothing back: no landing was recorded for it, no LANDED alert sent.     *)
RetractsNothing(d) == truth[d] = "none" /\ "LANDED" \notin alerts[d]
ExpiredNeverRecorded ==
  Doing("retract") /\ Head(todo).from = "expired" /\ Key \in Undisturbed
    => RetractsNothing(Key)

(* Retracting does what it must and no more, on flights by themselves: all *)
(* a provisional landing left is taken back, and nothing of another one.   *)
LandingsAreRetracted == NoLandingInAir /\ ExpiredNeverRecorded

(* A flight is announced INBOUND once, as long as it keeps its key and its *)
(* alert rows: sweeps, resumptions, rebuilds and restarts do not repeat it. *)
InboundOncePerKey == inbounds <= 1 \/ shifted \/ wiped

(* What FlightLifecycle makes of a flight in one step, but for the events. *)
Follows(l, m) ==
  \/ \E o \in Heard(l) \cup Swept(l) : m = o.life
  \/ InAir(l) /\ m = Absent
  \/ m = Reloaded(l)

(* The flight that the next frame of the serial meets moves as the tracker *)
(* promises, through all that is committed, cleared and cut short around   *)
(* it: nothing but a rebuild replaces it, and a restart brings back, from  *)
(* the rows, the very flight that was in the air and no other.             *)
PresentFollowsLifecycle ==
  [][/\ crashes' # crashes => Present' = Reloaded(Present)
     /\ rebuilds' = rebuilds => Follows(Present, Present')]_vars

-----------------------------------------------------------------------------
(* What the source says of all flights, and does not hold of all.          *)

(* app.py, process_frame: retracting is a "no-op for a resumed EXPIRED     *)
(* flight, which never recorded either" - whatever used the key before.    *)
ResumedExpiredNeverRecorded ==
  Doing("retract") /\ Head(todo).from = "expired" => RetractsNothing(Key)

(* store.py, delete_flight: the alert rows of a rebuilt flight are kept,   *)
(* since "deleting an alert row would re-send its push".                   *)
RebuildKeepsInbound == inbounds <= 1 \/ wiped
=============================================================================
