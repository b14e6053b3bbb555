---------------------------- MODULE AlertManager ----------------------------
(***************************************************************************)
(* The alerts of one flight key (serial, launch day): INBOUND on the first *)
(* prediction inside a subscriber's circle, UPDATE when the prediction has *)
(* moved, LANDED at the end.  The alerts table is both the history and the *)
(* de-duplication record: the consumer thread reads it, writes it and only *)
(* then pushes; a push is one request, which may fail and is not repeated. *)
(* Between any two of these steps the web thread may clear the rows of     *)
(* finished flights and the process may die.                               *)
(* Landing points lie on a line; subscribers watch circles on it.          *)
(***************************************************************************)
EXTENDS Integers, FiniteSets

CONSTANTS
  Subs,        \* the active subscribers
  Muted,       \* those with notifications off (watch-only)
  Home,        \* Home[s]: where s is
  Radius,      \* radius_km
  Points,      \* landing points
  UpdateMove,  \* update_move_km
  Throttle,    \* update_throttle_seconds
  MaxTime,     \* bound on the clock
  MaxCrashes   \* bound on the crashes of the process

None == -1

ASSUME AlertAssumption ==
  /\ None \notin Subs
  /\ Muted \subseteq Subs
  /\ Points \subseteq Nat
  /\ Home \in [Subs -> Int]
  /\ {Radius, UpdateMove, Throttle, MaxTime, MaxCrashes} \subseteq Nat

VARIABLES
  phase,     \* the flight: falling, landed, or closed out in mid-air
  clock,     \* sonde time, which stamps the alerts
  table,     \* table[s][kind]: the alert row, or NoRow
  job,       \* the call of the consumer thread
  crashes,
  pushes,    \* history: pushes[s][kind], the requests for the row, while it exists
  inbounds,  \* history: INBOUND requests since take-off, counted up to 2
  cleared,   \* history: rows of it were cleared while it was closed out
  told,      \* history: the last point of this flight that reached s, and the
             \*          time of the last UPDATE that did
  unsent,    \* history: subscribers the point in their row did not reach
  landing,   \* history: landing[s], what this call's LANDED to s came to
  inherited  \* history: subscribers with the LANDED row of an earlier flight

history == <<pushes, inbounds, cleared, told, unsent, landing, inherited>>
vars == <<phase, clock, table, job, crashes, history>>

Kinds == {"INBOUND", "UPDATE", "LANDED"}
(* GONE: the tracker no longer knows the flight, its row says LANDED.      *)
Phases == {"DESCENT", "LANDED", "EXPIRED", "GONE"}
NoRow == [at |-> -1, time |-> -1]
Row == [at: Points, time: 0..MaxTime]

Idle == [call |-> "none", at |-> None, todo |-> {}, sub |-> None, step |-> "none", kind |-> "none"]
InCall(name) == job.call = name
Between == job.step = "next"

Distance(a, b) == IF a > b THEN a - b ELSE b - a
Matches(p) == {s \in Subs : Distance(Home[s], p) <= Radius}
HasRow(s, k) == table[s][k] # NoRow
Holders(k) == {s \in Subs : HasRow(s, k)}

Untold == [s \in Subs |-> [at |-> None, update |-> None]]
Unlanded == [s \in Subs |-> "none"]

-----------------------------------------------------------------------------
Init ==
  /\ phase = "DESCENT"
  /\ clock = 0
  /\ table = [s \in Subs |-> [k \in Kinds |-> NoRow]]
  /\ job = Idle
  /\ crashes = 0
  /\ pushes = [s \in Subs |-> [k \in Kinds |-> 0]]
  /\ inbounds = [s \in Subs |-> 0]
  /\ cleared = FALSE
  /\ told = Untold
  /\ unsent = {}
  /\ landing = Unlanded
  /\ inherited = {}

Begin(call, p, ss) ==
  /\ job = Idle
  /\ job' = [Idle EXCEPT !.call = call, !.at = p, !.todo = ss, !.step = "next"]
  /\ UNCHANGED <<clock, table, crashes, history>>

(* handle_prediction(): subscribers whose circle the point is in.          *)
BeginPrediction(p) ==
  /\ phase = "DESCENT"
  /\ Begin("prediction", p, Matches(p) \ Muted)
  /\ UNCHANGED phase

(* handle_landed(): the flight's row is LANDED before the call.            *)
BeginLanded(p) ==
  /\ phase = "DESCENT"
  /\ phase' = "LANDED"
  /\ Begin("landed", p, Subs \ Muted)

Next1(s) == [job EXCEPT !.sub = None, !.todo = @ \ {s}, !.step = "next"]
Write(s, k) == [job EXCEPT !.sub = s, !.step = "record", !.kind = k]

(* _maybe_update(): has the point moved, and is the throttle over?         *)
Reference(s) == IF HasRow(s, "UPDATE") THEN table[s]["UPDATE"] ELSE table[s]["INBOUND"]
MovedSinceInbound(s) == UpdateMove > 0 /\ Distance(job.at, table[s]["INBOUND"].at) >= UpdateMove
Moved(s) == UpdateMove > 0 /\ Distance(job.at, Reference(s).at) >= UpdateMove

AnyTime(s) == TRUE
Unthrottled(s) ==
  HasRow(s, "UPDATE") => clock - table[s]["UPDATE"].time >= Throttle

(* What the next subscriber gets, read from the table.                     *)
DecidePrediction(s) ==
  /\ InCall("prediction") /\ Between /\ s \in job.todo
  /\ job' = CASE ~HasRow(s, "INBOUND") -> Write(s, "INBOUND")
              [] HasRow(s, "INBOUND") /\ Moved(s) /\ Unthrottled(s) -> Write(s, "UPDATE")
              [] OTHER -> Next1(s)
  /\ UNCHANGED <<phase, clock, table, crashes, history>>

InsideOnly(s) == s \in Matches(job.at)
Concerned(s) == s \in Matches(job.at) \/ HasRow(s, "INBOUND")

DecideLanded(s) ==
  /\ InCall("landed") /\ Between /\ s \in job.todo
  /\ job' = IF Concerned(s) THEN Write(s, "LANDED") ELSE Next1(s)
  /\ UNCHANGED <<phase, clock, table, crashes, history>>

StampedAhead == [at |-> job.at, time |-> clock + Throttle]
Stamped == [at |-> job.at, time |-> clock]

(* record_alert() ignores a second row, upsert_alert() replaces it.        *)
Fresh(s, k) == k = "UPDATE" \/ ~HasRow(s, k)

Record ==
  LET s == job.sub
      k == job.kind
  IN /\ job.step = "record"
     /\ IF Fresh(s, k)
        THEN /\ table' = [table EXCEPT ![s][k] = Stamped]
             /\ job' = [job EXCEPT !.step = "send"]
             /\ unsent' = IF k = "LANDED" THEN unsent ELSE unsent \cup {s}
        ELSE /\ job' = Next1(s)
             /\ UNCHANGED <<table, unsent>>
     /\ UNCHANGED <<phase, clock, crashes, pushes, inbounds, cleared, told, landing, inherited>>

(* sink.send(): one request, after the row was committed.  Its failure is  *)
(* logged and swallowed, the call goes on and nothing repeats it.          *)
Send(ok) ==
  LET s == job.sub
      k == job.kind
  IN /\ job.step = "send"
     /\ pushes' = [pushes EXCEPT
          ![s][k] = IF HasRow(s, k) /\ k # "UPDATE" THEN @ + 1 ELSE @]
     /\ inbounds' = [inbounds EXCEPT
          ![s] = IF k = "INBOUND" /\ @ < 2 THEN @ + 1 ELSE @]
     /\ IF ok /\ k # "LANDED"
        THEN /\ told' = [told EXCEPT ![s].at = job.at,
                                     ![s].update = IF k = "UPDATE" THEN clock ELSE None]
             /\ unsent' = unsent \ {s}
        ELSE UNCHANGED <<told, unsent>>
     /\ landing' = [landing EXCEPT
          ![s] = IF k # "LANDED" THEN @ ELSE IF ok THEN "told" ELSE "failed"]
     /\ job' = Next1(s)
     /\ UNCHANGED <<phase, clock, table, crashes, cleared, inherited>>

End ==
  /\ Between /\ job.todo = {}
  /\ job' = Idle
  /\ landing' = Unlanded
  /\ UNCHANGED <<phase, clock, table, crashes, pushes, inbounds, cleared, told, unsent, inherited>>

-----------------------------------------------------------------------------
(* The rest of the system, as far as it touches the table.                 *)

Forgotten(s, ks) ==
  [k \in Kinds |-> IF k \in ks THEN NoRow ELSE table[s][k]]

Delete(ks) ==
  /\ table' = [s \in Subs |-> Forgotten(s, ks)]
  /\ pushes' = [s \in Subs |-> [k \in Kinds |-> IF k \in ks THEN 0 ELSE pushes[s][k]]]

(* process_frame() on RESUMED: retract_landing() deletes the LANDED rows.  *)
Resume ==
  /\ job = Idle
  /\ phase \in {"LANDED", "EXPIRED"}
  /\ phase' = "DESCENT"
  /\ Delete({"LANDED"})
  /\ inherited' = {}
  /\ UNCHANGED <<clock, job, crashes, inbounds, cleared, told, unsent, landing>>

(* The timeout sweep closes the flight out in mid-air: nothing is pushed.  *)
Expire ==
  /\ job = Idle
  /\ phase = "DESCENT"
  /\ phase' = "EXPIRED"
  /\ UNCHANGED <<clock, table, job, crashes, history>>

(* The sweep evicts the flight.                                            *)
Evict ==
  /\ job = Idle
  /\ phase \in {"LANDED", "EXPIRED"}
  /\ phase' = "GONE"
  /\ UNCHANGED <<clock, table, job, crashes, history>>

(* The serial flies again the same day: a new flight under the same key,   *)
(* and under the rows of the one before it.                                *)
Relaunch ==
  /\ job = Idle
  /\ phase \in {"LANDED", "GONE"}
  /\ phase' = "DESCENT"
  /\ inbounds' = [s \in Subs |-> 0]
  /\ cleared' = FALSE
  /\ told' = Untold
  /\ unsent' = Holders("INBOUND")
  /\ inherited' = Holders("LANDED")
  /\ UNCHANGED <<clock, table, job, crashes, pushes, landing>>

(* clear_alerts(), in the web thread, at any moment: a no-op while the     *)
(* flight's row says it is in the air.                                     *)
ClearsAnything == TRUE
Clears == phase # "DESCENT"

ClearAlerts ==
  /\ Clears
  /\ Delete(Kinds)
  /\ cleared' = (cleared \/ phase # "DESCENT")
  /\ inherited' = {}
  /\ UNCHANGED <<phase, clock, job, crashes, inbounds, told, unsent, landing>>

Tick ==
  /\ clock < MaxTime
  /\ job = Idle
  /\ clock' = clock + 1
  /\ UNCHANGED <<phase, table, job, crashes, history>>

(* The process dies; what it committed stays, the call is not resumed, and *)
(* a flight that is not in the air is not reloaded.                        *)
Crash ==
  /\ crashes < MaxCrashes
  /\ crashes' = crashes + 1
  /\ job' = Idle
  /\ phase' = IF phase = "DESCENT" THEN phase ELSE "GONE"
  /\ landing' = Unlanded
  /\ UNCHANGED <<clock, table, pushes, inbounds, cleared, told, unsent, inherited>>

Next ==
  \/ \E p \in Points : BeginPrediction(p) \/ BeginLanded(p)
  \/ \E s \in Subs : DecidePrediction(s) \/ DecideLanded(s)
  \/ Record \/ (\E ok \in BOOLEAN : Send(ok)) \/ End
  \/ Resume \/ Expire \/ Evict \/ Relaunch
  \/ ClearAlerts \/ Tick \/ Crash

Spec == Init /\ [][Next]_vars

-----------------------------------------------------------------------------
TypeOK ==
  /\ phase \in Phases
  /\ clock \in 0..MaxTime
  /\ table \in [Subs -> [Kinds -> Row \cup {NoRow}]]
  /\ job.call \in {"none", "prediction", "landed"}
  /\ job.at \in Points \cup {None}
  /\ job.todo \subseteq Subs
  /\ job.sub \in Subs \cup {None}
  /\ job.step \in {"none", "next", "record", "send"}
  /\ job.kind \in Kinds \cup {"none"}
  /\ crashes \in 0..MaxCrashes
  /\ pushes \in [Subs -> [Kinds -> Nat]]
  /\ inbounds \in [Subs -> 0..2] /\ cleared \in BOOLEAN
  /\ told \in [Subs -> [at: Points \cup {None}, update: 0..MaxTime \cup {None}]]
  /\ unsent \subseteq Subs
  /\ landing \in [Subs -> {"none", "told", "failed"}]
  /\ inherited \subseteq Subs

(* De-duplication: whatever is called, cleared or retracted in between, an *)
(* INBOUND or LANDED row is sent at most one request while it exists.      *)
OncePerRow ==
  \A s \in Subs : \A k \in Kinds : pushes[s][k] <= 1

(* A flight is announced INBOUND once, whatever is cleared in the web      *)
(* thread while it is listed as in the air, and however often it is closed *)
(* out and resumed.                                                        *)
InboundOncePerFlight == \A s \in Subs : inbounds[s] <= 1 \/ cleared

(* No push is repeated: not of a row, nor after the row was deleted.       *)
NothingTwice == OncePerRow /\ InboundOncePerFlight

(* store.py, clear_alerts: "Rows for flights still in the air are kept",   *)
(* for deleting them "would re-send" the INBOUND.  A flight that was only  *)
(* closed out by a silence, and is heard again, is still in the air too.   *)
ClearingResendsNothing == \A s \in Subs : inbounds[s] <= 1

Served(s) == s \notin job.todo /\ job.sub # s

(* Once a prediction is handled, each matching subscriber knows where the  *)
(* sonde comes down, to within the update distance, or had an UPDATE less  *)
(* than the throttle ago.  Otherwise what their row says never reached     *)
(* them (the request failed, the process died, or the row is an earlier    *)
(* flight's), and the point is near the row's, or the row throttles.       *)
KeptPosted ==
  InCall("prediction") =>
    \A s \in Matches(job.at) \ Muted : Served(s) =>
      \/ told[s].at # None /\ Distance(job.at, told[s].at) < UpdateMove
      \/ told[s].update # None /\ clock - told[s].update < Throttle
      \/ /\ s \in unsent /\ HasRow(s, "INBOUND")
         /\ Distance(job.at, Reference(s).at) < UpdateMove \/ ~Unthrottled(s)

(* To whoever was reached the last time an UPDATE is news: its point has   *)
(* moved from the one they were told, and it is not within the throttle of *)
(* their last UPDATE, though rows alone tell the code what they know.      *)
UpdatesAreNews ==
  job.step = "record" /\ job.kind = "UPDATE" /\ job.sub \notin unsent =>
    /\ told[job.sub].at # None
    /\ Distance(job.at, told[job.sub].at) >= UpdateMove
    /\ told[job.sub].update # None => clock - told[job.sub].update >= Throttle

(* Whoever was told a landing point of the flight, or has an INBOUND row,  *)
(* is told where it really landed, even outside their circle: by this call *)
(* of handle_landed(), unless its one request to them failed.  Apart from  *)
(* rows cleared after a close-out, the exception is the LANDED row of an   *)
(* earlier flight under the key, which keeps this landing from being told. *)
LandedCorrects ==
  InCall("landed") =>
    \A s \in Subs \ (Muted \cup inherited) :
      /\ Served(s)
      /\ HasRow(s, "INBOUND") \/ (told[s].at # None /\ ~cleared)
      => landing[s] \in {"told", "failed"}
=============================================================================
