------------------------------ MODULE Dashboard ------------------------------
(***************************************************************************)
(* What an open page of the dashboard shows.  The daemon commits a flight, *)
(* its track, predictions and landing one by one; each commit rings names  *)
(* at the page (how they get there is EventBus's matter), the page fetches *)
(* the views a name stands for, the server answers a fetch with several    *)
(* queries, commits may come between them, and answers overtake each       *)
(* other.  One flight and one view of it are followed.                     *)
(***************************************************************************)
EXTENDS SequencesExt

CONSTANTS
  Views,       \* the views a behaviour may be about
  Versions,    \* distinct contents of a table, but for None
  MaxFetches,  \* bound: fetches of the view that run at a time
  MaxWrites    \* bound: commits

None == "none"

ASSUME DashboardAssumption ==
  /\ Views \subseteq {"map", "flights", "accuracy", "history", "alerts"}
  /\ None \notin Versions
  /\ {MaxFetches, MaxWrites} \subseteq Nat /\ MaxFetches > 0

VARIABLES
  view,     \* the view this behaviour is about
  db,       \* the tables: the flight's row, and what there is for it
  job,      \* what the daemon commits next for the flight
  up,       \* the page's EventSource is open
  bells,    \* names on their way to it that have the view fetched
  fetches,  \* running fetches in the order they began: the answers so far
  page,     \* what the view shows
  open,     \* the history panel is open; other views always are
  flawed,   \* history: the page shows an overtaken answer, or a fetch failed
  deaf,     \* history: the panel's data changed and it was not fetched for that
  writes    \* commits so far

dashVars == <<view, db, job, up, bells, fetches, page, open, flawed, deaf, writes>>

Tables == {"track", "path", "pred", "truth", "sub", "alert"}
Content == Versions \cup {None}
InTheAir(d) == d.row = "air"
IsDown(d) == d.row = "down"

-----------------------------------------------------------------------------
(* The server's side of a view: its queries in their order, and the page   *)
(* made of their answers.                                                  *)

MapData == <<"rows", "tracks", "paths", "latest", "landings", "subs">>
FlightList == <<"rows", "series">>
FlightHistory == <<"flight", "series", "landings", "points">>
Accuracy == <<"landings", "series">>
AlertPage == <<"items", "total">>
Queries(v) ==
  CASE v = "map" -> MapData
    [] v = "flights" -> FlightList
    [] v = "history" -> FlightHistory
    [] v = "accuracy" -> Accuracy
    [] v = "alerts" -> AlertPage

(* The queries for active flights join the row as it is when they run.     *)
Joined(d, table) == IF InTheAir(d) THEN d[table] ELSE None
Answer(q, d) ==
  CASE q = "rows" -> IF InTheAir(d) THEN d.row ELSE None
    [] q = "flight" -> d.row
    [] q = "tracks" -> Joined(d, "track")
    [] q = "paths" -> Joined(d, "path")
    [] q = "latest" -> Joined(d, "pred")
    [] q = "series" -> d.pred
    [] q = "landings" -> d.truth
    [] q = "points" -> d.track
    [] q = "subs" -> d.sub
    [] q \in {"items", "total"} -> d.alert

(* Rows without a prediction are listed, landings without one not scored;  *)
(* the track is sent of landed flights.                                    *)
Shown(v, a) ==
  CASE v = "flights" -> IF a[1] = None THEN <<>> ELSE a
    [] v = "accuracy" -> IF None \in {a[1], a[2]} THEN <<>> ELSE a
    [] v = "history" -> <<a[1], a[2], a[3], IF a[1] = "down" THEN a[4] ELSE None>>
    [] OTHER -> a

Fresh(v, d) == Shown(v, [i \in DOMAIN Queries(v) |-> Answer(Queries(v)[i], d)])

-----------------------------------------------------------------------------
(* The page's side: EVENT_REFETCH, the names that have the view fetched.   *)

FlightsOnly(v) == IF v = "map" THEN {"flights", "subscribers"} ELSE {"flights"}
Refetch(v) ==
  CASE v = "map" -> {"flights", "accuracy", "subscribers"}
    [] v = "flights" -> {"flights", "accuracy"}
    [] v = "accuracy" -> {"accuracy"}
    [] v = "history" -> {"flights"}
    [] v = "alerts" -> {"alerts"}

(* A landed flight with its landing is not fetched again.                  *)
Final == view = "history" /\ page[1] = "down" /\ page[3] # None
Started == Append(fetches, [got |-> <<>>, late |-> FALSE])
Refresh == fetches' = (IF open /\ ~Final THEN Started ELSE fetches)
           /\ deaf' = (deaf \/ Final)

DashInit ==
  /\ view \in Views
  /\ db \in {[row |-> None, track |-> None, path |-> None, pred |-> None,
              truth |-> None, sub |-> None, alert |-> None]}
        \cup {[row |-> "air", track |-> v, path |-> v, pred |-> v,
               truth |-> None, sub |-> v, alert |-> v] : v \in Versions}
        \cup {[row |-> "down", track |-> v, path |-> v, pred |-> v,
               truth |-> v, sub |-> v, alert |-> v] : v \in Versions}
  /\ job = None /\ up = TRUE /\ bells = {} /\ fetches = <<>>
  /\ page = Fresh(view, db)
  /\ open = (view = "history" => db.row # None)
  /\ flawed = FALSE /\ deaf = FALSE /\ writes = 0

DashTypeOK ==
  /\ view \in Views
  /\ DOMAIN db = {"row"} \cup Tables
  /\ db.row \in {None, "air", "down"} /\ \A t \in Tables : db[t] \in Content
  /\ job \in {None, "path", "truth", "retract"}
  /\ {up, open, flawed, deaf} \subseteq BOOLEAN
  /\ bells \subseteq {"flights", "accuracy", "alerts", "subscribers"}
  /\ Len(fetches) <= MaxFetches
  /\ \A i \in DOMAIN fetches : Len(fetches[i].got) <= Len(Queries(view))
  /\ Len(page) \in {0, Len(Queries(view))}
  /\ writes \in 0..MaxWrites

-----------------------------------------------------------------------------
(* The commits.  Each rings its names at the page, if that listens.        *)

Commit(new, names, next) ==
  /\ writes < MaxWrites /\ writes' = writes + 1
  /\ db' = new /\ job' = next
  /\ bells' = IF up THEN bells \cup (names \cap Refetch(view)) ELSE bells
  /\ deaf' = /\ view = "history" /\ names \cap Refetch(view) = {}
             /\ deaf \/ Fresh(view, new) # Fresh(view, db)
  /\ UNCHANGED <<view, up, fetches, page, open, flawed>>

(* A flight begins; a breadcrumb of its track is kept; a prediction is     *)
(* saved and then, by itself, the path to it.                              *)
BeginFlight == db.row = None /\ job = None /\ Commit([db EXCEPT !.row = "air"], {"flights"}, None)
KeepTrack(v) ==
  InTheAir(db) /\ job = None /\ Commit([db EXCEPT !.track = v], {"flights"}, None)
SavePrediction(v) ==
  InTheAir(db) /\ job = None /\ Commit([db EXCEPT !.pred = v], {"flights"}, "path")
SavePath ==
  job = "path" /\ Commit([db EXCEPT !.path = db.pred], {"flights"}, None)

(* LANDED, or dropped or expired: only the first has a landing recorded.   *)
Land(next) ==
  /\ InTheAir(db) /\ job = None
  /\ Commit([db EXCEPT !.row = "down"], {"flights"}, next)
RecordLanding(v) ==
  /\ \/ job = "truth"
     \/ job = None /\ IsDown(db) /\ db.truth # None
  /\ Commit([db EXCEPT !.truth = v], {"accuracy"}, None)
(* RESUMED: the flight is in the air after all.                            *)
Resume == IsDown(db) /\ job = None /\ Commit([db EXCEPT !.row = "air"], {"flights"}, "retract")
RetractLanding ==
  /\ job = "retract"
  /\ Commit([db EXCEPT !.truth = None, !.alert = None], {"accuracy", "alerts"}, None)
PushAlert(v) == job = None /\ db.row # None /\ Commit([db EXCEPT !.alert = v], {"alerts"}, None)

(* A rebuild from history is one batch; a landing it found is recorded     *)
(* after that.                                                             *)
Rebuild(row, v, next) ==
  /\ InTheAir(db) /\ job = None
  /\ next # None => row = "down"
  /\ Commit([db EXCEPT !.row = row, !.track = v, !.path = None, !.pred = None],
            {"flights"}, next)

(* The web thread, whatever the daemon is doing.                           *)
ClearAccuracy ==
  Commit([db EXCEPT !.truth = None,
                    !.pred = IF IsDown(db) THEN None ELSE @,
                    !.path = IF IsDown(db) THEN None ELSE @], {"accuracy"}, job)
ClearAlerts == ~InTheAir(db) /\ Commit([db EXCEPT !.alert = None], {"alerts"}, job)
SaveSubscriber(v) == Commit([db EXCEPT !.sub = v], {"subscribers"}, job)

Write ==
  \/ \E v \in Versions :
       \/ KeepTrack(v) \/ SavePrediction(v) \/ RecordLanding(v) \/ PushAlert(v)
       \/ \E row \in {"air", "down"}, next \in {None, "truth"} : Rebuild(row, v, next)
  \/ \E v \in Content : SaveSubscriber(v)
  \/ BeginFlight \/ SavePath \/ Resume \/ RetractLanding \/ ClearAccuracy \/ ClearAlerts
  \/ \E next \in {None, "truth"} : Land(next)

-----------------------------------------------------------------------------
(* The page and its fetches.                                               *)

Room == Len(fetches) < MaxFetches
Rest == <<view, db, job, writes>>

Ring(n) ==
  /\ n \in bells /\ bells' = bells \ {n}
  /\ Room /\ Refresh
  /\ UNCHANGED <<Rest, up, page, open, flawed>>
(* The connection is lost, with the names on it; once it is up again, and  *)
(* by two timers, everything is fetched.                                   *)
GoDown ==
  /\ up /\ up' = FALSE /\ bells' = {}
  /\ UNCHANGED <<Rest, fetches, page, open, flawed, deaf>>
ComeUp ==
  /\ ~up /\ Room /\ up' = TRUE /\ Refresh
  /\ UNCHANGED <<Rest, bells, page, open, flawed>>
Timer ==
  /\ Room /\ Refresh
  /\ UNCHANGED <<Rest, up, bells, page, open, flawed>>

Answered(i) == Len(fetches[i].got) = Len(Queries(view))
Query(i) ==
  /\ ~Answered(i)
  /\ fetches' = [fetches EXCEPT ![i].got =
       Append(@, Answer(Queries(view)[Len(@) + 1], db))]
  /\ UNCHANGED <<Rest, up, bells, page, open, flawed, deaf>>

(* Whatever is answered is shown: no answer is known to be an older one.   *)
(* A flight that is gone closes its panel.                                 *)
Ended(i) == [j \in DOMAIN RemoveAt(fetches, i) |->
              [RemoveAt(fetches, i)[j] EXCEPT !.late = @ \/ j < i]]
Show(i) ==
  /\ Answered(i)
  /\ fetches' = Ended(i)
  /\ IF view = "history" /\ fetches[i].got[1] = None
     THEN open' = FALSE /\ UNCHANGED <<page, flawed, deaf>>
     ELSE /\ page' = Shown(view, fetches[i].got)
          /\ flawed' = fetches[i].late
          /\ UNCHANGED <<open, deaf>>
  /\ UNCHANGED <<Rest, up, bells>>
(* No answer came.  The panel is closed; other views stay as they are.     *)
FetchFails(i) ==
  /\ fetches' = Ended(i)
  /\ IF view = "history" THEN open' = FALSE /\ UNCHANGED flawed
     ELSE flawed' = TRUE /\ UNCHANGED open
  /\ UNCHANGED <<Rest, up, bells, page, deaf>>

DashNext ==
  \/ Write
  \/ \E n \in bells : Ring(n)
  \/ GoDown \/ ComeUp \/ Timer
  \/ \E i \in DOMAIN fetches : Query(i) \/ Show(i) \/ FetchFails(i)

DashSpec == DashInit /\ [][DashNext]_dashVars

-----------------------------------------------------------------------------
(* Nothing is on its way to the page.                                      *)
Quiet == up /\ open /\ bells = {} /\ fetches = <<>>

(* A page left alone shows what the store holds, however commits fell      *)
(* between the queries behind it and whichever of them it was told of,     *)
(* unless its last answer was overtaken or lost, until the timer heals     *)
(* that.  Not so the history panel: it is told of rows, tracks and         *)
(* predictions, not of landings, and is final once it shows one.           *)
PageCatchesUp ==
  Quiet /\ ~flawed =>
    \/ page = Fresh(view, db)
    \/ Final \/ deaf
=============================================================================
