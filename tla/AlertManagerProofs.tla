------------------------- MODULE AlertManagerProofs -------------------------
(***************************************************************************)
(* Proofs, for every set of subscribers, points and radii, any clock, any  *)
(* number of crashes and any requests failing, that no alert is sent for   *)
(* twice, that an update tells of a point that moved, and that whoever was *)
(* told of a landing point is told of each that replaces it, unless the    *)
(* request to them failed.                                                 *)
(***************************************************************************)
EXTENDS AlertManager, TLAPS

Jobs == [call: {"none", "prediction", "landed"}, at: Points \cup {None},
         todo: SUBSET Subs, sub: Subs \cup {None},
         step: {"none", "next", "record", "send"}, kind: Kinds \cup {"none"}]

(* A call has a point; while a row is written and pushed it is someone's.  *)
JobTyped ==
  /\ job \in Jobs
  /\ job.step # "none" => job.at \in Points
  /\ job.step \in {"record", "send"} => job.sub \in Subs /\ job.kind \in Kinds

(* Only a row that exists has been pushed, and not the one about to be.    *)
PushedRowsExist ==
  \A s \in Subs : \A k \in Kinds :
    /\ pushes[s][k] \in {0, 1}
    /\ pushes[s][k] = 1 => HasRow(s, k) /\ k # "UPDATE"
    /\ job.step = "send" /\ job.sub = s /\ job.kind = k => pushes[s][k] = 0

(* As long as no row of it was cleared while it was closed out, a flight   *)
(* announced INBOUND has the row, and a row about to be pushed is there.   *)
AnnouncedRowsExist == ~cleared =>
  \A s \in Subs :
    /\ inbounds[s] \in {0, 1}
    /\ inbounds[s] = 1 => HasRow(s, "INBOUND")
    /\ job.step = "send" /\ job.sub = s => HasRow(s, job.kind)
    /\ job.step = "send" /\ job.sub = s /\ job.kind = "INBOUND" => inbounds[s] = 0

IInv == TypeOK /\ JobTyped /\ PushedRowsExist /\ AnnouncedRowsExist

Tellings == [Subs -> [at: Points \cup {None}, update: 0..MaxTime \cup {None}]]
Tables == [Subs -> [Kinds -> Row \cup {NoRow}]]

-----------------------------------------------------------------------------
LEMMA InitHolds == Init => IInv
<1> SUFFICES ASSUME Init PROVE IInv
  OBVIOUS
<1>1. TypeOK
  <2>1. 0 \in 0..MaxTime /\ 0 \in 0..MaxCrashes /\ 0 \in 0..2 /\ None \in Points \cup {None}
    BY AlertAssumption
  <2>2. table \in [Subs -> [Kinds -> Row \cup {NoRow}]] /\ pushes \in [Subs -> [Kinds -> Nat]]
    BY DEF Init
  <2>3. told \in [Subs -> [at: Points \cup {None}, update: 0..MaxTime \cup {None}]]
        /\ landing \in [Subs -> {"none", "told", "failed"}]
    BY <2>1 DEF Init, Untold, Unlanded
  <2>4. inbounds \in [Subs -> 0..2]
    BY <2>1 DEF Init
  <2> QED  BY <2>1, <2>2, <2>3, <2>4 DEF Init, TypeOK, Phases, Idle
<1>2. JobTyped
  BY DEF Init, JobTyped, Jobs, Idle
<1>3. PushedRowsExist /\ AnnouncedRowsExist
  BY DEF Init, PushedRowsExist, AnnouncedRowsExist, Idle
<1> QED  BY <1>1, <1>2, <1>3 DEF IInv

(* The rest of the type invariant.                                         *)
Rest ==
  /\ phase \in Phases /\ clock \in 0..MaxTime /\ table \in Tables
  /\ crashes \in 0..MaxCrashes
  /\ pushes \in [Subs -> [Kinds -> Nat]]
  /\ inbounds \in [Subs -> 0..2] /\ cleared \in BOOLEAN
  /\ told \in Tellings
  /\ unsent \subseteq Subs
  /\ landing \in [Subs -> {"none", "told", "failed"}]
  /\ inherited \subseteq Subs

LEMMA TypeFromRest == Rest /\ JobTyped <=> TypeOK /\ JobTyped
BY DEF Rest, JobTyped, Jobs, TypeOK, Tables, Tellings

(* The call goes on to the next subscriber, or to a row of one.            *)
LEMMA JobForms ==
  ASSUME JobTyped, job.step # "none"
  PROVE  \A s \in Subs : \A k \in Kinds :
    /\ Next1(s) \in Jobs /\ Next1(s).step = "next" /\ Next1(s).at \in Points
    /\ Write(s, k) \in Jobs /\ Write(s, k).step = "record" /\ Write(s, k).at \in Points
    /\ Write(s, k).sub = s /\ Write(s, k).kind = k
BY DEF JobTyped, Jobs, Next1, Write

-----------------------------------------------------------------------------
(* A step that leaves the rows and what was pushed of them alone, and is   *)
(* not about to push.                                                      *)
LEMMA QuietKeeps ==
  ASSUME IInv, JobTyped', Rest', job'.step # "send",
         UNCHANGED <<table, pushes, inbounds, cleared>>
  PROVE  IInv'
<1>1. PushedRowsExist' /\ AnnouncedRowsExist'
  BY DEF IInv, PushedRowsExist, AnnouncedRowsExist, HasRow
<1> QED  BY <1>1, TypeFromRest, PTL DEF IInv

LEMMA BeginKeeps ==
  ASSUME IInv, NEW p \in Points, BeginPrediction(p) \/ BeginLanded(p)
  PROVE  IInv'
<1>1. PICK ss \in SUBSET Subs :
        job' = [Idle EXCEPT !.call = job'.call, !.at = p, !.todo = ss, !.step = "next"]
                                /\ job'.call \in {"prediction", "landed"}
  <2>1. CASE BeginPrediction(p)
    <3>1. Matches(p) \ Muted \in SUBSET Subs
      BY DEF Matches
    <3>2. job' = [Idle EXCEPT !.call = "prediction", !.at = p, !.todo = Matches(p) \ Muted,
                             !.step = "next"]
      BY <2>1 DEF BeginPrediction, Begin
    <3> QED  BY <3>1, <3>2 DEF Idle
  <2>2. CASE BeginLanded(p)
    <3>1. job' = [Idle EXCEPT !.call = "landed", !.at = p, !.todo = Subs \ Muted, !.step = "next"]
      BY <2>2 DEF BeginLanded, Begin
    <3> QED  BY <3>1 DEF Idle
  <2> QED  BY <2>1, <2>2
<1>2. JobTyped' /\ job'.step # "send"
  BY <1>1 DEF JobTyped, Jobs, Idle
<1>3. Rest'
  BY TypeFromRest DEF IInv, BeginPrediction, BeginLanded, Begin, history, Rest, Phases
<1> QED  BY <1>2, <1>3, QuietKeeps DEF BeginPrediction, BeginLanded, Begin, history

LEMMA DecideKeeps ==
  ASSUME IInv, NEW s \in Subs, DecidePrediction(s) \/ DecideLanded(s)
  PROVE  IInv'
<1>1. job.step = "next"
  BY DEF DecidePrediction, DecideLanded, Between
<1>2. job' = Next1(s) \/ \E k \in Kinds : job' = Write(s, k)
  BY DEF DecidePrediction, DecideLanded, Kinds
<1>3. JobTyped' /\ job'.step # "send"
  <2>1. JobTyped /\ job.step # "none"
    BY <1>1 DEF IInv
  <2>2. CASE job' = Next1(s)
    <3>1. Next1(s) \in Jobs /\ Next1(s).step = "next" /\ Next1(s).at \in Points
      BY <2>1, JobForms DEF Kinds
    <3> QED  BY <2>2, <3>1 DEF JobTyped
  <2>3. ASSUME NEW k \in Kinds, job' = Write(s, k)
        PROVE  JobTyped' /\ job'.step # "send"
    <3>1. /\ Write(s, k) \in Jobs /\ Write(s, k).step = "record" /\ Write(s, k).at \in Points
          /\ Write(s, k).sub = s /\ Write(s, k).kind = k
      BY <2>1, JobForms
    <3> QED  BY <2>3, <3>1 DEF JobTyped
  <2> QED  BY <1>2, <2>2, <2>3
<1>4. Rest'
  BY TypeFromRest DEF IInv, DecidePrediction, DecideLanded, history, Rest
<1> QED  BY <1>3, <1>4, QuietKeeps DEF DecidePrediction, DecideLanded, history

(* A row that is written fresh was not pushed; the flight that gets a      *)
(* fresh INBOUND was not announced.                                        *)
LEMMA RecordKeeps ==
  ASSUME IInv, Record
  PROVE  IInv'
<1> DEFINE s == job.sub
           k == job.kind
<1>1. JobTyped /\ Rest
  BY TypeFromRest DEF IInv
<1>2. s \in Subs /\ k \in Kinds /\ job.step = "record"
  BY <1>1 DEF Record, JobTyped
<1>3. CASE ~Fresh(s, k)
  <2>1. job' = Next1(s) /\ UNCHANGED <<table, unsent>>
    BY <1>3 DEF Record
  <2>2. JobTyped' /\ job'.step # "send"
    BY <1>1, <1>2, <2>1, JobForms DEF JobTyped
  <2>3. Rest'
    BY <1>1, <2>1 DEF Record, Rest
  <2> QED  BY <2>1, <2>2, <2>3, QuietKeeps DEF Record
<1>4. CASE Fresh(s, k)
  <2>1. /\ table' = [table EXCEPT ![s][k] = Stamped]
        /\ job' = [job EXCEPT !.step = "send"]
        /\ unsent' \subseteq unsent \cup {s}
        /\ UNCHANGED <<phase, clock, crashes, pushes, inbounds, cleared, told, landing, inherited>>
    BY <1>4 DEF Record
  <2>2. Stamped \in Row /\ Stamped # NoRow
    BY <1>1, <1>2, AlertAssumption DEF Stamped, Row, NoRow, JobTyped, Rest
  <2>3. /\ table' \in Tables
        /\ table'[s][k] # NoRow
        /\ \A v \in Subs : \A j \in Kinds : v # s \/ j # k => table'[v][j] = table[v][j]
    BY <1>1, <1>2, <2>1, <2>2 DEF Tables, Rest
  <2>4. JobTyped' /\ job'.sub = s /\ job'.kind = k /\ job'.step = "send"
    BY <1>1, <1>2, <2>1 DEF JobTyped, Jobs
  <2>5. Rest'
    BY <1>1, <1>2, <2>1, <2>3 DEF Rest
  <2>6. PushedRowsExist'
    BY <1>2, <1>4, <2>1, <2>3, <2>4 DEF IInv, PushedRowsExist, HasRow, Fresh
  <2>7. AnnouncedRowsExist'
    BY <1>2, <1>4, <2>1, <2>3, <2>4 DEF IInv, AnnouncedRowsExist, HasRow, Fresh, Kinds
  <2> QED  BY <2>4, <2>5, <2>6, <2>7, TypeFromRest, PTL DEF IInv
<1> QED  BY <1>3, <1>4

LEMMA SendKeeps ==
  ASSUME IInv, NEW ok \in BOOLEAN, Send(ok)
  PROVE  IInv'
<1> DEFINE s == job.sub
           k == job.kind
<1>1. JobTyped /\ Rest
  BY TypeFromRest DEF IInv
<1>2. s \in Subs /\ k \in Kinds /\ job.step = "send"
  BY <1>1 DEF Send, JobTyped
<1>3. JobTyped' /\ job'.step = "next"
  BY <1>1, <1>2, JobForms DEF JobTyped, Send
<1>4. /\ \A v \in Subs : \A j \in Kinds : v # s \/ j # k => pushes'[v][j] = pushes[v][j]
      /\ pushes'[s][k] = IF HasRow(s, k) /\ k # "UPDATE" THEN pushes[s][k] + 1 ELSE pushes[s][k]
      /\ pushes' \in [Subs -> [Kinds -> Nat]]
  BY <1>1, <1>2 DEF Send, Rest
<1>5. /\ \A v \in Subs : v # s => inbounds'[v] = inbounds[v]
      /\ inbounds'[s] = IF k = "INBOUND" /\ inbounds[s] < 2 THEN inbounds[s] + 1 ELSE inbounds[s]
      /\ inbounds' \in [Subs -> 0..2]
  <2> DEFINE n == IF k = "INBOUND" /\ inbounds[s] < 2 THEN inbounds[s] + 1 ELSE inbounds[s]
  <2>1. inbounds[s] \in 0..2 /\ inbounds \in [Subs -> 0..2]
    BY <1>1, <1>2 DEF Rest
  <2>2. n \in 0..2
    BY <2>1
  <2>3. inbounds' = [inbounds EXCEPT ![s] = n]
    BY DEF Send
  <2> HIDE DEF n
  <2>4. inbounds' \in [Subs -> 0..2] /\ inbounds'[s] = n
        /\ \A v \in Subs : v # s => inbounds'[v] = inbounds[v]
    BY <1>2, <2>1, <2>2, <2>3
  <2> QED  BY <2>4 DEF n
<1>6. told' \in Tellings
  <2>1. CASE ok /\ k # "LANDED"
    <3> DEFINE u == IF k = "UPDATE" THEN clock ELSE None
    <3>1. told[s] \in [at: Points \cup {None}, update: 0..MaxTime \cup {None}]
          /\ job.at \in Points /\ clock \in 0..MaxTime /\ told \in Tellings
      BY <1>1, <1>2 DEF Rest, JobTyped, Tellings
    <3>2. u \in 0..MaxTime \cup {None}
      BY <3>1
    <3>3. told' = [told EXCEPT ![s] = [told[s] EXCEPT !.at = job.at, !.update = u]]
      BY <1>2, <2>1, <3>1 DEF Send, Tellings
    <3> HIDE DEF u
    <3>4. [told[s] EXCEPT !.at = job.at, !.update = u]
            \in [at: Points \cup {None}, update: 0..MaxTime \cup {None}]
      BY <3>1, <3>2
    <3> QED  BY <1>2, <3>1, <3>3, <3>4 DEF Tellings
  <2>2. CASE ~(ok /\ k # "LANDED")
    BY <1>1, <2>2 DEF Send, Rest
  <2> QED  BY <2>1, <2>2
<1>7. UNCHANGED <<phase, clock, table, crashes, cleared, inherited>> /\ unsent' \subseteq unsent
      /\ landing' \in [Subs -> {"none", "told", "failed"}]
  BY <1>1, <1>2 DEF Send, Rest
<1>8. Rest'
  BY <1>1, <1>4, <1>5, <1>6, <1>7 DEF Rest
<1>9. PushedRowsExist'
  BY <1>2, <1>3, <1>4, <1>7 DEF IInv, PushedRowsExist, HasRow
<1>10. AnnouncedRowsExist'
  BY <1>2, <1>3, <1>5, <1>7 DEF IInv, AnnouncedRowsExist, HasRow
<1> QED  BY <1>3, <1>8, <1>9, <1>10, TypeFromRest, PTL DEF IInv

(* A call ends; the flight moves on between calls; the process dies.       *)
LEMMA AroundKeeps ==
  ASSUME IInv, End \/ Expire \/ Evict \/ Tick \/ Crash
  PROVE  IInv'
<1>1. JobTyped /\ Rest
  BY TypeFromRest DEF IInv
<1>2. job' = Idle /\ UNCHANGED <<table, pushes, inbounds, cleared>>
  BY DEF End, Expire, Evict, Tick, Crash, history
<1>3. JobTyped' /\ job'.step # "send"
  BY <1>2 DEF Idle, JobTyped, Jobs
<1>4. Rest'
  BY <1>1, AlertAssumption DEF End, Expire, Evict, Tick, Crash, history, Rest, Phases, Unlanded
<1> QED  BY <1>2, <1>3, <1>4, QuietKeeps

LEMMA RelaunchKeeps ==
  ASSUME IInv, Relaunch
  PROVE  IInv'
<1>1. JobTyped /\ Rest
  BY TypeFromRest DEF IInv
<1>2. JobTyped' /\ job'.step = "none"
  BY <1>1 DEF Relaunch, JobTyped, Idle
<1>3. inbounds' \in [Subs -> 0..2] /\ cleared' \in BOOLEAN /\ \A s \in Subs : inbounds'[s] = 0
  <2>1. inbounds' = [s \in Subs |-> 0] /\ cleared' = FALSE
    BY DEF Relaunch
  <2>2. 0 \in 0..2
    OBVIOUS
  <2>3. inbounds' \in [Subs -> 0..2]
    BY <2>1, <2>2
  <2>4. cleared' \in BOOLEAN
    BY <2>1
  <2> QED  BY <2>1, <2>3, <2>4
<1>4. Rest'
  <2>1. told' \in Tellings
    BY DEF Relaunch, Untold, Tellings
  <2>2. unsent' \subseteq Subs /\ inherited' \subseteq Subs
    BY DEF Relaunch, Holders
  <2> QED  BY <1>1, <1>3, <2>1, <2>2 DEF Relaunch, Rest, Phases
<1>5. PushedRowsExist'
  BY DEF Relaunch, IInv, PushedRowsExist, HasRow
<1>6. AnnouncedRowsExist'
  BY <1>2, <1>3 DEF AnnouncedRowsExist
<1> QED  BY <1>2, <1>4, <1>5, <1>6, TypeFromRest, PTL DEF IInv

(* Rows are deleted with the record of their pushes.                       *)
LEMMA DeleteForms ==
  ASSUME Rest, NEW ks \in SUBSET Kinds, Delete(ks)
  PROVE  /\ table' \in Tables /\ pushes' \in [Subs -> [Kinds -> Nat]]
         /\ \A s \in Subs : \A k \in Kinds :
              /\ table'[s][k] = IF k \in ks THEN NoRow ELSE table[s][k]
              /\ pushes'[s][k] = IF k \in ks THEN 0 ELSE pushes[s][k]
BY DEF Delete, Forgotten, Rest, Tables

LEMMA DeleteKeeps ==
  ASSUME IInv, Resume \/ ClearAlerts
  PROVE  IInv'
<1>1. JobTyped /\ Rest
  BY TypeFromRest DEF IInv
<1>2. JobTyped' /\ job' = job
  BY <1>1 DEF Resume, ClearAlerts, JobTyped
<1>3. CASE Resume
  <2>1. /\ table' \in Tables /\ pushes' \in [Subs -> [Kinds -> Nat]]
        /\ \A s \in Subs : \A k \in Kinds :
             /\ table'[s][k] = IF k = "LANDED" THEN NoRow ELSE table[s][k]
             /\ pushes'[s][k] = IF k = "LANDED" THEN 0 ELSE pushes[s][k]
    <3>1. {"LANDED"} \in SUBSET Kinds
      BY DEF Kinds
    <3> QED  BY <1>1, <1>3, <3>1, DeleteForms DEF Resume
  <2>2. job.step = "none"
    BY <1>3 DEF Resume, Idle
  <2>3. Rest'
    BY <1>1, <1>3, <2>1 DEF Resume, Rest, Phases
  <2>4. PushedRowsExist' /\ AnnouncedRowsExist'
    BY <1>2, <1>3, <2>1, <2>2 DEF Resume, IInv, PushedRowsExist, AnnouncedRowsExist, HasRow, Kinds
  <2> QED  BY <1>2, <2>3, <2>4, TypeFromRest, PTL DEF IInv
<1>4. CASE ClearAlerts
  <2>1. /\ table' \in Tables /\ pushes' \in [Subs -> [Kinds -> Nat]]
        /\ \A s \in Subs : \A k \in Kinds : pushes'[s][k] = 0
    BY <1>1, <1>4, DeleteForms DEF ClearAlerts
  <2>2. cleared'
    BY <1>4 DEF ClearAlerts, Clears
  <2>3. Rest'
    BY <1>1, <1>4, <2>1 DEF ClearAlerts, Rest
  <2>4. PushedRowsExist' /\ AnnouncedRowsExist'
    BY <2>1, <2>2 DEF PushedRowsExist, AnnouncedRowsExist
  <2> QED  BY <1>2, <2>3, <2>4, TypeFromRest, PTL DEF IInv
<1> QED  BY <1>3, <1>4

LEMMA StepKeeps == IInv /\ [Next]_vars => IInv'
<1> SUFFICES ASSUME IInv, [Next]_vars PROVE IInv'
  OBVIOUS
<1>1. CASE Next
  BY <1>1, BeginKeeps, DecideKeeps, RecordKeeps, SendKeeps, AroundKeeps, RelaunchKeeps, DeleteKeeps
     DEF Next
<1>2. CASE UNCHANGED vars
  BY <1>2 DEF vars, history, IInv, TypeOK, JobTyped, PushedRowsExist, AnnouncedRowsExist, HasRow
<1> QED  BY <1>1, <1>2

LEMMA Invariance == Spec => []IInv
BY InitHolds, StepKeeps, PTL DEF Spec

-----------------------------------------------------------------------------
(* Every variable of the alerts keeps its type.                            *)
THEOREM AlertTypeCorrect == Spec => []TypeOK
<1>1. IInv => TypeOK
  BY DEF IInv
<1> QED  BY <1>1, Invariance, PTL

(* No INBOUND or LANDED row is pushed twice, and no flight is announced    *)
(* INBOUND twice, though rows are read, written and pushed in steps with   *)
(* clearing, retraction, relaunches and crashes between any two of them;   *)
(* unless rows were cleared while the flight was closed out.               *)
THEOREM AlertsCorrect == Spec => []NothingTwice
<1>1. IInv => OncePerRow
  BY DEF IInv, PushedRowsExist, OncePerRow
<1>2. IInv => InboundOncePerFlight
  BY DEF IInv, TypeOK, AnnouncedRowsExist, InboundOncePerFlight
<1>3. IInv => NothingTwice
  BY <1>1, <1>2 DEF NothingTwice
<1> QED  BY <1>3, Invariance, PTL

-----------------------------------------------------------------------------
(* What a subscriber was told, and what the table says of it.              *)

(* A call writes the rows of its own kind, and between two subscribers it  *)
(* is nobody's; predictions are of a flight in the air, and a landing is   *)
(* of one that is down.                                                    *)
CallFits ==
  /\ job.step = "next" => job.sub = None
  /\ job.step # "none" => job.call # "none"
  /\ job.step \in {"record", "send"} => job.sub \in job.todo
  /\ InCall("prediction") =>
       phase = "DESCENT" /\ (job.step \in {"record", "send"} => job.kind \in {"INBOUND", "UPDATE"})
  /\ InCall("landed") =>
       phase = "LANDED" /\ (job.step \in {"record", "send"} => job.kind = "LANDED")

(* When the last UPDATE was sent, as the rows have it.                     *)
LastUpdate(s) == IF HasRow(s, "UPDATE") THEN table[s]["UPDATE"].time ELSE None

(* The rows of a subscriber tell what reached them last, unless it is      *)
(* still to be sent or did not arrive; and who was told has the row.       *)
RowsTell ==
  \A s \in Subs :
    /\ HasRow(s, "UPDATE") => HasRow(s, "INBOUND")
    /\ HasRow(s, "INBOUND") /\ s \notin unsent =>
         told[s].at = Reference(s).at /\ told[s].update = LastUpdate(s)
    /\ told[s].at # None /\ ~cleared => HasRow(s, "INBOUND")

(* The row being written or pushed by handle_prediction().                 *)
WritingFits ==
  InCall("prediction") =>
    /\ job.step = "record" =>
         IF job.kind = "INBOUND" THEN ~HasRow(job.sub, "INBOUND") ELSE HasRow(job.sub, "INBOUND")
    /\ job.step = "send" =>
         /\ HasRow(job.sub, "INBOUND") /\ job.sub \in unsent
         /\ Reference(job.sub).at = job.at
         /\ LastUpdate(job.sub) = IF job.kind = "INBOUND" THEN None ELSE clock

(* A LANDED row is an earlier flight's until this landing is recorded.     *)
RowsInherited ==
  /\ phase = "DESCENT" => Holders("LANDED") \subseteq inherited
  /\ InCall("landed") =>
       \A s \in job.todo \cap Holders("LANDED") :
         s \in inherited \/ (job.step = "send" /\ job.sub = s)

(* KeptPosted, where updates are not turned off.                           *)
PostedFits == UpdateMove > 0 => KeptPosted

Told == CallFits /\ RowsTell /\ WritingFits /\ RowsInherited
        /\ UpdatesAreNews /\ LandedCorrects /\ PostedFits

-----------------------------------------------------------------------------
(* The fields of the call after each of its steps.                         *)
LEMMA JobFields ==
  ASSUME job \in Jobs
  PROVE  /\ \A s \in Subs :
              /\ Next1(s).call = job.call /\ Next1(s).at = job.at /\ Next1(s).sub = None
              /\ Next1(s).todo = job.todo \ {s} /\ Next1(s).step = "next"
         /\ \A s \in Subs : \A k \in Kinds :
              /\ Write(s, k).call = job.call /\ Write(s, k).at = job.at /\ Write(s, k).sub = s
              /\ Write(s, k).todo = job.todo /\ Write(s, k).step = "record"
              /\ Write(s, k).kind = k
         /\ Idle.call = "none" /\ Idle.step = "none" /\ Idle.sub = None
BY DEF Jobs, Next1, Write, Idle

LEMMA InitTells == Init => Told
<1> SUFFICES ASSUME Init PROVE Told
  OBVIOUS
<1>1. /\ job = Idle /\ Idle.call = "none" /\ Idle.step = "none"
      /\ \A s \in Subs : told[s].at = None
  BY DEF Init, Idle, Untold
<1>2. \A s \in Subs : \A k \in Kinds : ~HasRow(s, k)
  BY DEF Init, HasRow
<1> QED  BY <1>1, <1>2 DEF Told, CallFits, RowsTell, WritingFits, RowsInherited, Holders,
                           UpdatesAreNews, LandedCorrects, PostedFits, KeptPosted, InCall, Kinds

(* Between calls only the rows and what was told matter.                   *)
LEMMA IdleTells ==
  ASSUME RowsTell', RowsInherited', job' = Idle
  PROVE  Told'
<1>1. Idle.call = "none" /\ Idle.step = "none"
  BY DEF Idle
<1>2. CallFits' /\ WritingFits' /\ LandedCorrects' /\ PostedFits' /\ UpdatesAreNews'
  BY <1>1 DEF CallFits, WritingFits, LandedCorrects, PostedFits, KeptPosted, UpdatesAreNews, InCall
<1> QED  BY <1>2 DEF Told

LEMMA AroundTells ==
  ASSUME IInv, Told, End \/ Expire \/ Evict \/ Tick \/ Crash
  PROVE  Told'
<1>1. /\ job' = Idle /\ UNCHANGED <<table, told, unsent, cleared, inherited>>
      /\ phase' = "DESCENT" => phase = "DESCENT"
  BY DEF End, Expire, Evict, Tick, Crash, history
<1>2. RowsTell'
  BY <1>1 DEF Told, RowsTell, HasRow, Reference, LastUpdate
<1>3. Idle.call = "none"
  BY DEF Idle
<1>4. RowsInherited'
  BY <1>1, <1>3 DEF Told, RowsInherited, Holders, HasRow, InCall
<1> QED  BY <1>1, <1>2, <1>4, IdleTells

(* Of the new flight nobody was told, whatever the rows under its key say. *)
LEMMA RelaunchTells ==
  ASSUME IInv, Told, Relaunch
  PROVE  Told'
<1>1. /\ job' = Idle /\ UNCHANGED table
      /\ told' = Untold /\ unsent' = Holders("INBOUND") /\ inherited' = Holders("LANDED")
  BY DEF Relaunch
<1>2. \A s \in Subs : told'[s].at = None
  BY <1>1 DEF Untold
<1>3. RowsTell'
  BY <1>1, <1>2 DEF Told, RowsTell, HasRow, Holders
<1>4. Idle.call = "none"
  BY DEF Idle
<1>5. RowsInherited'
  BY <1>1, <1>4 DEF RowsInherited, Holders, HasRow, InCall
<1> QED  BY <1>1, <1>3, <1>5, IdleTells

(* Nobody is served yet when a call begins.                                *)
LEMMA BeginTells ==
  ASSUME IInv, Told, NEW p \in Points, BeginPrediction(p) \/ BeginLanded(p)
  PROVE  Told'
<1>1. UNCHANGED <<table, clock, crashes, history>> /\ phase = "DESCENT"
  BY DEF BeginPrediction, BeginLanded, Begin
<1>2. \/ /\ job'.call = "prediction" /\ phase' = "DESCENT"
         /\ job'.todo = Matches(p) \ Muted /\ job'.at = p
      \/ job'.call = "landed" /\ job'.todo = Subs \ Muted /\ phase' = "LANDED"
  BY DEF BeginPrediction, BeginLanded, Begin, Idle
<1>3. job'.sub = None /\ job'.step = "next" /\ job'.call # "none"
  BY DEF BeginPrediction, BeginLanded, Begin, Idle
<1>4. CallFits'
  BY <1>2, <1>3 DEF CallFits, InCall
<1>5. RowsTell'
  BY <1>1 DEF Told, RowsTell, HasRow, Reference, LastUpdate, history
<1>6. WritingFits' /\ UpdatesAreNews'
  BY <1>3 DEF WritingFits, UpdatesAreNews
<1>7. RowsInherited'
  <2>1. Holders("LANDED")' \subseteq inherited'
    BY <1>1 DEF Told, RowsInherited, Holders, HasRow, history
  <2> QED  BY <2>1 DEF RowsInherited
<1>8. LandedCorrects'
  BY <1>2, <1>3 DEF LandedCorrects, InCall, Served
<1>9. PostedFits'
  BY <1>1, <1>2 DEF PostedFits, KeptPosted, InCall, Served, Matches
<1> QED  BY <1>4, <1>5, <1>6, <1>7, <1>8, <1>9 DEF Told

(* Who is passed over already knows, or is throttled.                      *)
LEMMA DecidePredictionTells ==
  ASSUME IInv, Told, NEW s \in Subs, DecidePrediction(s)
  PROVE  Told'
<1>1. /\ job \in Jobs /\ job.at \in Points /\ job.step = "next" /\ job.call = "prediction"
      /\ s \in job.todo
  BY DEF IInv, JobTyped, DecidePrediction, Between, InCall
<1>2. /\ UNCHANGED <<phase, clock, table, crashes, pushes, inbounds, cleared, told, unsent, landing,
                     inherited>>
      /\ job.sub = None /\ phase = "DESCENT"
  BY <1>1 DEF DecidePrediction, history, Told, CallFits, InCall
<1>3. \/ job' = Write(s, "INBOUND") /\ ~HasRow(s, "INBOUND")
      \/ job' = Write(s, "UPDATE") /\ HasRow(s, "INBOUND") /\ Moved(s) /\ Unthrottled(s)
      \/ job' = Next1(s) /\ HasRow(s, "INBOUND") /\ ~(Moved(s) /\ Unthrottled(s))
  BY DEF DecidePrediction
<1>4. /\ job'.call = job.call /\ job'.at = job.at
      /\ \/ job' = Next1(s) /\ job'.sub = None /\ job'.todo = job.todo \ {s} /\ job'.step = "next"
         \/ \E k \in {"INBOUND", "UPDATE"} :
              /\ job' = Write(s, k) /\ job'.kind = k /\ job'.sub = s
              /\ job'.todo = job.todo /\ job'.step = "record"
  BY <1>1, <1>3, JobFields DEF Kinds
<1>5. CallFits'
  BY <1>1, <1>2, <1>4 DEF CallFits, InCall
<1>6. RowsTell'
  BY <1>2 DEF Told, RowsTell, HasRow, Reference, LastUpdate
<1>7. WritingFits'
  <2>1. job'.step = "record" => IF job'.kind = "INBOUND" THEN ~HasRow(s, "INBOUND")
                                                         ELSE HasRow(s, "INBOUND")
    BY <1>1, <1>3, <1>4, JobFields DEF Kinds
  <2> QED  BY <1>2, <1>4, <2>1 DEF WritingFits, HasRow
<1>8. \A v \in Subs : v \notin unsent /\ HasRow(v, "INBOUND") =>
        told[v].at = Reference(v).at /\ told[v].update = LastUpdate(v)
  BY DEF Told, RowsTell
<1>9. table[s]["UPDATE"] \in Row \cup {NoRow} /\ table[s]["INBOUND"] \in Row \cup {NoRow}
      /\ clock \in 0..MaxTime
  BY DEF IInv, TypeOK, Kinds
<1>10. HasRow(s, "INBOUND") =>
         Reference(s) \in Row /\ Reference(s).at \in Points /\ Reference(s).at # None
  BY <1>9, AlertAssumption DEF HasRow, Reference, Row, None
<1>11. HasRow(s, "UPDATE") => LastUpdate(s) \in 0..MaxTime /\ LastUpdate(s) # None
  BY <1>9, AlertAssumption DEF HasRow, LastUpdate, Row, None
<1>12. Moved(s) <=> UpdateMove > 0 /\ Distance(job.at, Reference(s).at) >= UpdateMove
  BY DEF Moved
<1>13. UpdatesAreNews'
  <2> SUFFICES ASSUME job'.step = "record", job'.kind = "UPDATE", job'.sub \notin unsent
               PROVE  /\ told[s].at # None
                      /\ Distance(job.at, told[s].at) >= UpdateMove
                      /\ told[s].update # None => clock - told[s].update >= Throttle
                      /\ job'.sub = s
    BY <1>2, <1>4 DEF UpdatesAreNews
  <2>1. HasRow(s, "INBOUND") /\ Moved(s) /\ Unthrottled(s) /\ job'.sub = s
    BY <1>1, <1>3, <1>4, JobFields DEF Kinds
  <2>2. told[s].at = Reference(s).at /\ told[s].update = LastUpdate(s)
    BY <1>8, <2>1
  <2>3. told[s].update # None => clock - told[s].update >= Throttle
    BY <2>1, <2>2 DEF LastUpdate, Unthrottled
  <2> QED  BY <1>10, <1>12, <2>1, <2>2, <2>3
<1>14. RowsInherited' /\ LandedCorrects'
  BY <1>1, <1>2, <1>4 DEF Told, RowsInherited, LandedCorrects, InCall, Holders, HasRow
<1>15. PostedFits'
  <2> DEFINE Knows(v) == \/ told[v].at # None /\ Distance(job.at, told[v].at) < UpdateMove
                         \/ told[v].update # None /\ clock - told[v].update < Throttle
                         \/ /\ v \in unsent /\ HasRow(v, "INBOUND")
                            /\ Distance(job.at, Reference(v).at) < UpdateMove \/ ~Unthrottled(v)
  <2> SUFFICES ASSUME UpdateMove > 0, NEW v \in Matches(job.at) \ Muted, Served(v)'
               PROVE  Knows(v)
    BY <1>2, <1>4 DEF PostedFits, KeptPosted, Matches, HasRow, Reference, Unthrottled
  <2>1. CASE Served(v)
    BY <1>1, <2>1 DEF Told, PostedFits, KeptPosted, InCall
  <2>2. CASE ~Served(v)
    <3>1. v = s /\ job' = Next1(s)
      <4>1. v \in Subs /\ v # None
        BY AlertAssumption DEF Matches
      <4> QED  BY <1>2, <1>4, <2>2, <4>1 DEF Served
    <3>2. HasRow(s, "INBOUND") /\ ~(Moved(s) /\ Unthrottled(s))
      BY <1>1, <1>3, <1>4, <3>1, JobFields DEF Kinds
    <3>3. ~Moved(s) => Distance(job.at, Reference(s).at) < UpdateMove
      <4>1. job.at \in Nat /\ Reference(s).at \in Nat
        BY <1>1, <1>10, <3>2, AlertAssumption
      <4>2. Distance(job.at, Reference(s).at) \in Int
        BY <4>1 DEF Distance
      <4> QED  BY <1>12, <4>2, AlertAssumption
    <3>4. ~Unthrottled(s) => LastUpdate(s) # None /\ clock - LastUpdate(s) < Throttle
      <4> SUFFICES ASSUME ~Unthrottled(s)
                   PROVE  LastUpdate(s) # None /\ clock - LastUpdate(s) < Throttle
        OBVIOUS
      <4>1. HasRow(s, "UPDATE") /\ ~(clock - table[s]["UPDATE"].time >= Throttle)
        BY DEF Unthrottled
      <4>2. LastUpdate(s) = table[s]["UPDATE"].time /\ LastUpdate(s) \in 0..MaxTime
        BY <1>11, <4>1 DEF LastUpdate
      <4> QED  BY <1>9, <1>11, <4>1, <4>2, AlertAssumption
    <3>5. CASE s \in unsent
      BY <3>1, <3>2, <3>3, <3>5
    <3>6. CASE s \notin unsent
      <4>1. told[s].at = Reference(s).at /\ told[s].update = LastUpdate(s)
        BY <1>8, <3>2, <3>6
      <4> QED  BY <1>10, <3>1, <3>2, <3>3, <3>4, <4>1
    <3> QED  BY <3>5, <3>6
  <2> QED  BY <2>1, <2>2
<1> QED  BY <1>5, <1>6, <1>7, <1>13, <1>14, <1>15 DEF Told

(* Who is passed over has no INBOUND to correct.                           *)
LEMMA DecideLandedTells ==
  ASSUME IInv, Told, NEW s \in Subs, DecideLanded(s)
  PROVE  Told'
<1>1. job \in Jobs /\ job.step = "next" /\ job.call = "landed" /\ s \in job.todo
  BY DEF IInv, JobTyped, DecideLanded, Between, InCall
<1>2. /\ UNCHANGED <<phase, clock, table, crashes, cleared, told, unsent, landing, inherited>>
      /\ job.sub = None /\ phase = "LANDED"
  BY <1>1 DEF DecideLanded, history, Told, CallFits, InCall
<1>3. \/ job' = Write(s, "LANDED")
      \/ job' = Next1(s) /\ ~HasRow(s, "INBOUND")
  BY DEF DecideLanded, Concerned
<1>4. /\ job'.call = "landed"
      /\ \/ /\ job'.sub = None /\ job'.todo = job.todo \ {s} /\ job'.step = "next"
            /\ ~HasRow(s, "INBOUND")
         \/ /\ job'.kind = "LANDED" /\ job'.sub = s /\ job'.todo = job.todo
            /\ job'.step = "record"
  BY <1>1, <1>3, JobFields DEF Kinds
<1>5. CallFits' /\ WritingFits' /\ PostedFits' /\ UpdatesAreNews'
  BY <1>1, <1>2, <1>4
     DEF CallFits, WritingFits, PostedFits, KeptPosted, UpdatesAreNews, InCall
<1>6. RowsTell'
  BY <1>2 DEF Told, RowsTell, HasRow, Reference, LastUpdate
<1>7. RowsInherited'
  BY <1>1, <1>2, <1>4 DEF Told, RowsInherited, Holders, HasRow, InCall
<1>8. LandedCorrects'
  <2> SUFFICES ASSUME NEW v \in Subs \ (Muted \cup inherited), Served(v)',
                      HasRow(v, "INBOUND") \/ (told[v].at # None /\ ~cleared)
               PROVE  landing[v] \in {"told", "failed"}
    BY <1>2, <1>4 DEF LandedCorrects, HasRow
  <2>1. v # None /\ HasRow(v, "INBOUND")
    BY AlertAssumption DEF Told, RowsTell
  <2>2. Served(v)
    BY <1>2, <1>4, <2>1 DEF Served
  <2> QED  BY <1>1, <2>2 DEF Told, LandedCorrects, InCall
<1> QED  BY <1>5, <1>6, <1>7, <1>8 DEF Told

(* The row is written, and is then ahead of what was pushed.  Only an      *)
(* earlier flight's LANDED row stands in the way of one.                   *)
LEMMA RecordTells ==
  ASSUME IInv, Told, Record
  PROVE  Told'
<1>0. PICK s \in Subs, k \in Kinds : s = job.sub /\ k = job.kind
  BY DEF Record, IInv, JobTyped
<1>1. /\ job \in Jobs /\ job.at \in Points /\ job.step = "record" /\ s \in job.todo
      /\ clock \in 0..MaxTime /\ table \in Tables /\ unsent \subseteq Subs
  BY <1>0 DEF Record, IInv, JobTyped, TypeOK, Tables, Told, CallFits
<1>2. /\ job.call # "none" /\ job.call \in {"none", "prediction", "landed"}
      /\ job.call = "prediction" =>
           /\ phase = "DESCENT" /\ k \in {"INBOUND", "UPDATE"}
           /\ IF k = "INBOUND" THEN ~HasRow(s, "INBOUND") ELSE HasRow(s, "INBOUND")
      /\ job.call = "landed" => k = "LANDED" /\ phase = "LANDED"
  BY <1>0, <1>1 DEF Told, CallFits, WritingFits, InCall, Jobs
<1>3. UNCHANGED <<phase, clock, crashes, cleared, told, landing, inherited>>
  BY DEF Record
<1>4. CASE ~Fresh(s, k)
  <2>1. job' = Next1(s) /\ UNCHANGED <<table, unsent>>
    BY <1>0, <1>4 DEF Record
  <2>2. k = "LANDED" /\ HasRow(s, "LANDED") /\ job.call = "landed"
    BY <1>2, <1>4 DEF Fresh
  <2>3. /\ job'.call = "landed" /\ job'.sub = None /\ job'.todo = job.todo \ {s}
        /\ job'.step = "next"
    BY <1>1, <2>1, <2>2, JobFields
  <2>4. CallFits' /\ WritingFits' /\ PostedFits' /\ UpdatesAreNews'
    BY <1>2, <1>3, <2>2, <2>3
       DEF CallFits, WritingFits, PostedFits, KeptPosted, UpdatesAreNews, InCall
  <2>5. RowsTell'
    BY <1>3, <2>1 DEF Told, RowsTell, HasRow, Reference, LastUpdate
  <2>6. s \in inherited
    BY <1>1, <2>2 DEF Told, RowsInherited, Holders, InCall
  <2>7. RowsInherited'
    BY <1>1, <1>2, <1>3, <2>1, <2>2, <2>3 DEF Told, RowsInherited, Holders, HasRow, InCall
  <2>8. LandedCorrects'
    BY <1>0, <1>3, <2>1, <2>2, <2>3, <2>6 DEF Told, LandedCorrects, InCall, Served, HasRow
  <2> QED  BY <2>4, <2>5, <2>7, <2>8 DEF Told
<1>5. CASE Fresh(s, k)
  <2>1. /\ table' = [table EXCEPT ![s][k] = Stamped]
        /\ job' = [job EXCEPT !.step = "send"]
        /\ unsent' = IF k = "LANDED" THEN unsent ELSE unsent \cup {s}
    BY <1>0, <1>5 DEF Record
  <2>2. Stamped \in Row /\ Stamped # NoRow /\ Stamped.at = job.at /\ Stamped.time = clock
    BY <1>1, AlertAssumption DEF Stamped, Row, NoRow
  <2>3. /\ job'.call = job.call /\ job'.at = job.at /\ job'.sub = s /\ job'.kind = k
        /\ job'.todo = job.todo /\ job'.step = "send"
    BY <1>0, <1>1, <2>1 DEF Jobs
  <2>4. /\ table'[s][k] = Stamped
        /\ \A v \in Subs : \A j \in Kinds : v # s \/ j # k => table'[v][j] = table[v][j]
    BY <1>1, <2>1 DEF Tables
  <2>5. CallFits' /\ UpdatesAreNews'
    BY <1>1, <1>2, <1>3, <2>3 DEF CallFits, UpdatesAreNews, InCall
  <2>6. \A v \in Subs : HasRow(v, "UPDATE") => HasRow(v, "INBOUND")
    BY DEF Told, RowsTell
  <2>7. \A v \in Subs : v # s \/ k = "LANDED" =>
          /\ HasRow(v, "INBOUND")' <=> HasRow(v, "INBOUND")
          /\ HasRow(v, "UPDATE")' <=> HasRow(v, "UPDATE")
          /\ Reference(v)' = Reference(v) /\ LastUpdate(v)' = LastUpdate(v)
          /\ Unthrottled(v)' <=> Unthrottled(v)
    BY <1>3, <2>4 DEF HasRow, Reference, LastUpdate, Unthrottled, Kinds
  <2>8. k # "LANDED" => HasRow(s, "INBOUND")' /\ s \in unsent'
    BY <1>2, <2>1, <2>2, <2>4 DEF HasRow, Kinds
  <2>9. RowsTell'
    BY <1>3, <2>1, <2>6, <2>7, <2>8 DEF Told, RowsTell
  <2>10. WritingFits'
    <3> SUFFICES ASSUME job.call = "prediction"
                 PROVE  /\ HasRow(s, "INBOUND")' /\ s \in unsent'
                        /\ Reference(s)'.at = job.at
                        /\ LastUpdate(s)' = IF k = "INBOUND" THEN None ELSE clock
      BY <1>3, <2>3 DEF WritingFits, InCall, Reference, LastUpdate, HasRow
    <3>1. CASE k = "INBOUND"
      <4>1. ~HasRow(s, "UPDATE")'
        BY <1>1, <1>2, <2>4, <2>6, <3>1 DEF HasRow, Kinds
      <4> QED  BY <2>2, <2>4, <2>8, <3>1, <4>1 DEF Reference, LastUpdate
    <3>2. CASE k = "UPDATE"
      <4>1. HasRow(s, "UPDATE")'
        BY <2>2, <2>4, <3>2 DEF HasRow
      <4> QED  BY <2>2, <2>4, <2>8, <3>2, <4>1 DEF Reference, LastUpdate
    <3> QED  BY <1>2, <3>1, <3>2
  <2>11. RowsInherited'
    <3>1. CASE job.call = "prediction"
      <4>1. Holders("LANDED")' = Holders("LANDED")
        BY <1>2, <2>4, <3>1 DEF Holders, HasRow, Kinds
      <4> QED  BY <1>3, <2>3, <3>1, <4>1 DEF Told, RowsInherited, InCall
    <3>2. CASE job.call = "landed"
      <4>1. Holders("LANDED")' \subseteq Holders("LANDED") \cup {s}
        BY <2>4 DEF Holders, HasRow, Kinds
      <4> QED  BY <1>1, <1>2, <1>3, <2>3, <3>2, <4>1 DEF Told, RowsInherited, InCall
    <3> QED  BY <1>2, <3>1, <3>2
  <2>12. LandedCorrects'
    <3> SUFFICES ASSUME job.call = "landed", NEW v \in Subs \ (Muted \cup inherited), Served(v)',
                        HasRow(v, "INBOUND")' \/ (told[v].at # None /\ ~cleared)
                 PROVE  landing[v] \in {"told", "failed"}
      BY <1>3, <2>3 DEF LandedCorrects, InCall
    <3>1. HasRow(v, "INBOUND")' <=> HasRow(v, "INBOUND")
      BY <1>2, <2>7
    <3>2. Served(v)
      BY <1>0, <2>3 DEF Served
    <3> QED  BY <3>1, <3>2 DEF Told, LandedCorrects, InCall
  <2>13. PostedFits'
    <3> SUFFICES ASSUME UpdateMove > 0, job.call = "prediction",
                        NEW v \in Matches(job.at) \ Muted, Served(v), v # s
                 PROVE  \/ told[v].at # None /\ Distance(job.at, told[v].at) < UpdateMove
                        \/ told[v].update # None /\ clock - told[v].update < Throttle
                        \/ /\ v \in unsent' /\ HasRow(v, "INBOUND")'
                           /\ \/ Distance(job.at, Reference(v)'.at) < UpdateMove
                              \/ ~Unthrottled(v)'
      BY <1>0, <1>3, <2>3
         DEF PostedFits, KeptPosted, InCall, Served, Matches, Reference, HasRow, Unthrottled
    <3>1. v \in Subs /\ (v \in unsent => v \in unsent')
      BY <2>1 DEF Matches
    <3> QED  BY <2>7, <3>1 DEF Told, PostedFits, KeptPosted, InCall
  <2> QED  BY <2>5, <2>9, <2>10, <2>11, <2>12, <2>13 DEF Told
<1> QED  BY <1>4, <1>5

(* A request that arrives tells the subscriber what the row says; one that *)
(* fails leaves them among the unsent, with the row at the point.          *)
LEMMA SendTells ==
  ASSUME IInv, Told, NEW ok \in BOOLEAN, Send(ok)
  PROVE  Told'
<1>0. PICK s \in Subs, k \in Kinds : s = job.sub /\ k = job.kind
  BY DEF Send, IInv, JobTyped
<1>1. /\ job \in Jobs /\ job.at \in Points /\ job.step = "send" /\ s \in job.todo
      /\ clock \in 0..MaxTime /\ unsent \subseteq Subs
      /\ told \in Tellings /\ landing \in [Subs -> {"none", "told", "failed"}]
  BY <1>0 DEF Send, IInv, JobTyped, TypeOK, Tellings, Told, CallFits
<1>2. /\ job.call # "none" /\ job.call \in {"none", "prediction", "landed"}
      /\ job.call = "prediction" =>
           /\ phase = "DESCENT" /\ k \in {"INBOUND", "UPDATE"}
           /\ HasRow(s, "INBOUND") /\ s \in unsent
           /\ Reference(s).at = job.at
           /\ LastUpdate(s) = IF k = "INBOUND" THEN None ELSE clock
      /\ job.call = "landed" => k = "LANDED" /\ phase = "LANDED"
  BY <1>0, <1>1 DEF Told, CallFits, WritingFits, InCall, Jobs
<1>3. UNCHANGED <<phase, clock, table, crashes, cleared, inherited>> /\ job' = Next1(s)
  BY <1>0 DEF Send
<1>4. /\ job'.call = job.call /\ job'.at = job.at /\ job'.sub = None
      /\ job'.todo = job.todo \ {s} /\ job'.step = "next"
  BY <1>1, <1>3, JobFields
<1>5. /\ \A v \in Subs : v # s => told'[v] = told[v] /\ (v \in unsent' <=> v \in unsent)
      /\ ok /\ k # "LANDED" => told'[s].at = job.at /\ s \notin unsent'
      /\ ok /\ k = "UPDATE" => told'[s].update = clock
      /\ ok /\ k = "INBOUND" => told'[s].update = None
      /\ ~ok \/ k = "LANDED" => UNCHANGED <<told, unsent>>
  <2>1. CASE ok /\ k # "LANDED"
    <3> DEFINE u == IF k = "UPDATE" THEN clock ELSE None
    <3>1. unsent' = unsent \ {s}
          /\ told' = [told EXCEPT ![s] = [told[s] EXCEPT !.at = job.at, !.update = u]]
      BY <1>0, <1>1, <2>1 DEF Send, Tellings
    <3> HIDE DEF u
    <3>2. told'[s].at = job.at /\ told'[s].update = u /\ \A v \in Subs : v # s => told'[v] = told[v]
      BY <1>1, <3>1 DEF Tellings
    <3> QED  BY <2>1, <3>1, <3>2 DEF u
  <2>2. CASE ~(ok /\ k # "LANDED")
    BY <1>0, <2>2 DEF Send
  <2> QED  BY <2>1, <2>2
<1>6. CallFits' /\ WritingFits' /\ UpdatesAreNews'
  BY <1>2, <1>3, <1>4 DEF CallFits, WritingFits, UpdatesAreNews, InCall
<1>7. RowsTell'
  <2> SUFFICES ASSUME NEW v \in Subs
               PROVE  /\ HasRow(v, "UPDATE") => HasRow(v, "INBOUND")
                      /\ HasRow(v, "INBOUND") /\ v \notin unsent' =>
                           told'[v].at = Reference(v).at /\ told'[v].update = LastUpdate(v)
                      /\ told'[v].at # None /\ ~cleared => HasRow(v, "INBOUND")
    BY <1>3 DEF RowsTell, HasRow, Reference, LastUpdate
  <2>1. CASE v # s \/ ~ok \/ k = "LANDED"
    BY <1>5, <2>1 DEF Told, RowsTell
  <2>2. CASE v = s /\ ok /\ k # "LANDED"
    <3>1. job.call = "prediction"
      BY <1>2, <2>2
    <3> QED  BY <1>2, <1>5, <2>2, <3>1 DEF Told, RowsTell, Kinds
  <2> QED  BY <2>1, <2>2
<1>8. RowsInherited'
  BY <1>0, <1>1, <1>2, <1>3, <1>4 DEF Told, RowsInherited, Holders, HasRow, InCall
<1>9. LandedCorrects'
  <2> SUFFICES ASSUME job.call = "landed", NEW v \in Subs \ (Muted \cup inherited), Served(v)',
                      HasRow(v, "INBOUND") \/ (told'[v].at # None /\ ~cleared)
               PROVE  landing'[v] \in {"told", "failed"}
    BY <1>3, <1>4 DEF LandedCorrects, InCall, HasRow
  <2>1. k = "LANDED" /\ told' = told
    BY <1>2, <1>5
  <2>2. CASE v = s
    BY <1>0, <1>1, <2>1, <2>2 DEF Send
  <2>3. CASE v # s
    <3>1. Served(v) /\ landing'[v] = landing[v]
      BY <1>0, <1>1, <1>4, <2>3 DEF Served, Send
    <3> QED  BY <2>1, <3>1 DEF Told, LandedCorrects, InCall
  <2> QED  BY <2>2, <2>3
<1>10. PostedFits'
  <2> SUFFICES ASSUME UpdateMove > 0, job.call = "prediction",
                      NEW v \in Matches(job.at) \ Muted, Served(v)'
               PROVE  \/ told'[v].at # None /\ Distance(job.at, told'[v].at) < UpdateMove
                      \/ told'[v].update # None /\ clock - told'[v].update < Throttle
                      \/ /\ v \in unsent' /\ HasRow(v, "INBOUND")
                         /\ \/ Distance(job.at, Reference(v).at) < UpdateMove
                            \/ ~Unthrottled(v)
    BY <1>3, <1>4
       DEF PostedFits, KeptPosted, InCall, Matches, Reference, HasRow, Unthrottled
  <2>0. Distance(job.at, job.at) = 0 /\ job.at # None
    <3>1. job.at \in Nat
      BY <1>1, AlertAssumption
    <3> QED  BY <3>1 DEF Distance, None
  <2>1. CASE v = s /\ ok
    BY <1>2, <1>5, <2>0, <2>1
  <2>2. CASE v = s /\ ~ok
    BY <1>2, <1>5, <2>0, <2>2
  <2>3. CASE v # s
    <3>1. v \in Subs /\ Served(v) /\ told'[v] = told[v] /\ (v \in unsent' <=> v \in unsent)
      BY <1>0, <1>4, <1>5, <2>3 DEF Served, Matches
    <3> QED  BY <3>1 DEF Told, PostedFits, KeptPosted, InCall
  <2> QED  BY <2>1, <2>2, <2>3
<1> QED  BY <1>6, <1>7, <1>8, <1>9, <1>10 DEF Told

(* Deleting all rows leaves nothing to tell; LANDED rows tell nothing.     *)
LEMMA DeleteTells ==
  ASSUME IInv, Told, Resume \/ ClearAlerts
  PROVE  Told'
<1>1. UNCHANGED <<job, clock, crashes, told, unsent>> /\ ~InCall("prediction")
  BY DEF Resume, ClearAlerts, Clears, Told, CallFits, InCall, Idle
<1>2. CASE Resume
  <2>1. job' = Idle /\ cleared' = cleared
    BY <1>2 DEF Resume
  <2>2. \A s \in Subs : /\ \A k \in Kinds : k # "LANDED" => table'[s][k] = table[s][k]
                        /\ table'[s]["LANDED"] = NoRow
    BY <1>2 DEF Resume, Delete, Forgotten, Kinds
  <2>3. RowsTell'
    BY <1>1, <2>1, <2>2 DEF Told, RowsTell, HasRow, Reference, LastUpdate, Kinds
  <2>4. RowsInherited'
    BY <2>2 DEF RowsInherited, Holders, HasRow
  <2> QED  BY <2>1, <2>3, <2>4, IdleTells
<1>3. CASE ClearAlerts
  <2>1. /\ \A s \in Subs : \A k \in Kinds : ~HasRow(s, k)'
        /\ cleared' /\ phase' = phase /\ phase # "DESCENT"
    BY <1>3 DEF ClearAlerts, Clears, Delete, Forgotten, HasRow
  <2>2. RowsTell' /\ LandedCorrects' /\ RowsInherited'
    BY <2>1 DEF RowsTell, LandedCorrects, RowsInherited, Holders, Kinds
  <2>3. WritingFits' /\ PostedFits'
    BY <1>1 DEF WritingFits, PostedFits, KeptPosted, InCall
  <2>4. CallFits'
    BY <1>1, <2>1 DEF Told, CallFits, InCall
  <2>5. UpdatesAreNews'
    BY <1>1 DEF Told, UpdatesAreNews
  <2> QED  BY <2>2, <2>3, <2>4, <2>5 DEF Told
<1> QED  BY <1>2, <1>3

LEMMA StepTells == IInv /\ Told /\ [Next]_vars => Told'
<1> SUFFICES ASSUME IInv, Told, [Next]_vars PROVE Told'
  OBVIOUS
<1>1. CASE UNCHANGED vars
  <2>1. UNCHANGED <<phase, clock, table, job, crashes, cleared, told, unsent, landing, inherited>>
    BY <1>1 DEF vars, history
  <2>2. CallFits' /\ WritingFits' /\ UpdatesAreNews'
    BY <2>1 DEF Told, CallFits, WritingFits, UpdatesAreNews, InCall, HasRow, Reference, LastUpdate
  <2>3. RowsTell' /\ LandedCorrects' /\ RowsInherited'
    BY <2>1 DEF Told, RowsTell, LandedCorrects, RowsInherited, InCall, Served, HasRow, Holders,
                Reference, LastUpdate
  <2>4. PostedFits'
    BY <2>1 DEF Told, PostedFits, KeptPosted, InCall, Served, Matches, HasRow, Reference, Unthrottled
  <2> QED  BY <2>2, <2>3, <2>4 DEF Told
<1>2. CASE Next
  BY <1>2, BeginTells, DecidePredictionTells, DecideLandedTells, RecordTells, SendTells,
     AroundTells, RelaunchTells, DeleteTells DEF Next
<1> QED  BY <1>1, <1>2

LEMMA ToldInvariant == Spec => [](IInv /\ Told)
<1>1. Init => IInv /\ Told
  BY InitHolds, InitTells
<1>2. IInv /\ Told /\ [Next]_vars => (IInv /\ Told)'
  BY StepKeeps, StepTells
<1> QED  BY <1>1, <1>2, PTL DEF Spec

(* While handle_prediction() goes through its subscribers, those it has    *)
(* served know the predicted point to within the update distance, unless   *)
(* throttled.  The exception is a row whose point never reached them: its  *)
(* request failed, the process died, or it is an earlier flight's; then    *)
(* the point is near that row's, or the row throttles.  This is where      *)
(* updates are not turned off.                                             *)
THEOREM SubscribersKeptPosted ==
  ASSUME UpdateMove > 0
  PROVE  Spec => []KeptPosted
<1>1. IInv /\ Told => KeptPosted
  BY DEF Told, PostedFits
<1> QED  BY <1>1, ToldInvariant, PTL

(* _maybe_update() pushes nothing a subscriber was told already, and not   *)
(* within the throttle of their last UPDATE, if what their row says        *)
(* reached them.                                                           *)
THEOREM UpdatesNews == Spec => []UpdatesAreNews
<1>1. IInv /\ Told => UpdatesAreNews
  BY DEF Told
<1> QED  BY <1>1, ToldInvariant, PTL

(* Whoever was told a landing point of the flight, or has an INBOUND row,  *)
(* is told of the landing as handle_landed() goes along, by this call, or  *)
(* its request to them failed; however rows are cleared and calls crash,   *)
(* unless an earlier flight's LANDED row is in the way.                    *)
THEOREM LandedCorrectsInbound == Spec => []LandedCorrects
<1>1. IInv /\ Told => LandedCorrects
  BY DEF Told
<1> QED  BY <1>1, ToldInvariant, PTL
=============================================================================
