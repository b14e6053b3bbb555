------------------------------ MODULE WebProofs ------------------------------
(***************************************************************************)
(* Proofs about what the web server shares between threads: for every set  *)
(* of threads, settings, values and accounts, the configuration file; for  *)
(* every set of browsers, threads and datasets, the event bus.             *)
(***************************************************************************)
EXTENDS EventBus, Settings, FiniteSetTheorems, SequenceTheorems, TLAPS

-----------------------------------------------------------------------------
(* The settings.                                                           *)

Docs == [Keys -> Values \cup {Absent}]
Places == {"read", "truncate", "fill", "apply", "account"}
Requests == [at: Places, values: Updates, doc: Docs]

RequestsTyped == request \in [Servers -> Requests \cup {NoRequest}]

Configured(f) == \A k \in WizardKeys : f[k] # Absent

(* Which requests there are in which state of the process.                 *)
Phases ==
  /\ process = "down" => Quiet
  /\ process = "setup" => \A t \in Servers : ~At(t, {"idle"}) =>
       ~At(t, {"apply"}) /\ DOMAIN request[t].values = WizardKeys
  /\ process = "serving" => users # {} /\ \A t \in Servers : ~At(t, {"account"})
  /\ done => users # {}

(* A save of the settings page starts from a file that is configured, and  *)
(* a file is configured before an account is added.                        *)
SavesKeep == process = "serving" /\ ~lost =>
  \A t \in Servers : At(t, {"truncate", "fill"}) => Configured(request[t].doc)
FileKept == ~lost /\ (users # {} \/ \E t \in Servers : At(t, {"account"})) =>
  Configured(file) \/ HalfWritten

IInv == SettingsTypeOK /\ RequestsTyped /\ Phases /\ SavesKeep /\ FileKept

-----------------------------------------------------------------------------
(* The operators on files.                                                 *)

LEMMA LoadTyped == ASSUME NEW f \in Docs PROVE Load(f) \in [Keys -> Values]
BY SettingsAssumption DEF Load, Docs

LEMMA TemplateTyped == Template \in Docs
BY DEF Template, Docs

LEMMA UpdateTyped ==
  ASSUME NEW u \in Updates
  PROVE  DOMAIN u \in SUBSET Keys /\ \A k \in DOMAIN u : u[k] \in Values
BY DEF Updates

(* A line is absent only for the default of an optional setting.           *)
LEMMA LineTyped ==
  ASSUME NEW k \in Keys, NEW v \in Values
  PROVE  /\ Line(k, v) \in Values \cup {Absent}
         /\ k \in WizardKeys => Line(k, v) # Absent
         /\ Line(k, v) = v \/ (Line(k, v) = Absent /\ v = Default)
BY SettingsAssumption DEF Line

LEMMA WrittenTyped ==
  ASSUME NEW f \in Docs, NEW u \in Updates
  PROVE  /\ Written(f, u) \in Docs
         /\ \A k \in Keys : Written(f, u)[k] =
              IF k \in DOMAIN u THEN Line(k, u[k]) ELSE f[k]
         /\ Configured(f) \/ WizardKeys \subseteq DOMAIN u => Configured(Written(f, u))
<1>1. \A k \in Keys : Written(f, u)[k] = IF k \in DOMAIN u THEN Line(k, u[k]) ELSE f[k]
  BY UpdateTyped DEF Written, Overlay
<1>2. Written(f, u) \in Docs
  BY UpdateTyped, LineTyped DEF Written, Overlay, Docs
<1>3. Configured(f) \/ WizardKeys \subseteq DOMAIN u => Configured(Written(f, u))
  BY <1>1, UpdateTyped, LineTyped, SettingsAssumption DEF Configured
<1> QED  BY <1>1, <1>2, <1>3

LEMMA WizardUpdates == [WizardKeys -> Values] \subseteq Updates
BY SettingsAssumption DEF Updates

LEMMA ChangedTyped ==
  ASSUME NEW u \in Updates, DOMAIN Changed(u) # {}
  PROVE  Changed(u) \in Updates /\ DOMAIN Changed(u) \subseteq DOMAIN u
<1>1. DOMAIN Changed(u) \subseteq DOMAIN u
  BY DEF Changed
<1>2. Changed(u) \in [DOMAIN Changed(u) -> Values]
  BY UpdateTyped DEF Changed
<1>3. DOMAIN Changed(u) \in (SUBSET Keys) \ {{}}
  BY <1>1, UpdateTyped
<1> QED  BY <1>1, <1>2, <1>3 DEF Updates

-----------------------------------------------------------------------------
LEMMA InitHolds == SettingsInit => IInv
<1> SUFFICES ASSUME SettingsInit PROVE IInv
  OBVIOUS
<1>1. Quiet
  BY DEF SettingsInit, Quiet, At, NoRequest
<1>2. SettingsTypeOK
  BY <1>1, LoadTyped, TemplateTyped DEF SettingsInit, SettingsTypeOK, Quiet, Docs
<1>3. RequestsTyped
  BY DEF SettingsInit, RequestsTyped
<1>4. Phases /\ SavesKeep /\ FileKept
  BY <1>1 DEF SettingsInit, Phases, SavesKeep, FileKept, Quiet, At
<1> QED  BY <1>2, <1>3, <1>4 DEF IInv

(* The part of the type invariant that is about requests.                  *)
LEMMA TypedRequests ==
  ASSUME RequestsTyped
  PROVE  \A t \in Servers :
    /\ request[t] \in Requests \/ (request[t] = NoRequest /\ At(t, {"idle"}))
    /\ ~At(t, {"idle"}) => request[t] \in Requests
    /\ request[t] \in Requests =>
         request[t].at \in Places /\ request[t].values \in Updates /\ request[t].doc \in Docs
BY DEF RequestsTyped, Requests, Places, NoRequest, At

Rest ==
  /\ file \in Docs
  /\ process \in {"down", "setup", "serving"}
  /\ cfg \in [Keys -> Values] /\ boot \in [Keys -> Values]
  /\ announced \subseteq RestartKeys /\ users \subseteq Accounts
  /\ {done, mixed, lost} \subseteq BOOLEAN

LEMMA TypeFromRest == Rest /\ RequestsTyped <=> SettingsTypeOK /\ RequestsTyped
<1>1. RequestsTyped => \A t \in Servers : ~At(t, {"idle"}) =>
        /\ At(t, Places)
        /\ request[t].values \in Updates
        /\ request[t].doc \in Docs
  BY TypedRequests DEF At
<1> QED  BY <1>1 DEF Rest, SettingsTypeOK, Docs, Places

-----------------------------------------------------------------------------
(* The process starts, its wizard ends, it stops.                          *)
LEMMA ProcessKeeps ==
  ASSUME IInv, Start \/ SetupEnds \/ Stop
  PROVE  IInv'
<1>1. Rest /\ RequestsTyped /\ Phases /\ SavesKeep /\ FileKept
  BY TypeFromRest DEF IInv
<1>2. Load(file) \in [Keys -> Values]
  BY <1>1, LoadTyped DEF Rest
<1>3. CASE Start \/ SetupEnds
  <2>1. Quiet /\ UNCHANGED <<file, request, users, lost>>
    BY <1>1, <1>3 DEF Start, SetupEnds, Phases, Serve
  <2>2. Rest' /\ RequestsTyped'
    BY <1>1, <1>2, <1>3 DEF Start, SetupEnds, Serve, Rest, RequestsTyped
  <2>3. Phases'
    BY <1>1, <1>3, <2>1 DEF Start, SetupEnds, Serve, Phases, Quiet, At
  <2>4. SavesKeep' /\ FileKept'
    BY <1>1, <2>1 DEF SavesKeep, FileKept, Quiet, At, Configured, HalfWritten
  <2> QED  BY <2>2, <2>3, <2>4, TypeFromRest, PTL DEF IInv
<1>4. CASE Stop
  <2>1. request' = [t \in Servers |-> NoRequest] /\ Quiet'
    BY <1>4 DEF Stop, Quiet, At, NoRequest
  <2>2. Rest' /\ RequestsTyped'
    BY <1>1, <1>4, <2>1 DEF Stop, Rest, RequestsTyped
  <2>3. Phases' /\ SavesKeep'
    BY <1>1, <1>4, <2>1 DEF Stop, Phases, SavesKeep, Quiet, At
  <2>4. FileKept'
    BY <1>1, <1>4, <2>1 DEF Stop, FileKept, Configured, Quiet, At
  <2> QED  BY <2>2, <2>3, <2>4, TypeFromRest, PTL DEF IInv
<1> QED  BY <1>3, <1>4

(* A request moves to r; the others stay as they are.                      *)
Moves(t, r) == request' = [request EXCEPT ![t] = r]

LEMMA MoveTyped ==
  ASSUME RequestsTyped, NEW t \in Servers, NEW r, Moves(t, r),
         r \in Requests \cup {NoRequest}
  PROVE  /\ RequestsTyped'
         /\ request'[t] = r
         /\ \A u \in Servers \ {t} : request'[u] = request[u]
BY DEF RequestsTyped, Moves

(* What every step of a request may assume of the state.                   *)
LEMMA Given ==
  ASSUME IInv
  PROVE  /\ Rest /\ RequestsTyped /\ Phases /\ SavesKeep /\ FileKept
         /\ process = "down" => Quiet
         /\ \A t \in Servers : ~At(t, {"idle"}) => request[t] \in Requests
BY TypeFromRest, TypedRequests DEF IInv, Phases

(* A request comes in.                                                     *)
LEMMA AcceptKeeps ==
  ASSUME IInv, NEW t \in Servers, NEW u \in Updates, At(t, {"idle"}), Accept(t, u),
         process = "setup" => DOMAIN u = WizardKeys,
         process # "down"
  PROVE  IInv'
<1> DEFINE r == [at |-> "read", values |-> u, doc |-> Template]
<1>1. r \in Requests /\ r.at = "read" /\ r.values = u
  BY TemplateTyped DEF Requests, Places
<1>2. Moves(t, r)
  BY DEF Accept, Moves
<1> HIDE DEF r
<1>3. /\ RequestsTyped' /\ request'[t] = r
      /\ \A v \in Servers \ {t} : request'[v] = request[v]
  BY <1>1, <1>2, Given, MoveTyped
<1>4. Rest'
  BY Given DEF Rest, Accept
<1>5. Phases'
  BY <1>1, <1>3, Given DEF Phases, Accept, At
<1>6. SavesKeep' /\ FileKept'
  BY <1>1, <1>3, Given DEF SavesKeep, FileKept, Accept, At, Configured, HalfWritten
<1> QED  BY <1>3, <1>4, <1>5, <1>6, TypeFromRest, PTL DEF IInv

LEMMA ComesKeeps ==
  ASSUME IInv, NEW t \in Servers,
         Complete(t) \/ \E u \in Updates : PutSettings(t, u)
  PROVE  IInv'
<1>1. CASE Complete(t)
  <2>1. PICK u \in [WizardKeys -> Values] : Accept(t, u)
    BY <1>1 DEF Complete
  <2>2. u \in Updates /\ DOMAIN u = WizardKeys
    BY WizardUpdates
  <2> QED  BY <1>1, <2>1, <2>2, AcceptKeeps DEF Complete
<1>2. ASSUME NEW u \in Updates, PutSettings(t, u) PROVE IInv'
  BY <1>2, ChangedTyped, AcceptKeeps DEF PutSettings
<1> QED  BY <1>1, <1>2

(* The file is read, or its opening fails.                                 *)
LEMMA ReadKeeps ==
  ASSUME IInv, NEW t \in Servers, ReadFile(t)
  PROVE  IInv'
<1> DEFINE r == [request[t] EXCEPT !.at = "truncate", !.doc = file]
<1>1. request[t] \in Requests /\ file \in Docs
  BY Given DEF ReadFile, At, Rest
<1>2. r \in Requests /\ r.at = "truncate" /\ r.doc = file /\ r.values = request[t].values
  BY <1>1 DEF Requests, Places
<1>3. Moves(t, r)
  BY Given DEF ReadFile, Moves, RequestsTyped
<1> HIDE DEF r
<1>4. /\ RequestsTyped' /\ request'[t] = r
      /\ \A v \in Servers \ {t} : request'[v] = request[v]
  BY <1>2, <1>3, Given, MoveTyped
<1>5. Rest'
  BY Given DEF Rest, ReadFile
<1>6. Phases'
  BY <1>2, <1>4, Given DEF Phases, ReadFile, At, Quiet
<1>7. SavesKeep'
  BY <1>2, <1>4, Given DEF SavesKeep, FileKept, Phases, ReadFile, At, Configured, HalfWritten
<1>8. FileKept'
  BY <1>2, <1>4, Given DEF FileKept, ReadFile, At, Configured, HalfWritten
<1> QED  BY <1>4, <1>5, <1>6, <1>7, <1>8, TypeFromRest, PTL DEF IInv

(* The file is opened, and is empty then.                                  *)
LEMMA TruncateKeeps ==
  ASSUME IInv, NEW t \in Servers, Truncate(t)
  PROVE  IInv'
<1> DEFINE r == [request[t] EXCEPT !.at = "fill"]
<1>1. request[t] \in Requests
  BY Given DEF Truncate, At
<1>2. r \in Requests /\ r.at = "fill" /\ r.doc = request[t].doc /\ r.values = request[t].values
  BY <1>1 DEF Requests, Places
<1>3. Moves(t, r)
  BY Given DEF Truncate, Moves, RequestsTyped
<1> HIDE DEF r
<1>4. /\ RequestsTyped' /\ request'[t] = r
      /\ \A v \in Servers \ {t} : request'[v] = request[v]
  BY <1>2, <1>3, Given, MoveTyped
<1>5. Rest'
  BY Given, TemplateTyped DEF Rest, Truncate
<1>6. Phases'
  BY <1>2, <1>4, Given DEF Phases, Truncate, At, Quiet
<1>7. SavesKeep'
  BY <1>2, <1>4, Given DEF SavesKeep, Truncate, At, Configured
<1>8. FileKept'
  BY <1>2, <1>4 DEF FileKept, At, HalfWritten
<1> QED  BY <1>4, <1>5, <1>6, <1>7, <1>8, TypeFromRest, PTL DEF IInv

LEMMA FailKeeps ==
  ASSUME IInv, NEW t \in Servers, OpenFails(t) \/ DiskFull(t)
  PROVE  IInv'
<1>1. Moves(t, NoRequest)
  BY DEF OpenFails, DiskFull, Moves
<1>2. /\ RequestsTyped' /\ request'[t] = NoRequest
      /\ \A v \in Servers \ {t} : request'[v] = request[v]
  BY <1>1, Given, MoveTyped
<1>3. Rest'
  BY Given DEF Rest, OpenFails, DiskFull
<1>4. Phases' /\ SavesKeep'
  BY <1>2, Given DEF Phases, SavesKeep, OpenFails, DiskFull, At, Quiet, NoRequest, Configured
<1>5. FileKept'
  BY <1>2, Given DEF FileKept, OpenFails, DiskFull, At, NoRequest, Configured, HalfWritten
<1> QED  BY <1>2, <1>3, <1>4, <1>5, TypeFromRest, PTL DEF IInv

(* The file is filled: by the wizard with all it asks for, by a save with  *)
(* what it held when it was read.                                          *)
LEMMA FillKeeps ==
  ASSUME IInv, NEW t \in Servers, Fill(t)
  PROVE  IInv'
<1> DEFINE place == IF process = "setup" THEN "account" ELSE "apply"
           r == [request[t] EXCEPT !.doc = Template, !.at = place]
<1>1. request[t] \in Requests
  BY Given DEF Fill, At
<1>2. request[t].doc \in Docs /\ request[t].values \in Updates
  BY <1>1 DEF Requests
<1>3. r \in Requests /\ r.at = place /\ r.values = request[t].values
  BY <1>1, TemplateTyped DEF Requests, Places
<1>4. Moves(t, r)
  BY Given DEF Fill, Moves, RequestsTyped
<1> HIDE DEF r
<1>5. /\ RequestsTyped' /\ request'[t] = r
      /\ \A v \in Servers \ {t} : request'[v] = request[v]
  BY <1>3, <1>4, Given, MoveTyped
<1>6. file' = Written(request[t].doc, request[t].values) /\ file' \in Docs
  BY <1>2, WrittenTyped DEF Fill
<1>7. Rest'
  BY <1>6, Given DEF Rest, Fill
<1>8. process # "down" /\ process \in {"setup", "serving"}
  BY Given DEF Fill, At, Quiet, Rest
<1>9. UNCHANGED <<process, users, done, lost>> /\ ~At(t, {"idle"})
  BY DEF Fill, At
<1>10. place \in {"account", "apply"} /\ (place = "account" <=> process = "setup")
  OBVIOUS
<1> HIDE DEF place
<1>11. Phases'
  BY <1>3, <1>5, <1>8, <1>9, <1>10, Given DEF Phases, At
<1>12. SavesKeep'
  BY <1>3, <1>5, <1>9, <1>10, Given DEF SavesKeep, At, Configured
<1>13. ~lost => Configured(file')
  <2>1. CASE process = "setup"
    <3>1. WizardKeys \subseteq DOMAIN request[t].values
      BY <2>1, Given DEF Fill, Phases, At
    <3> QED  BY <1>2, <1>6, <3>1, WrittenTyped
  <2>2. CASE process = "serving" /\ ~lost
    <3>1. Configured(request[t].doc)
      BY <2>2, Given DEF Fill, SavesKeep, At
    <3> QED  BY <1>2, <1>6, <3>1, WrittenTyped
  <2> QED  BY <1>8, <2>1, <2>2
<1>14. FileKept'
  BY <1>13 DEF FileKept, Fill, Configured
<1> QED  BY <1>5, <1>7, <1>11, <1>12, <1>14, TypeFromRest, PTL DEF IInv

(* The values of a save take effect.                                       *)
LEMMA ApplyKeeps ==
  ASSUME IInv, NEW t \in Servers, Apply(t)
  PROVE  IInv'
<1>1. request[t] \in Requests /\ request[t].values \in Updates
  BY Given DEF Apply, At, Requests
<1>2. Moves(t, NoRequest)
  BY DEF Apply, Moves
<1>3. /\ RequestsTyped' /\ request'[t] = NoRequest
      /\ \A v \in Servers \ {t} : request'[v] = request[v]
  BY <1>2, Given, MoveTyped
<1>4. cfg' \in [Keys -> Values]
  BY <1>1, Given, UpdateTyped DEF Apply, Overlay, Rest
<1>5. Rest'
  BY <1>4, Given DEF Rest, Apply
<1>6. Phases' /\ SavesKeep'
  BY <1>3, Given DEF Phases, SavesKeep, Apply, At, Quiet, NoRequest, Configured
<1>7. FileKept'
  BY <1>3, Given DEF FileKept, Apply, At, NoRequest, Configured, HalfWritten
<1> QED  BY <1>3, <1>5, <1>6, <1>7, TypeFromRest, PTL DEF IInv

(* The wizard's account is added to a file that is configured.             *)
LEMMA AddUserKeeps ==
  ASSUME IInv, NEW t \in Servers, AddUser(t)
  PROVE  IInv'
<1>1. PICK n \in Accounts : users' = users \cup {n} /\ done' = (done \/ n \notin users)
  BY DEF AddUser
<1>2. Moves(t, NoRequest)
  BY DEF AddUser, Moves
<1>3. /\ RequestsTyped' /\ request'[t] = NoRequest
      /\ \A v \in Servers \ {t} : request'[v] = request[v]
  BY <1>2, Given, MoveTyped
<1>4. Rest'
  BY <1>1, Given DEF Rest, AddUser
<1>5. Phases'
  BY <1>1, <1>3, Given DEF Phases, AddUser, At, Quiet, NoRequest
<1>6. SavesKeep'
  BY <1>3, Given DEF SavesKeep, AddUser, At, NoRequest, Configured
<1>7. FileKept'
  BY <1>3, Given DEF FileKept, AddUser, At, NoRequest, Configured, HalfWritten
<1> QED  BY <1>3, <1>4, <1>5, <1>6, <1>7, TypeFromRest, PTL DEF IInv

LEMMA StepKeeps == IInv /\ [SettingsNext]_settingsVars => IInv'
<1> SUFFICES ASSUME IInv, [SettingsNext]_settingsVars PROVE IInv'
  OBVIOUS
<1>1. CASE Start \/ SetupEnds \/ Stop
  BY <1>1, ProcessKeeps
<1>2. ASSUME NEW t \in Servers, RequestStep(t) \/ \E u \in Updates : PutSettings(t, u)
      PROVE  IInv'
  BY <1>2, ComesKeeps, ReadKeeps, TruncateKeeps, FailKeeps, FillKeeps, ApplyKeeps, AddUserKeeps
     DEF RequestStep
<1>3. CASE UNCHANGED settingsVars
  BY <1>3 DEF settingsVars, IInv, SettingsTypeOK, RequestsTyped, Phases, SavesKeep,
     FileKept, Configured, HalfWritten, Quiet, At
<1> QED  BY <1>1, <1>2, <1>3 DEF SettingsNext

LEMMA Invariance == SettingsSpec => []IInv
BY InitHolds, StepKeeps, PTL DEF SettingsSpec

-----------------------------------------------------------------------------
(* What a save still owes: until the file is written, it and the document  *)
(* that will replace it are in sync with what is in force; then all but    *)
(* the values of the save are.                                             *)
Synced(f, k) == Load(f)[k] = InForce(k) \/ k \in announced
Owed(t) ==
  LET u == request[t].values
  IN  /\ DOMAIN u \cap EnvKeys = {}
      /\ \A k \in Keys :
           /\ At(t, {"read", "truncate"}) => Synced(file, k)
           /\ At(t, {"truncate", "fill"}) => Synced(request[t].doc, k)
           /\ At(t, {"apply"}) =>
                IF k \in DOMAIN u THEN Load(file)[k] = u[k] ELSE Synced(file, k)

Alone == \A t, v \in Servers : At(t, {"idle"}) \/ At(v, {"idle"}) \/ t = v

LiveInv ==
  /\ IInv
  /\ SavedIsLiveOrAnnounced
  /\ process = "serving" /\ ~mixed =>
       Alone /\ \A t \in Servers : ~At(t, {"idle"}) => Owed(t)

LEMMA InitLive == SettingsInit => LiveInv
BY InitHolds DEF SettingsInit, LiveInv, SavedIsLiveOrAnnounced

(* A process that starts to serve has what the file says.                  *)
LEMMA ServeLive ==
  ASSUME LiveInv, Quiet, Serve, UNCHANGED <<file, request>>, IInv'
  PROVE  LiveInv'
<1>1. Load(file) \in [Keys -> Values]
  BY LoadTyped, Given DEF LiveInv, Rest
<1>2. \A k \in Keys : Load(file)[k] = InForce(k)'
  BY <1>1 DEF Serve, InForce
<1>3. SavedIsLiveOrAnnounced'
  BY <1>2 DEF SavedIsLiveOrAnnounced, Load
<1>4. \A t \in Servers : At(t, {"idle"})'
  BY DEF Quiet, At
<1> QED  BY <1>3, <1>4 DEF LiveInv, Alone

(* Only steps of the process that serves alone matter for the rest.        *)
Serves == process = "serving" /\ ~mixed

LEMMA AcceptLive ==
  ASSUME LiveInv, NEW t \in Servers, NEW u \in Updates, PutSettings(t, u), IInv'
  PROVE  LiveInv'
<1>1. process = "serving" /\ process' = "serving" /\ At(t, {"idle"})
      /\ UNCHANGED <<file, cfg, boot, announced>>
  BY DEF PutSettings, Accept
<1>2. /\ request'[t] = [at |-> "read", values |-> Changed(u), doc |-> Template]
      /\ \A v \in Servers \ {t} : request'[v] = request[v]
  BY Given DEF PutSettings, Accept, LiveInv, RequestsTyped
<1>3. ~Quiet'
  BY <1>2 DEF Quiet, At
<1>4. CASE mixed'
  BY <1>3, <1>4 DEF LiveInv, SavedIsLiveOrAnnounced
<1>5. CASE ~mixed'
  <2>1. Quiet /\ ~mixed
    BY <1>5 DEF PutSettings, Accept
  <2>2. \A k \in Keys : Synced(file, k)
    BY <1>1, <2>1 DEF LiveInv, SavedIsLiveOrAnnounced, Synced
  <2>3. \A k \in Keys : Synced(file, k)'
    BY <1>1, <2>2 DEF Synced, InForce, Load
  <2>4. DOMAIN Changed(u) \cap EnvKeys = {}
    BY ChangedTyped DEF PutSettings
  <2>5. Owed(t)'
    BY <1>2, <2>3, <2>4 DEF Owed, At
  <2>6. \A v \in Servers \ {t} : At(v, {"idle"})'
    BY <1>2, <2>1 DEF Quiet, At
  <2> QED  BY <1>3, <2>5, <2>6 DEF LiveInv, SavedIsLiveOrAnnounced, Alone
<1> QED  BY <1>4, <1>5

(* A step of the one request: the others are idle.                         *)
LEMMA OthersIdle ==
  ASSUME LiveInv, Serves, NEW t \in Servers, ~At(t, {"idle"})
  PROVE  Owed(t) /\ \A v \in Servers \ {t} : At(v, {"idle"})
BY DEF LiveInv, Serves, Alone

(* Nothing is owed by a process that does not serve, or serves two at once.*)
LEMMA FreeLive ==
  ASSUME IInv', process' # "serving" \/ mixed'
  PROVE  LiveInv'
BY DEF LiveInv, SavedIsLiveOrAnnounced

LEMMA ReadLive ==
  ASSUME LiveInv, Serves, NEW t \in Servers, ReadFile(t) \/ Truncate(t), IInv'
  PROVE  LiveInv'
<1>1. /\ Owed(t) /\ \A v \in Servers \ {t} : At(v, {"idle"})
      /\ request[t] \in Requests
  BY OthersIdle, Given DEF ReadFile, Truncate, At, LiveInv
<1>2. UNCHANGED <<process, mixed, cfg, boot, announced>>
  BY DEF ReadFile, Truncate
<1>3. /\ \A v \in Servers \ {t} : request'[v] = request[v]
      /\ request'[t].values = request[t].values
      /\ \/ At(t, {"read"}) /\ request'[t].at = "truncate" /\ request'[t].doc = file /\ file' = file
         \/ At(t, {"truncate"}) /\ request'[t].at = "fill" /\ request'[t].doc = request[t].doc
  BY <1>1, Given DEF ReadFile, Truncate, LiveInv, RequestsTyped, Requests, At
<1>4. ~Quiet' /\ Alone'
  BY <1>1, <1>3 DEF Quiet, At, Alone
<1>5. Owed(t)'
  BY <1>1, <1>2, <1>3 DEF Owed, At, Synced, InForce, Load
<1>6. \A v \in Servers \ {t} : At(v, {"idle"})'
  BY <1>1, <1>3 DEF At
<1> QED  BY <1>4, <1>5, <1>6 DEF LiveInv, SavedIsLiveOrAnnounced

(* The file cannot be opened: it is as it was, and so is what is in force. *)
LEMMA OpenFailsLive ==
  ASSUME LiveInv, Serves, NEW t \in Servers, OpenFails(t), IInv'
  PROVE  LiveInv'
<1>1. Owed(t) /\ \A v \in Servers \ {t} : At(v, {"idle"})
  BY OthersIdle DEF OpenFails, At
<1>2. UNCHANGED <<file, process, cfg, boot, announced>>
  BY DEF OpenFails
<1>3. \A v \in Servers : At(v, {"idle"})'
  BY <1>1, Given DEF OpenFails, LiveInv, RequestsTyped, At, NoRequest
<1>4. \A k \in Keys : Synced(file, k)
  BY <1>1 DEF OpenFails, Owed, At
<1>5. SavedIsLiveOrAnnounced'
  BY <1>2, <1>4 DEF SavedIsLiveOrAnnounced, Synced, InForce, Load
<1> QED  BY <1>3, <1>5 DEF LiveInv, Alone

(* The file is filled: it says what the save says, and of the other        *)
(* settings what the document said.                                        *)
LEMMA FillLive ==
  ASSUME LiveInv, Serves, NEW t \in Servers, Fill(t), IInv'
  PROVE  LiveInv'
<1>1. /\ Owed(t) /\ \A v \in Servers \ {t} : At(v, {"idle"})
      /\ request[t] \in Requests
  BY OthersIdle, Given DEF Fill, At, LiveInv
<1>2. UNCHANGED <<process, mixed, cfg, boot, announced>>
  BY DEF Fill
<1>3. /\ \A v \in Servers \ {t} : request'[v] = request[v]
      /\ request'[t].values = request[t].values /\ request'[t].at = "apply"
  BY <1>1, Given DEF Fill, Serves, LiveInv, RequestsTyped, Requests
<1>4. ~Quiet' /\ Alone'
  BY <1>1, <1>3 DEF Quiet, At, Alone
<1> DEFINE f == request[t].doc
           u == request[t].values
<1>5. f \in Docs /\ u \in Updates /\ file' = Written(f, u)
  BY <1>1 DEF Fill, Requests
<1>6. /\ DOMAIN u \cap EnvKeys = {}
      /\ \A k \in Keys : Synced(f, k)
  BY <1>1 DEF Owed, At, Fill
<1> HIDE DEF f, u
<1>7. ASSUME NEW k \in Keys
      PROVE  IF k \in DOMAIN u THEN Load(file')[k] = u[k] ELSE Load(file')[k] = Load(f)[k]
  <2>1. file'[k] = IF k \in DOMAIN u THEN Line(k, u[k]) ELSE f[k]
    BY <1>5, WrittenTyped
  <2>2. CASE k \in DOMAIN u
    <3>1. u[k] \in Values /\ k \notin EnvKeys
      BY <1>5, <1>6, <2>2, UpdateTyped
    <3>2. Line(k, u[k]) = u[k] \/ (Line(k, u[k]) = Absent /\ u[k] = Default)
      BY <3>1, LineTyped
    <3> QED  BY <2>1, <2>2, <3>1, <3>2, SettingsAssumption DEF Load
  <2>3. CASE k \notin DOMAIN u
    BY <2>1, <2>3 DEF Load
  <2> QED  BY <2>2, <2>3
<1>8. Owed(t)'
  <2>1. request'[t].values = u
    BY <1>3 DEF u
  <2>2. \A k \in Keys : IF k \in DOMAIN u THEN Load(file')[k] = u[k] ELSE Synced(file, k)'
    BY <1>2, <1>6, <1>7 DEF Synced, InForce, Load
  <2>3. /\ At(t, {"apply"})' /\ ~At(t, {"read", "truncate"})' /\ ~At(t, {"truncate", "fill"})'
    BY <1>3 DEF At
  <2> QED  BY <1>6, <2>1, <2>2, <2>3 DEF Owed, Load
<1>9. \A v \in Servers \ {t} : At(v, {"idle"})'
  BY <1>1, <1>3 DEF At
<1> QED  BY <1>4, <1>8, <1>9 DEF LiveInv, SavedIsLiveOrAnnounced

(* The values take effect where they can, and are announced elsewhere.     *)
LEMMA ApplyLive ==
  ASSUME LiveInv, Serves, NEW t \in Servers, Apply(t), IInv'
  PROVE  LiveInv'
<1> DEFINE u == request[t].values
<1>1. /\ Owed(t) /\ \A v \in Servers \ {t} : At(v, {"idle"})
      /\ request[t] \in Requests /\ u \in Updates
  BY OthersIdle, Given DEF Apply, At, LiveInv, Requests
<1>2. \A v \in Servers : At(v, {"idle"})'
  BY <1>1, Given DEF Apply, LiveInv, RequestsTyped, At, NoRequest
<1>3. \A k \in Keys : IF k \in DOMAIN u THEN Load(file)[k] = u[k] ELSE Synced(file, k)
  BY <1>1 DEF Owed, Apply, At
<1>4. /\ file' = file /\ boot' = boot /\ process' = process
      /\ cfg' = [k \in Keys |-> IF k \in DOMAIN u THEN u[k] ELSE cfg[k]]
      /\ announced' = announced \cup (DOMAIN u \cap RestartKeys)
  BY DEF Apply, Overlay
<1> HIDE DEF u
<1>5. ASSUME NEW k \in Keys
      PROVE  Load(file')[k] = InForce(k)' \/ k \in announced'
  <2>1. Load(file') = Load(file)
    BY <1>4
  <2>2. CASE k \in DOMAIN u
    BY <1>3, <1>4, <2>1, <2>2 DEF InForce
  <2>3. CASE k \notin DOMAIN u
    BY <1>3, <1>4, <2>1, <2>3 DEF InForce, Synced
  <2> QED  BY <2>2, <2>3
<1>6. SavedIsLiveOrAnnounced'
  BY <1>5 DEF SavedIsLiveOrAnnounced, Load
<1> QED  BY <1>2, <1>6 DEF LiveInv, Alone

LEMMA StepLive == LiveInv /\ [SettingsNext]_settingsVars => LiveInv'
<1> SUFFICES ASSUME LiveInv, [SettingsNext]_settingsVars PROVE LiveInv'
  OBVIOUS
<1>1. IInv'
  BY StepKeeps DEF LiveInv
<1>2. CASE Start
  <2>1. Quiet
    BY <1>2, Given DEF Start, LiveInv
  <2>2. CASE users = {}
    BY <1>1, <1>2, <2>2, FreeLive DEF Start
  <2>3. CASE users # {}
    BY <1>1, <1>2, <2>1, <2>3, ServeLive DEF Start
  <2> QED  BY <2>2, <2>3
<1>3. CASE SetupEnds
  BY <1>1, <1>3, ServeLive DEF SetupEnds
<1>4. CASE Stop
  BY <1>1, <1>4, FreeLive DEF Stop
<1>5. ASSUME NEW t \in Servers, NEW u \in Updates, PutSettings(t, u) PROVE LiveInv'
  BY <1>1, <1>5, AcceptLive
<1>6. ASSUME NEW t \in Servers, RequestStep(t) PROVE LiveInv'
  <2>1. CASE Serves
    <3>1. CASE Complete(t)
      BY <2>1, <3>1 DEF Complete, Serves
    <3>2. CASE DiskFull(t)
      BY <1>1, <3>2, FreeLive DEF DiskFull
    <3>3. CASE AddUser(t)
      BY <2>1, <3>3, Given DEF AddUser, Serves, LiveInv, Phases
    <3> QED  BY <1>1, <1>6, <2>1, <3>1, <3>2, <3>3, ReadLive, OpenFailsLive, FillLive, ApplyLive
             DEF RequestStep
  <2>2. CASE ~Serves
    <3>1. process' = process /\ (mixed => mixed')
      <4>1. CASE Complete(t)
        BY <4>1 DEF Complete, Accept
      <4>2. CASE ReadFile(t) \/ Truncate(t) \/ OpenFails(t) \/ Fill(t)
        BY <4>2 DEF ReadFile, Truncate, OpenFails, Fill
      <4>3. CASE DiskFull(t) \/ Apply(t) \/ AddUser(t)
        BY <4>3 DEF DiskFull, Apply, AddUser
      <4> QED  BY <1>6, <4>1, <4>2, <4>3 DEF RequestStep
    <3> QED  BY <1>1, <2>2, <3>1, FreeLive DEF Serves
  <2> QED  BY <2>1, <2>2
<1>7. CASE UNCHANGED settingsVars
  BY <1>1, <1>7 DEF settingsVars, LiveInv, SavedIsLiveOrAnnounced, Alone, Owed, Synced,
     InForce, Load, Quiet, At
<1> QED  BY <1>2, <1>3, <1>4, <1>5, <1>6, <1>7 DEF SettingsNext

LEMMA LiveInvariance == SettingsSpec => []LiveInv
BY InitLive, StepLive, PTL DEF SettingsSpec

-----------------------------------------------------------------------------
(* Every variable of the configuration and its requests keeps its type.    *)
THEOREM SettingsTypeCorrect == SettingsSpec => []SettingsTypeOK
<1>1. IInv => SettingsTypeOK
  BY DEF IInv
<1> QED  BY <1>1, Invariance, PTL

(* An account exists only beside a file that the wizard has filled, though *)
(* its requests race and the process dies at any of their steps.           *)
THEOREM SetupCorrect == SettingsSpec => []AccountImpliesConfigured
<1>1. IInv => AccountImpliesConfigured
  BY DEF IInv, FileKept, Configured, AccountImpliesConfigured
<1> QED  BY <1>1, Invariance, PTL

(* Between saves of the settings page each setting in the file is in force *)
(* or announced as waiting for a restart, if no two saves overlapped and   *)
(* none broke off midway since the process started.                        *)
THEOREM SettingsCorrect == SettingsSpec => []SavedIsLiveOrAnnounced
<1>1. LiveInv => SavedIsLiveOrAnnounced
  BY DEF LiveInv
<1> QED  BY <1>1, LiveInvariance, PTL

-----------------------------------------------------------------------------
(* The event bus.                                                          *)

(* Who rings has a name left to ring.                                      *)
BusTyped == BusTypeOK /\ \A t \in Threads : Free(t) <=> writer[t].left = {}

(* The life of the web server's loop, and what is there only while it runs.*)
LoopFits ==
  /\ onChange <=> loop = "running" /\ ~closed
  /\ unseen => onChange
  /\ loop = "closed" => closed
  /\ loop = "none" => ~closed /\ pending = {} /\ ~scheduled /\ Arming = {}
  /\ loop # "running" => calls = <<>> /\ ~timer /\ Connected = {}

(* What a client is marked with, and whether its generator knows of it.    *)
ClientsFit ==
  /\ \A c \in Clients :
       /\ conn[c] = "off" => dirty[c] = {} /\ ~woken[c]
       /\ conn[c] = "sending" <=> outbox[c] # {}
       /\ dirty[c] # {} => woken[c]
  /\ \A p \in behind : p[1] \in Connected
  /\ pending # {} => scheduled

(* Who is about to arm a flush has put its name among the pending ones.    *)
ArmedFits == \A t \in Arming : NextName(t) \in pending

BusInv ==
  /\ BusTyped /\ LoopFits /\ ClientsFit /\ ArmedFits
  /\ OneFlush /\ NothingIsLost /\ NoneLeftWaiting /\ LockIsGivenBack

Writers == [at: {"idle", "ring", "arm"}, left: SUBSET Datasets]

LEMMA BusTypes ==
  ASSUME BusTyped
  PROVE  /\ loop \in {"none", "running", "closed"}
         /\ onChange \in BOOLEAN /\ closed \in BOOLEAN /\ scheduled \in BOOLEAN
         /\ timer \in BOOLEAN /\ unseen \in BOOLEAN
         /\ pending \in SUBSET Names /\ calls \in Seq({"arm", "wake"})
         /\ writer \in [Threads -> Writers] /\ holder \in Threads \cup {Nobody}
         /\ conn \in [Clients -> {"off", "waiting", "sending"}]
         /\ dirty \in [Clients -> SUBSET Names] /\ outbox \in [Clients -> SUBSET Names]
         /\ woken \in [Clients -> BOOLEAN] /\ behind \in SUBSET (Clients \X Datasets)
         /\ \A t \in Threads : Free(t) <=> writer[t].left = {}
BY DEF BusTyped, BusTypeOK, Writers

LEMMA TypesOfNext ==
  ASSUME loop' \in {"none", "running", "closed"},
         onChange' \in BOOLEAN, closed' \in BOOLEAN, scheduled' \in BOOLEAN,
         timer' \in BOOLEAN, unseen' \in BOOLEAN,
         pending' \in SUBSET Names, calls' \in Seq({"arm", "wake"}),
         writer' \in [Threads -> Writers], holder' \in Threads \cup {Nobody},
         conn' \in [Clients -> {"off", "waiting", "sending"}],
         dirty' \in [Clients -> SUBSET Names], outbox' \in [Clients -> SUBSET Names],
         woken' \in [Clients -> BOOLEAN], behind' \in SUBSET (Clients \X Datasets),
         \A t \in Threads : Free(t)' <=> writer'[t].left = {}
  PROVE  BusTyped'
BY DEF BusTyped, BusTypeOK, Writers

LEMMA BusStarts == BusInit => BusInv
<1> SUFFICES ASSUME BusInit PROVE BusInv
  OBVIOUS
<1> USE DEF BusInit
<1>1. BusTyped
  <2>1. writer \in [Threads -> Writers] /\ \A t \in Threads : Free(t) /\ writer[t].left = {}
    BY DEF Writers, Idle, Free
  <2>2. calls \in Seq({"arm", "wake"})
    OBVIOUS
  <2> QED  BY <2>1, <2>2 DEF BusTyped, BusTypeOK, Writers
<1>2. Arming = {} /\ Connected = {}
  BY DEF Arming, Connected, Idle
<1>3. LoopFits /\ ClientsFit /\ ArmedFits
  BY <1>2 DEF LoopFits, ClientsFit, ArmedFits
<1>4. OneFlush /\ NothingIsLost /\ NoneLeftWaiting /\ LockIsGivenBack
  BY DEF OneFlush, NothingIsLost, NoneLeftWaiting, LockIsGivenBack
<1> QED  BY <1>1, <1>3, <1>4 DEF BusInv

-----------------------------------------------------------------------------
(* The writers.                                                            *)

LEMMA SameQueue == calls' = calls => \A x : Queued(x)' = Queued(x)
BY DEF Queued

LEMMA SameName ==
  ASSUME NEW t \in Threads, writer'[t].left = writer[t].left
  PROVE  NextName(t)' = NextName(t)
<1> DEFINE First(S) == CHOOSE d \in S : TRUE
<1>1. NextName(t) = First(writer[t].left) /\ NextName(t)' = First(writer'[t].left)
  BY DEF NextName
<1> HIDE DEF First
<1> QED  BY <1>1

LEMMA CommitKeeps ==
  ASSUME BusInv, NEW t \in Threads, NEW ns \in SUBSET Datasets, ns # {},
         NEW held \in BOOLEAN, Commit(t, ns, held)
  PROVE  BusInv'
<1> DEFINE r == [at |-> "ring", left |-> ns]
<1>1. /\ Free(t) /\ holder = Nobody
      /\ writer' = [writer EXCEPT ![t] = r]
      /\ holder' = IF held THEN t ELSE Nobody
      /\ behind' = behind \cup Unaware(ns)
      /\ UNCHANGED <<loop, onChange, closed, pending, scheduled, calls, timer,
                     conn, dirty, woken, outbox, unseen>>
  BY DEF Commit, bus, clients
<1>2. r \in Writers /\ r.at = "ring" /\ r.left = ns
  BY DEF Writers
<1> HIDE DEF r
<1>3. BusTyped
  BY DEF BusInv
<1>4. /\ writer' \in [Threads -> Writers] /\ writer'[t] = r
      /\ \A u \in Threads : u # t => writer'[u] = writer[u]
  BY <1>1, <1>2, <1>3, BusTypes
<1>5. Connected' = Connected /\ Connected \subseteq Clients /\ Unaware(ns) = Connected \X ns
  BY <1>1 DEF Connected, Unaware
<1>6. BusTyped'
  <2>1. behind' \in SUBSET (Clients \X Datasets)
    BY <1>1, <1>3, <1>5, BusTypes
  <2>2. \A u \in Threads : Free(u)' <=> writer'[u].left = {}
    BY <1>2, <1>3, <1>4, BusTypes DEF Free
  <2>3. holder' \in Threads \cup {Nobody}
    BY <1>1
  <2> QED  BY <1>1, <1>3, <1>4, <2>1, <2>2, <2>3, BusTypes, TypesOfNext
<1>7. Arming' = Arming /\ \A x : Queued(x)' = Queued(x)
  <2>1. t \notin Arming /\ t \notin Arming'
    BY <1>1, <1>2, <1>4 DEF Arming, Free
  <2> QED  BY <1>1, <1>4, <2>1, SameQueue DEF Arming
<1>8. LoopFits' /\ OneFlush' /\ NoneLeftWaiting'
  BY <1>1, <1>5, <1>7 DEF BusInv, LoopFits, OneFlush, NoneLeftWaiting
<1>9. ClientsFit' /\ ArmedFits'
  <2>1. ASSUME NEW u \in Arming PROVE NextName(u)' = NextName(u)
    <3>1. u \in Threads /\ writer[u].at = "arm" /\ u # t
      BY <1>1, <2>1 DEF Arming, Free
    <3> QED  BY <1>4, <3>1, SameName
  <2>2. ArmedFits'
    BY <1>1, <1>7, <2>1 DEF BusInv, ArmedFits
  <2> QED  BY <1>1, <1>5, <2>2 DEF BusInv, ClientsFit
<1>10. NothingIsLost'
  <2> SUFFICES ASSUME ~closed', NEW p \in behind' PROVE Coming(p[1], p[2])'
    BY DEF NothingIsLost
  <2>1. CASE p \in behind
    <3>1. Coming(p[1], p[2])
      BY <1>1, <2>1 DEF BusInv, NothingIsLost
    <3>2. \A u \in Threads : p[2] \in writer[u].left => p[2] \in writer'[u].left
      BY <1>1, <1>3, <1>4, BusTypes DEF Free
    <3> QED  BY <1>1, <3>1, <3>2 DEF Coming
  <2>2. CASE p \in Unaware(ns)
    BY <1>2, <1>4, <1>5, <2>2 DEF Coming
  <2> QED  BY <1>1, <2>1, <2>2
<1>11. LockIsGivenBack'
  <2>1. holder' # Nobody => holder' = t
    BY <1>1
  <2>2. ~Free(t)'
    BY <1>2, <1>4 DEF Free
  <2> QED  BY <2>1, <2>2 DEF LockIsGivenBack
<1> QED  BY <1>6, <1>8, <1>9, <1>10, <1>11 DEF BusInv

LEMMA WritesKeep ==
  ASSUME BusInv, Daemon \in Threads,
         LifecycleWrite \/ BatchWrite \/ \E t \in Handlers : FormWrite(t)
  PROVE  BusInv'
<1>1. ASSUME LifecycleWrite PROVE BusInv'
  BY <1>1, CommitKeeps DEF LifecycleWrite
<1>2. ASSUME BatchWrite PROVE BusInv'
  <2>1. PICK ns \in SUBSET Datasets : Cardinality(ns) > 1 /\ Commit(Daemon, ns, TRUE)
    BY <1>2 DEF BatchWrite
  <2>2. ns # {}
    BY <2>1, FS_EmptySet
  <2> QED  BY <2>1, <2>2, CommitKeeps
<1>3. ASSUME NEW t \in Handlers, FormWrite(t) PROVE BusInv'
  BY <1>3, CommitKeeps DEF FormWrite, Threads
<1> QED  BY <1>1, <1>2, <1>3

LEMMA NextNameIsLeft ==
  ASSUME BusTyped, NEW t \in Threads, ~Free(t)
  PROVE  NextName(t) \in writer[t].left /\ NextName(t) \in Datasets
<1>1. writer[t].left # {} /\ writer[t].left \subseteq Datasets
  BY BusTypes DEF Writers
<1> QED  BY <1>1 DEF NextName

(* Once a name is rung, it is left no more; with none left, all is done.   *)
LEMMA RungForm ==
  ASSUME BusTyped, NEW t \in Threads, ~Free(t), Rung(t, NextName(t))
  PROVE  /\ writer' \in [Threads -> Writers]
         /\ writer'[t].left = writer[t].left \ {NextName(t)}
         /\ writer'[t].at \in {"idle", "ring"}
         /\ writer'[t].at = "idle" <=> writer'[t].left = {}
         /\ \A u \in Threads : u # t => writer'[u] = writer[u]
         /\ holder' \in {holder, Nobody}
         /\ holder' = t /\ t # Nobody => holder = t /\ writer'[t].at # "idle"
<1> DEFINE d == NextName(t)
           w == writer[t]
           r == [at |-> "ring", left |-> w.left \ {d}]
<1>1. writer \in [Threads -> Writers] /\ w \in Writers /\ d \in w.left
  BY BusTypes, NextNameIsLeft
<1>2. r \in Writers /\ r.at = "ring" /\ r.left = w.left \ {d} /\ Idle \in Writers
      /\ Idle.at = "idle" /\ Idle.left = {}
  BY <1>1 DEF Writers, Idle
<1> HIDE DEF d
<1>3. CASE w.left = {d}
  <2>1. writer' = [writer EXCEPT ![t] = Idle] /\ holder' = IF holder = t THEN Nobody ELSE holder
    BY <1>3 DEF Rung, Done, d
  <2>2. w.left \ {d} = {}
    BY <1>3
  <2>3. t # Nobody => holder' # t
    BY <2>1
  <2>4. holder' \in {holder, Nobody}
    BY <2>1
  <2>5. writer' \in [Threads -> Writers] /\ writer'[t] = Idle
        /\ \A u \in Threads : u # t => writer'[u] = writer[u]
    BY <1>1, <1>2, <2>1
  <2> QED  BY <1>2, <2>2, <2>3, <2>4, <2>5 DEF d
<1>4. CASE w.left # {d}
  <2>1. writer' = [writer EXCEPT ![t] = r] /\ holder' = holder
    BY <1>4 DEF Rung, d
  <2>2. w.left \ {d} # {}
    BY <1>1, <1>4
  <2> HIDE DEF r
  <2> QED  BY <1>1, <1>2, <2>1, <2>2 DEF d
<1> QED  BY <1>3, <1>4

(* The lock is still held by who has a name to ring.                       *)
LEMMA LockStays ==
  ASSUME LockIsGivenBack, NEW t \in Threads, holder' \in {holder, Nobody},
         holder' = t /\ t # Nobody => writer'[t].at # "idle",
         \A u \in Threads : u # t => writer'[u] = writer[u],
         holder \in Threads \cup {Nobody}
  PROVE  LockIsGivenBack'
<1> SUFFICES ASSUME holder' # Nobody PROVE writer'[holder'].at # "idle"
  BY DEF LockIsGivenBack, Free
<1>1. holder' = holder /\ holder \in Threads /\ writer[holder].at # "idle"
  BY DEF LockIsGivenBack, Free
<1>2. CASE holder = t
  BY <1>1, <1>2
<1>3. CASE holder # t
  BY <1>1, <1>3
<1> QED  BY <1>2, <1>3

(* A thread that rings, and finds the bus open, closed, or scheduled.      *)
LEMMA RingKeeps ==
  ASSUME BusInv, NEW t \in Threads, Ring(t)
  PROVE  BusInv'
<1> DEFINE d == NextName(t)
<1>1. /\ writer[t].at = "ring" /\ ~Free(t) /\ t \notin Arming
      /\ UNCHANGED <<loop, onChange, closed, calls, timer,
                     conn, dirty, woken, outbox, unseen, behind>>
  BY DEF Ring, clients, Free, Arming
<1>2. BusTyped
  BY DEF BusInv
<1>3. d \in writer[t].left /\ d \in Datasets /\ d \in Names
  BY <1>1, <1>2, NextNameIsLeft DEF Names
<1>4. Connected' = Connected /\ \A x : Queued(x)' = Queued(x)
  BY <1>1, SameQueue DEF Connected
<1>5. CASE onChange /\ ArmsFlush
  <2> DEFINE r == [writer[t] EXCEPT !.at = "arm"]
  <2>1. /\ pending' = pending \cup {d} /\ scheduled' = TRUE /\ holder' = holder
        /\ writer' = [writer EXCEPT ![t] = r]
        /\ ~scheduled /\ loop = "running" /\ ~closed
    BY <1>5 DEF Ring, ArmsFlush, BusInv, LoopFits
  <2>2. r \in Writers /\ r.at = "arm" /\ r.left = writer[t].left
    BY <1>1, <1>2, BusTypes DEF Writers
  <2> HIDE DEF r
  <2>3. /\ writer' \in [Threads -> Writers] /\ writer'[t].at = "arm"
        /\ \A u \in Threads : writer'[u].left = writer[u].left
        /\ \A u \in Threads : u # t => writer'[u] = writer[u]
    BY <1>2, <2>1, <2>2, BusTypes
  <2>4. BusTyped'
    <3>1. \A u \in Threads : Free(u)' <=> writer'[u].left = {}
      BY <1>1, <1>2, <1>3, <2>3, BusTypes DEF Free
    <3>2. pending' \in SUBSET Names
      BY <1>2, <1>3, <2>1, BusTypes
    <3> QED  BY <1>1, <1>2, <2>1, <2>3, <3>1, <3>2, BusTypes, TypesOfNext
  <2>5. Arming = {} /\ Queued("arm") = {} /\ ~timer
    BY <2>1 DEF BusInv, OneFlush
  <2>6. Arming' = {t}
    BY <1>1, <2>3, <2>5 DEF Arming
  <2>7. OneFlush'
    BY <1>1, <1>4, <2>1, <2>5, <2>6 DEF OneFlush
  <2>8. LoopFits' /\ NoneLeftWaiting'
    BY <1>1, <1>4, <2>1 DEF BusInv, LoopFits, NoneLeftWaiting
  <2>9. ClientsFit'
    BY <1>1, <1>4, <2>1 DEF BusInv, ClientsFit
  <2>10. ArmedFits'
    BY <2>1, <2>3, <2>6, SameName DEF ArmedFits
  <2>11. NothingIsLost'
    <3> SUFFICES ASSUME NEW p \in behind PROVE Coming(p[1], p[2])'
      BY <1>1 DEF NothingIsLost
    <3>1. Coming(p[1], p[2])
      BY <2>1 DEF BusInv, NothingIsLost
    <3> QED  BY <1>1, <2>1, <2>3, <3>1 DEF Coming
  <2>12. LockIsGivenBack'
    BY <1>2, <2>1, <2>3, LockStays, BusTypes DEF BusInv
  <2> QED  BY <2>4, <2>7, <2>8, <2>9, <2>10, <2>11, <2>12 DEF BusInv
<1>6. CASE ~(onChange /\ ArmsFlush)
  <2>1. Rung(t, d)
    BY <1>6 DEF Ring
  <2>2. /\ writer' \in [Threads -> Writers]
        /\ writer'[t].left = writer[t].left \ {d}
        /\ writer'[t].at \in {"idle", "ring"}
        /\ writer'[t].at = "idle" <=> writer'[t].left = {}
        /\ \A u \in Threads : u # t => writer'[u] = writer[u]
        /\ holder' \in {holder, Nobody}
        /\ holder' = t /\ t # Nobody => holder = t /\ writer'[t].at # "idle"
    BY <1>1, <1>2, <2>1, RungForm
  <2>3. /\ onChange => pending' = pending \cup {d} /\ scheduled' = scheduled /\ scheduled
        /\ ~onChange => pending' = pending /\ scheduled' = scheduled
    <3>1. onChange => ~ArmsFlush /\ loop = "running"
      BY <1>6 DEF BusInv, LoopFits
    <3>2. onChange => scheduled
      BY <3>1 DEF ArmsFlush
    <3> QED  BY <1>2, <3>1, <3>2, BusTypes DEF Ring
  <2>4. BusTyped'
    <3>1. \A u \in Threads : Free(u)' <=> writer'[u].left = {}
      BY <1>2, <2>2, BusTypes DEF Free
    <3>2. pending' \in SUBSET Names /\ scheduled' \in BOOLEAN
      BY <1>2, <1>3, <2>3, BusTypes
    <3>3. holder' \in Threads \cup {Nobody}
      BY <1>2, <2>2, BusTypes
    <3> QED  BY <1>1, <1>2, <2>2, <3>1, <3>2, <3>3, BusTypes, TypesOfNext
  <2>5. Arming' = Arming
    BY <1>1, <2>2 DEF Arming
  <2>6. pending \subseteq pending' /\ scheduled' = scheduled
    BY <1>2, <2>3, BusTypes
  <2>7. OneFlush' /\ NoneLeftWaiting'
    BY <1>1, <1>4, <2>5, <2>6 DEF BusInv, OneFlush, NoneLeftWaiting
  <2>8. LoopFits'
    <3>1. loop = "none" => pending' = pending
      BY <1>2, <2>3, BusTypes DEF BusInv, LoopFits
    <3> QED  BY <1>1, <1>4, <2>5, <2>6, <3>1 DEF BusInv, LoopFits
  <2>9. ClientsFit'
    BY <1>1, <1>2, <1>4, <2>3, BusTypes DEF BusInv, ClientsFit
  <2>10. ArmedFits'
    <3>1. ASSUME NEW u \in Arming PROVE NextName(u)' = NextName(u)
      <4>1. u \in Threads /\ u # t
        BY <1>1, <3>1 DEF Arming
      <4> QED  BY <2>2, <4>1, SameName
    <3> QED  BY <2>5, <2>6, <3>1 DEF BusInv, ArmedFits
  <2>11. NothingIsLost'
    <3> SUFFICES ASSUME ~closed, NEW p \in behind PROVE Coming(p[1], p[2])'
      BY <1>1 DEF NothingIsLost
    <3>1. onChange
      BY <1>2, BusTypes DEF BusInv, LoopFits, ClientsFit
    <3>2. Coming(p[1], p[2])
      BY DEF BusInv, NothingIsLost
    <3>3. CASE p[2] \in writer[t].left
      BY <1>1, <2>2, <2>3, <3>1, <3>3 DEF Coming
    <3>4. CASE p[2] \notin writer[t].left
      BY <1>1, <2>2, <2>6, <3>2, <3>4 DEF Coming
    <3> QED  BY <3>3, <3>4
  <2>12. LockIsGivenBack'
    BY <1>2, <2>2, LockStays, BusTypes DEF BusInv
  <2> QED  BY <2>4, <2>7, <2>8, <2>9, <2>10, <2>11, <2>12 DEF BusInv
<1> QED  BY <1>5, <1>6

(* A callback is handed to the loop, and served by it.                     *)
LEMMA HandedOver ==
  ASSUME NEW a \in {"arm", "wake"}, calls \in Seq({"arm", "wake"}), calls' = Append(calls, a)
  PROVE  /\ calls' \in Seq({"arm", "wake"})
         /\ \A x : Queued(x)' = IF x = a THEN Queued(x) \cup {Len(calls) + 1} ELSE Queued(x)
<1>1. /\ calls' \in Seq({"arm", "wake"}) /\ Len(calls') = Len(calls) + 1 /\ Len(calls) \in Nat
      /\ \A i \in 1..Len(calls) : calls'[i] = calls[i]
      /\ calls'[Len(calls) + 1] = a
  BY AppendProperties
<1>2. ASSUME NEW x PROVE Queued(x)' = IF x = a THEN Queued(x) \cup {Len(calls) + 1} ELSE Queued(x)
  <2>1. Queued(x)' = {i \in 1..Len(calls) + 1 : calls'[i] = x}
    BY <1>1 DEF Queued
  <2>2. \A i : i \in 1..Len(calls) + 1 <=> i \in 1..Len(calls) \/ i = Len(calls) + 1
    BY <1>1
  <2>3. \A i : i \in Queued(x)' <=> i \in Queued(x) \/ (i = Len(calls) + 1 /\ x = a)
    BY <1>1, <2>1, <2>2 DEF Queued
  <2> QED  BY <2>3
<1> QED  BY <1>1, <1>2

LEMMA Served ==
  ASSUME calls \in Seq({"arm", "wake"}), calls # <<>>, calls' = Tail(calls)
  PROVE  /\ calls' \in Seq({"arm", "wake"}) /\ Head(calls) \in {"arm", "wake"}
         /\ 1 \in Queued(Head(calls))
         /\ \A x : \A i \in Queued(x)' : i \in Nat /\ i > 0 /\ i + 1 \in Queued(x)
         /\ \A x : \A i \in Queued(x) : (i = 1 /\ x = Head(calls)) \/ i - 1 \in Queued(x)'
<1>1. /\ calls' \in Seq({"arm", "wake"}) /\ Len(calls') = Len(calls) - 1
      /\ Len(calls) \in Nat /\ Len(calls) > 0
      /\ \A i \in 1..Len(calls) - 1 : calls'[i] = calls[i + 1]
      /\ Head(calls) = calls[1] /\ calls[1] \in {"arm", "wake"}
  BY HeadTailProperties
<1>2. 1 \in Queued(Head(calls))
  BY <1>1 DEF Queued
<1>3. ASSUME NEW x, NEW i \in Queued(x)' PROVE i \in Nat /\ i > 0 /\ i + 1 \in Queued(x)
  BY <1>1, <1>3 DEF Queued
<1>4. ASSUME NEW x, NEW i \in Queued(x) PROVE (i = 1 /\ x = Head(calls)) \/ i - 1 \in Queued(x)'
  BY <1>1, <1>4 DEF Queued
<1> QED  BY <1>1, <1>2, <1>3, <1>4

(* A thread that arms a flush; the exception of a closed loop ends its     *)
(* call.                                                                   *)
LEMMA ArmKeeps ==
  ASSUME BusInv, NEW t \in Threads, Arm(t)
  PROVE  BusInv'
<1> DEFINE d == NextName(t)
<1>1. /\ writer[t].at = "arm" /\ ~Free(t) /\ t \in Arming
      /\ UNCHANGED <<loop, onChange, closed, pending, scheduled, timer,
                     conn, dirty, woken, outbox, unseen, behind>>
  BY DEF Arm, clients, Free, Arming
<1>2. BusTyped
  BY DEF BusInv
<1>3. Connected' = Connected
  BY <1>1 DEF Connected
<1>4. CASE loop = "closed"
  <2>1. /\ calls' = calls /\ writer' = [writer EXCEPT ![t] = Idle]
        /\ holder' = IF holder = t THEN Nobody ELSE holder
    BY <1>4 DEF Arm, Done
  <2>2. Idle \in Writers /\ Idle.at = "idle" /\ Idle.left = {}
    BY DEF Writers, Idle
  <2>3. /\ writer' \in [Threads -> Writers] /\ writer'[t] = Idle
        /\ \A u \in Threads : u # t => writer'[u] = writer[u]
    BY <1>2, <2>1, <2>2, BusTypes
  <2>4. holder' \in {holder, Nobody} /\ (t # Nobody => holder' # t)
    BY <2>1
  <2>5. BusTyped'
    <3>1. \A u \in Threads : Free(u)' <=> writer'[u].left = {}
      BY <1>2, <2>2, <2>3, BusTypes DEF Free
    <3>2. holder' \in Threads \cup {Nobody}
      BY <1>2, <2>4, BusTypes
    <3> QED  BY <1>1, <1>2, <2>1, <2>3, <3>1, <3>2, BusTypes, TypesOfNext
  <2>6. Arming' \subseteq Arming /\ \A x : Queued(x)' = Queued(x)
    BY <2>1, <2>2, <2>3, SameQueue DEF Arming
  <2>7. closed /\ LoopFits' /\ OneFlush' /\ NothingIsLost' /\ NoneLeftWaiting'
    BY <1>1, <1>3, <1>4, <2>1, <2>6
       DEF BusInv, LoopFits, OneFlush, NothingIsLost, NoneLeftWaiting
  <2>8. ClientsFit'
    BY <1>1, <1>3 DEF BusInv, ClientsFit
  <2>9. ArmedFits'
    <3>1. ASSUME NEW u \in Arming' PROVE u \in Arming /\ NextName(u)' = NextName(u)
      <4>1. u \in Threads /\ u # t
        BY <2>2, <2>3, <3>1 DEF Arming
      <4> QED  BY <2>3, <2>6, <3>1, <4>1, SameName
    <3> QED  BY <1>1, <3>1 DEF BusInv, ArmedFits
  <2>10. LockIsGivenBack'
    BY <1>2, <2>3, <2>4, LockStays, BusTypes DEF BusInv
  <2> QED  BY <2>5, <2>7, <2>8, <2>9, <2>10 DEF BusInv
<1>5. CASE loop # "closed"
  <2>1. Rung(t, d) /\ calls' = Append(calls, "arm")
    BY <1>5 DEF Arm
  <2>2. /\ writer' \in [Threads -> Writers]
        /\ writer'[t].left = writer[t].left \ {d}
        /\ writer'[t].at \in {"idle", "ring"}
        /\ writer'[t].at = "idle" <=> writer'[t].left = {}
        /\ \A u \in Threads : u # t => writer'[u] = writer[u]
        /\ holder' \in {holder, Nobody}
        /\ holder' = t /\ t # Nobody => holder = t /\ writer'[t].at # "idle"
    BY <1>1, <1>2, <2>1, RungForm
  <2>3. /\ calls' \in Seq({"arm", "wake"})
        /\ Queued("arm")' = Queued("arm") \cup {Len(calls) + 1}
        /\ Queued("wake")' = Queued("wake")
    BY <1>2, <2>1, HandedOver, BusTypes
  <2>4. loop = "running"
    BY <1>1, <1>2, <1>5, BusTypes DEF BusInv, LoopFits
  <2>5. scheduled /\ Arming = {t} /\ Queued("arm") = {} /\ ~timer /\ d \in pending
    BY <1>1, <2>4 DEF BusInv, OneFlush, ArmedFits
  <2>6. Arming' = {}
    BY <2>2, <2>5 DEF Arming
  <2>7. BusTyped'
    <3>1. \A u \in Threads : Free(u)' <=> writer'[u].left = {}
      BY <1>2, <2>2, BusTypes DEF Free
    <3>2. holder' \in Threads \cup {Nobody}
      BY <1>2, <2>2, BusTypes
    <3> QED  BY <1>1, <1>2, <2>2, <2>3, <3>1, <3>2, BusTypes, TypesOfNext
  <2>8. OneFlush'
    BY <1>1, <2>3, <2>5, <2>6 DEF OneFlush
  <2>9. LoopFits' /\ NoneLeftWaiting' /\ ArmedFits'
    BY <1>1, <1>3, <2>3, <2>4, <2>6 DEF BusInv, LoopFits, NoneLeftWaiting, ArmedFits
  <2>10. ClientsFit'
    BY <1>1, <1>3 DEF BusInv, ClientsFit
  <2>11. NothingIsLost'
    <3> SUFFICES ASSUME ~closed, NEW p \in behind PROVE Coming(p[1], p[2])'
      BY <1>1 DEF NothingIsLost
    <3>1. Coming(p[1], p[2])
      BY DEF BusInv, NothingIsLost
    <3>2. CASE p[2] \in writer[t].left
      BY <1>1, <2>2, <2>5, <3>2 DEF Coming
    <3>3. CASE p[2] \notin writer[t].left
      BY <1>1, <2>2, <3>1, <3>3 DEF Coming
    <3> QED  BY <3>2, <3>3
  <2>12. LockIsGivenBack'
    BY <1>2, <2>2, LockStays, BusTypes DEF BusInv
  <2> QED  BY <2>7, <2>8, <2>9, <2>10, <2>11, <2>12 DEF BusInv
<1> QED  BY <1>4, <1>5

-----------------------------------------------------------------------------
(* The loop.                                                               *)

LEMMA LoopCallKeeps == ASSUME BusInv, LoopCall PROVE BusInv'
<1>1. /\ loop = "running" /\ calls # <<>> /\ calls' = Tail(calls)
      /\ timer' = (timer \/ Head(calls) = "arm")
      /\ woken' = [c \in Clients |-> woken[c] \/ (Head(calls) = "wake" /\ c \in Connected)]
      /\ UNCHANGED <<loop, onChange, closed, pending, scheduled, writer, holder,
                     conn, dirty, outbox, unseen, behind>>
  BY DEF LoopCall
<1>2. BusTyped
  BY DEF BusInv
<1>3. /\ calls' \in Seq({"arm", "wake"}) /\ Head(calls) \in {"arm", "wake"}
      /\ 1 \in Queued(Head(calls))
      /\ \A x : \A i \in Queued(x)' : i \in Nat /\ i > 0 /\ i + 1 \in Queued(x)
      /\ \A x : \A i \in Queued(x) : (i = 1 /\ x = Head(calls)) \/ i - 1 \in Queued(x)'
  BY <1>1, <1>2, Served, BusTypes
<1>4. /\ woken' \in [Clients -> BOOLEAN] /\ timer' \in BOOLEAN
      /\ \A c \in Clients : woken[c] => woken'[c]
      /\ \A c \in Clients : woken'[c] => woken[c] \/ conn[c] # "off"
      /\ Head(calls) = "wake" => \A c \in Connected : woken'[c]
  BY <1>1, <1>2, BusTypes DEF Connected
<1>5. Connected' = Connected /\ Arming' = Arming
  BY <1>1 DEF Connected, Arming
<1>6. BusTyped'
  BY <1>1, <1>2, <1>3, <1>4, BusTypes, TypesOfNext DEF Free
<1>7. LoopFits'
  BY <1>1, <1>5 DEF BusInv, LoopFits
<1>8. ClientsFit'
  BY <1>1, <1>4, <1>5 DEF BusInv, ClientsFit
<1>9. ArmedFits' /\ LockIsGivenBack'
  <2>1. \A u \in Threads : NextName(u)' = NextName(u)
    BY <1>1, SameName
  <2> QED  BY <1>1, <1>5, <2>1 DEF BusInv, ArmedFits, LockIsGivenBack, Free, Arming
<1>10. OneFlush'
  <2>1. CASE Head(calls) = "arm"
    <3>1. scheduled /\ Arming = {} /\ ~timer /\ \A i \in Queued("arm") : i = 1
      BY <1>1, <1>3, <2>1 DEF BusInv, OneFlush
    <3>2. Queued("arm")' = {}
      <4> SUFFICES ASSUME NEW i \in Queued("arm")' PROVE FALSE
        OBVIOUS
      <4>1. i \in Nat /\ i > 0 /\ i + 1 = 1
        BY <1>3, <3>1
      <4> QED  BY <4>1
    <3> QED  BY <1>1, <1>5, <2>1, <3>1, <3>2 DEF OneFlush
  <2>2. CASE Head(calls) = "wake"
    <3>1. timer' = timer
      BY <1>1, <1>2, <2>2, BusTypes
    <3>2. Queued("arm")' = {} <=> Queued("arm") = {}
      BY <1>3, <2>2
    <3>3. \A i, j \in Queued("arm")' : i = j
      <4> SUFFICES ASSUME NEW i \in Queued("arm")', NEW j \in Queued("arm")' PROVE i = j
        OBVIOUS
      <4>1. i \in Nat /\ j \in Nat /\ i + 1 \in Queued("arm") /\ j + 1 \in Queued("arm")
        BY <1>3
      <4>2. i + 1 = j + 1
        BY <1>1, <4>1 DEF BusInv, OneFlush
      <4> QED  BY <4>1, <4>2
    <3> QED  BY <1>1, <1>5, <3>1, <3>2, <3>3 DEF BusInv, OneFlush
  <2> QED  BY <1>3, <2>1, <2>2
<1>11. NoneLeftWaiting'
  <2>1. CASE Head(calls) = "wake"
    BY <1>1, <1>4, <1>5, <2>1 DEF NoneLeftWaiting
  <2>2. CASE Head(calls) # "wake"
    <3>1. Queued("wake") # {} => Queued("wake")' # {}
      BY <1>3, <2>2
    <3> QED  BY <1>1, <1>4, <1>5, <3>1 DEF BusInv, NoneLeftWaiting, Connected
  <2> QED  BY <2>1, <2>2
<1>12. NothingIsLost'
  <2> SUFFICES ASSUME ~closed, NEW p \in behind PROVE Coming(p[1], p[2])'
    BY <1>1 DEF NothingIsLost
  <2>1. Coming(p[1], p[2]) /\ p[1] \in Clients
    BY DEF BusInv, NothingIsLost, ClientsFit, Connected
  <2> QED  BY <1>1, <1>4, <2>1 DEF Coming
<1> QED  BY <1>6, <1>7, <1>8, <1>9, <1>10, <1>11, <1>12 DEF BusInv

LEMMA SameWriters ==
  ASSUME UNCHANGED writer
  PROVE  /\ Arming' = Arming
         /\ \A t \in Threads : NextName(t)' = NextName(t) /\ Free(t)' = Free(t)
<1>1. ASSUME NEW t \in Threads PROVE NextName(t)' = NextName(t)
  BY SameName
<1> QED  BY <1>1 DEF Arming, Free

LEMMA FlushKeeps == ASSUME BusInv, Flush PROVE BusInv'
<1>1. /\ loop = "running" /\ timer
      /\ pending' = {} /\ scheduled' = FALSE /\ timer' = FALSE
      /\ dirty' = [c \in Clients |-> IF c \in Connected THEN dirty[c] \cup pending ELSE dirty[c]]
      /\ woken' = [c \in Clients |-> woken[c] \/ c \in Connected]
      /\ UNCHANGED <<loop, onChange, closed, calls, writer, holder, conn, outbox, unseen, behind>>
  BY DEF Flush
<1>2. BusTyped
  BY DEF BusInv
<1>3. Connected' = Connected /\ Arming' = Arming /\ \A x : Queued(x)' = Queued(x)
  BY <1>1, SameWriters, SameQueue DEF Connected
<1>4. Arming = {} /\ Queued("arm") = {}
  BY <1>1 DEF BusInv, OneFlush
<1>5. /\ dirty' \in [Clients -> SUBSET Names] /\ woken' \in [Clients -> BOOLEAN]
      /\ \A c \in Connected : woken'[c] /\ dirty'[c] = dirty[c] \cup pending
      /\ \A c \in Clients \ Connected : (woken'[c] <=> woken[c]) /\ dirty'[c] = dirty[c]
  BY <1>1, <1>2, BusTypes DEF Connected
<1>6. BusTyped'
  BY <1>1, <1>2, <1>5, BusTypes, TypesOfNext DEF Free
<1>7. LoopFits' /\ OneFlush' /\ ArmedFits'
  BY <1>1, <1>3, <1>4 DEF BusInv, LoopFits, OneFlush, ArmedFits
<1>8. ClientsFit'
  BY <1>1, <1>3, <1>5 DEF BusInv, ClientsFit, Connected
<1>9. NoneLeftWaiting' /\ LockIsGivenBack'
  BY <1>1, <1>3, <1>5 DEF BusInv, NoneLeftWaiting, LockIsGivenBack, Free
<1>10. NothingIsLost'
  <2> SUFFICES ASSUME ~closed, NEW p \in behind PROVE Coming(p[1], p[2])'
    BY <1>1 DEF NothingIsLost
  <2>1. Coming(p[1], p[2]) /\ p[1] \in Connected
    BY DEF BusInv, NothingIsLost, ClientsFit
  <2> QED  BY <1>1, <1>5, <2>1 DEF Coming
<1> QED  BY <1>6, <1>7, <1>8, <1>9, <1>10 DEF BusInv

LEMMA PollKeeps == ASSUME BusInv, Poll PROVE BusInv'
<1>1. /\ loop = "running" /\ onChange /\ unseen' = FALSE
      /\ pending' = pending \cup {Anything} /\ scheduled' = TRUE
      /\ calls' = IF ArmsFlush THEN Append(calls, "arm") ELSE calls
      /\ UNCHANGED <<loop, onChange, closed, timer, writer, holder,
                     conn, dirty, woken, outbox, behind>>
  BY DEF Poll, clients
<1>2. BusTyped /\ Anything \in Names
  BY DEF BusInv, Names
<1>3. Connected' = Connected /\ Arming' = Arming
      /\ \A t \in Threads : NextName(t)' = NextName(t) /\ Free(t)' = Free(t)
  BY <1>1, SameWriters DEF Connected
<1>4. /\ calls' \in Seq({"arm", "wake"}) /\ Queued("wake")' = Queued("wake")
      /\ scheduled => Queued("arm")' = Queued("arm")
      /\ ~scheduled => Queued("arm")' = Queued("arm") \cup {Len(calls) + 1}
  <2>1. ArmsFlush <=> ~scheduled
    BY <1>1 DEF ArmsFlush
  <2>2. CASE scheduled
    BY <1>1, <1>2, <2>1, <2>2, SameQueue, BusTypes
  <2>3. CASE ~scheduled
    BY <1>1, <1>2, <2>1, <2>3, HandedOver, BusTypes
  <2> QED  BY <2>2, <2>3
<1>5. BusTyped'
  BY <1>1, <1>2, <1>3, <1>4, BusTypes, TypesOfNext
<1>6. OneFlush'
  <2>1. CASE scheduled
    BY <1>1, <1>3, <1>4, <2>1 DEF BusInv, OneFlush
  <2>2. CASE ~scheduled
    <3>1. Arming = {} /\ Queued("arm") = {} /\ ~timer
      BY <1>1, <2>2 DEF BusInv, OneFlush
    <3> QED  BY <1>1, <1>3, <1>4, <2>2, <3>1 DEF OneFlush
  <2> QED  BY <2>1, <2>2
<1>7. LoopFits' /\ ArmedFits' /\ ClientsFit' /\ NoneLeftWaiting' /\ LockIsGivenBack'
  BY <1>1, <1>3, <1>4
     DEF BusInv, LoopFits, ArmedFits, ClientsFit, NoneLeftWaiting, LockIsGivenBack, Arming, Free
<1>8. NothingIsLost'
  <2> SUFFICES ASSUME ~closed, NEW p \in behind PROVE Coming(p[1], p[2])'
    BY <1>1 DEF NothingIsLost
  <2>1. Coming(p[1], p[2])
    BY DEF BusInv, NothingIsLost
  <2> QED  BY <1>1, <2>1 DEF Coming
<1> QED  BY <1>5, <1>6, <1>7, <1>8 DEF BusInv

LEMMA ForeignKeeps ==
  ASSUME BusInv, NEW d \in Datasets, ForeignCommit(d)
  PROVE  BusInv'
<1>1. /\ unseen' = onChange /\ behind' = behind \cup (Connected \X {d})
      /\ UNCHANGED <<loop, onChange, closed, pending, scheduled, calls, timer, writer, holder,
                     conn, dirty, woken, outbox>>
  BY DEF ForeignCommit, bus, clients, Unaware
<1>2. BusTyped
  BY DEF BusInv
<1>3. Connected' = Connected /\ Arming' = Arming /\ (\A x : Queued(x)' = Queued(x))
      /\ \A t \in Threads : NextName(t)' = NextName(t) /\ Free(t)' = Free(t)
  BY <1>1, SameWriters, SameQueue DEF Connected
<1>4. BusTyped'
  <2>1. behind' \in SUBSET (Clients \X Datasets) /\ unseen' \in BOOLEAN
    BY <1>1, <1>2, BusTypes DEF Connected
  <2> QED  BY <1>1, <1>2, <1>3, <2>1, BusTypes, TypesOfNext
<1>5. LoopFits' /\ OneFlush' /\ ArmedFits' /\ ClientsFit' /\ NoneLeftWaiting' /\ LockIsGivenBack'
  BY <1>1, <1>3 DEF BusInv, LoopFits, OneFlush, ArmedFits, ClientsFit, NoneLeftWaiting,
                    LockIsGivenBack, Arming, Free
<1>6. NothingIsLost'
  <2> SUFFICES ASSUME ~closed, NEW p \in behind' PROVE Coming(p[1], p[2])'
    BY <1>1 DEF NothingIsLost
  <2>1. p[1] \in Connected
    BY <1>1 DEF BusInv, ClientsFit
  <2>2. onChange
    BY <1>2, <2>1, BusTypes DEF BusInv, LoopFits
  <2> QED  BY <1>1, <2>2 DEF Coming
<1> QED  BY <1>4, <1>5, <1>6 DEF BusInv

-----------------------------------------------------------------------------
(* The generators.                                                         *)

(* Nothing but one client's state changes.                                 *)
LEMMA OnlyClients ==
  ASSUME BusInv,
         UNCHANGED <<loop, onChange, closed, pending, scheduled, calls, timer, writer, holder, unseen>>,
         conn' \in [Clients -> {"off", "waiting", "sending"}],
         dirty' \in [Clients -> SUBSET Names], outbox' \in [Clients -> SUBSET Names],
         woken' \in [Clients -> BOOLEAN], behind' \in SUBSET (Clients \X Datasets),
         loop = "running" \/ Connected' \subseteq Connected
  PROVE  /\ BusTyped' /\ LoopFits' /\ ArmedFits' /\ OneFlush' /\ LockIsGivenBack'
         /\ \A x : Queued(x)' = Queued(x)
<1>1. BusTyped
  BY DEF BusInv
<1>2. Arming' = Arming /\ (\A x : Queued(x)' = Queued(x))
      /\ \A t \in Threads : NextName(t)' = NextName(t) /\ Free(t)' = Free(t)
  BY SameWriters, SameQueue
<1>3. BusTyped'
  BY <1>1, <1>2, BusTypes, TypesOfNext
<1>4. LoopFits' /\ OneFlush' /\ ArmedFits' /\ LockIsGivenBack'
  BY <1>2 DEF BusInv, LoopFits, OneFlush, ArmedFits, LockIsGivenBack, Arming, Free
<1> QED  BY <1>2, <1>3, <1>4

LEMMA UnregisterKeeps ==
  ASSUME BusInv, NEW c \in Clients, Unregister(c),
         UNCHANGED <<loop, onChange, bus, writer, holder, unseen>>
  PROVE  BusInv'
<1>1. /\ conn' = [conn EXCEPT ![c] = "off"] /\ dirty' = [dirty EXCEPT ![c] = {}]
      /\ woken' = [woken EXCEPT ![c] = FALSE] /\ outbox' = [outbox EXCEPT ![c] = {}]
      /\ behind' = {p \in behind : p[1] # c}
      /\ UNCHANGED <<loop, onChange, closed, pending, scheduled, calls, timer, writer, holder, unseen>>
  BY DEF Unregister, bus
<1>2. BusTyped
  BY DEF BusInv
<1>3. /\ conn' \in [Clients -> {"off", "waiting", "sending"}]
      /\ dirty' \in [Clients -> SUBSET Names] /\ outbox' \in [Clients -> SUBSET Names]
      /\ woken' \in [Clients -> BOOLEAN] /\ behind' \in SUBSET (Clients \X Datasets)
      /\ conn'[c] = "off" /\ dirty'[c] = {} /\ outbox'[c] = {} /\ ~woken'[c]
      /\ \A b \in Clients : b # c =>
           /\ conn'[b] = conn[b] /\ dirty'[b] = dirty[b] /\ outbox'[b] = outbox[b]
           /\ woken'[b] = woken[b]
  BY <1>1, <1>2, BusTypes
<1>4. Connected' = Connected \ {c}
  BY <1>3 DEF Connected
<1>5. /\ BusTyped' /\ LoopFits' /\ ArmedFits' /\ OneFlush' /\ LockIsGivenBack'
      /\ \A x : Queued(x)' = Queued(x)
  BY <1>1, <1>3, <1>4, OnlyClients
<1>6. ClientsFit'
  BY <1>1, <1>3, <1>4 DEF BusInv, ClientsFit
<1>7. NoneLeftWaiting'
  BY <1>1, <1>3, <1>4, <1>5 DEF BusInv, NoneLeftWaiting, Connected
<1>8. NothingIsLost'
  <2> SUFFICES ASSUME ~closed, NEW p \in behind' PROVE Coming(p[1], p[2])'
    BY <1>1 DEF NothingIsLost
  <2>1. Coming(p[1], p[2]) /\ p[1] \in Clients /\ p[1] # c
    BY <1>1 DEF BusInv, NothingIsLost, ClientsFit, Connected
  <2> QED  BY <1>1, <1>3, <2>1 DEF Coming
<1> QED  BY <1>5, <1>6, <1>7, <1>8 DEF BusInv

LEMMA ConnectKeeps == ASSUME BusInv, NEW c \in Clients, Connect(c) PROVE BusInv'
<1>1. /\ loop = "running" /\ ~closed /\ conn[c] = "off"
      /\ conn' = [conn EXCEPT ![c] = "waiting"]
      /\ UNCHANGED <<loop, onChange, closed, pending, scheduled, calls, timer, writer, holder,
                     unseen, dirty, woken, outbox, behind>>
  BY DEF Connect, bus
<1>2. BusTyped
  BY DEF BusInv
<1>3. /\ conn' \in [Clients -> {"off", "waiting", "sending"}] /\ conn'[c] = "waiting"
      /\ \A b \in Clients : b # c => conn'[b] = conn[b]
  BY <1>1, <1>2, BusTypes
<1>4. /\ BusTyped' /\ LoopFits' /\ ArmedFits' /\ OneFlush' /\ LockIsGivenBack'
      /\ \A x : Queued(x)' = Queued(x)
  BY <1>1, <1>2, <1>3, OnlyClients, BusTypes
<1>5. ClientsFit' /\ NoneLeftWaiting'
  BY <1>1, <1>3 DEF BusInv, ClientsFit, Connected, NoneLeftWaiting
<1>6. NothingIsLost'
  <2> SUFFICES ASSUME NEW p \in behind PROVE Coming(p[1], p[2])'
    BY <1>1 DEF NothingIsLost
  <2>1. Coming(p[1], p[2]) /\ p[1] \in Clients /\ p[1] # c
    BY <1>1 DEF BusInv, NothingIsLost, ClientsFit, Connected
  <2> QED  BY <1>1, <1>3, <2>1 DEF Coming
<1> QED  BY <1>4, <1>5, <1>6 DEF BusInv

LEMMA WakeKeeps == ASSUME BusInv, NEW c \in Clients, Wake(c) PROVE BusInv'
<1>1. CASE dirty[c] = {} /\ closed
  BY <1>1, UnregisterKeeps DEF Wake
<1>2. CASE ~(dirty[c] = {} /\ closed)
  <2> DEFINE next == IF dirty[c] = {} THEN conn[c] ELSE "sending"
  <2>1. /\ conn[c] = "waiting" /\ woken[c] /\ loop = "running"
        /\ woken' = [woken EXCEPT ![c] = FALSE] /\ outbox' = [outbox EXCEPT ![c] = dirty[c]]
        /\ dirty' = [dirty EXCEPT ![c] = {}] /\ conn' = [conn EXCEPT ![c] = next]
        /\ UNCHANGED <<loop, onChange, closed, pending, scheduled, calls, timer, writer, holder,
                       unseen, behind>>
    BY <1>2 DEF Wake, bus
  <2>2. BusTyped
    BY DEF BusInv
  <2>3. next \in {"waiting", "sending"} /\ (next = "sending" <=> dirty[c] # {})
    BY <2>1
  <2> HIDE DEF next
  <2>4. /\ conn' \in [Clients -> {"off", "waiting", "sending"}] /\ conn'[c] = next
        /\ dirty' \in [Clients -> SUBSET Names] /\ outbox' \in [Clients -> SUBSET Names]
        /\ woken' \in [Clients -> BOOLEAN]
        /\ dirty'[c] = {} /\ outbox'[c] = dirty[c] /\ ~woken'[c]
        /\ \A b \in Clients : b # c =>
             /\ conn'[b] = conn[b] /\ dirty'[b] = dirty[b] /\ outbox'[b] = outbox[b]
             /\ woken'[b] = woken[b]
    BY <2>1, <2>2, <2>3, BusTypes
  <2>5. Connected' = Connected
    BY <2>1, <2>3, <2>4 DEF Connected
  <2>6. /\ BusTyped' /\ LoopFits' /\ ArmedFits' /\ OneFlush' /\ LockIsGivenBack'
        /\ \A x : Queued(x)' = Queued(x)
    BY <2>1, <2>2, <2>4, OnlyClients, BusTypes
  <2>7. ClientsFit'
    BY <2>1, <2>3, <2>4, <2>5 DEF BusInv, ClientsFit
  <2>8. NoneLeftWaiting'
    BY <1>2, <2>1, <2>3, <2>4, <2>5, <2>6 DEF BusInv, NoneLeftWaiting, Connected
  <2>9. NothingIsLost'
    <3> SUFFICES ASSUME ~closed, NEW p \in behind PROVE Coming(p[1], p[2])'
      BY <2>1 DEF NothingIsLost
    <3>1. Coming(p[1], p[2]) /\ p[1] \in Clients
      BY DEF BusInv, NothingIsLost, ClientsFit, Connected
    <3>2. CASE p[1] # c
      BY <2>1, <2>4, <3>1, <3>2 DEF Coming
    <3>3. CASE p[1] = c
      <4>1. \/ \E t \in Threads : p[2] \in writer[t].left
            \/ unseen
            \/ scheduled /\ {p[2], Anything} \cap pending # {}
            \/ {p[2], Anything} \cap dirty[c] # {}
        BY <2>1, <3>1, <3>3 DEF Coming
      <4>2. {p[2], Anything} \cap dirty[c] # {} =>
              conn'[c] = "sending" /\ {p[2], Anything} \cap outbox'[c] # {}
        BY <2>3, <2>4
      <4> QED  BY <2>1, <3>3, <4>1, <4>2 DEF Coming
    <3> QED  BY <3>2, <3>3
  <2> QED  BY <2>6, <2>7, <2>8, <2>9 DEF BusInv
<1> QED  BY <1>1, <1>2

LEMMA SendKeeps == ASSUME BusInv, NEW c \in Clients, Send(c) PROVE BusInv'
<1>1. PICK n \in outbox[c] :
        IF outbox[c] = {n} /\ closed
        THEN Unregister(c)
        ELSE /\ outbox' = [outbox EXCEPT ![c] = @ \ {n}]
             /\ conn' = [conn EXCEPT ![c] = IF outbox[c] = {n} THEN "waiting" ELSE @]
             /\ behind' = behind \ Refetched(c, n)
             /\ woken' = [woken EXCEPT ![c] = StillWoken(c)]
             /\ UNCHANGED dirty
  BY DEF Send
<1>2. /\ loop = "running" /\ conn[c] = "sending"
      /\ UNCHANGED <<loop, onChange, bus, writer, holder, unseen>>
  BY DEF Send
<1>3. CASE outbox[c] = {n} /\ closed
  BY <1>1, <1>2, <1>3, UnregisterKeeps
<1>4. CASE ~(outbox[c] = {n} /\ closed)
  <2> DEFINE next == IF outbox[c] = {n} THEN "waiting" ELSE conn[c]
             left == outbox[c] \ {n}
  <2>1. /\ outbox' = [outbox EXCEPT ![c] = left] /\ conn' = [conn EXCEPT ![c] = next]
        /\ behind' = behind \ Refetched(c, n) /\ woken' = [woken EXCEPT ![c] = woken[c]]
        /\ UNCHANGED <<loop, onChange, closed, pending, scheduled, calls, timer, writer, holder,
                       unseen, dirty>>
    BY <1>1, <1>2, <1>4 DEF bus, StillWoken
  <2>2. BusTyped
    BY DEF BusInv
  <2>3. next \in {"waiting", "sending"} /\ (next = "sending" <=> left # {})
        /\ left \in SUBSET Names /\ (closed => left # {})
    BY <1>1, <1>2, <1>4, <2>2, BusTypes
  <2> HIDE DEF next
  <2>4. /\ conn' \in [Clients -> {"off", "waiting", "sending"}] /\ conn'[c] = next
        /\ dirty' = dirty /\ outbox' \in [Clients -> SUBSET Names] /\ outbox'[c] = left
        /\ woken' = woken /\ behind' \subseteq behind
        /\ \A b \in Clients : b # c => conn'[b] = conn[b] /\ outbox'[b] = outbox[b]
    BY <2>1, <2>2, <2>3, BusTypes
  <2>5. Connected' = Connected
    BY <1>2, <2>3, <2>4 DEF Connected
  <2>6. /\ BusTyped' /\ LoopFits' /\ ArmedFits' /\ OneFlush' /\ LockIsGivenBack'
        /\ \A x : Queued(x)' = Queued(x)
    <3>1. behind' \in SUBSET (Clients \X Datasets) /\ dirty' \in [Clients -> SUBSET Names]
          /\ woken' \in [Clients -> BOOLEAN]
      BY <2>2, <2>4, BusTypes
    <3> QED  BY <1>2, <2>1, <2>4, <3>1, OnlyClients
  <2>7. ClientsFit'
    BY <1>2, <2>1, <2>3, <2>4, <2>5 DEF BusInv, ClientsFit
  <2>8. NoneLeftWaiting'
    BY <2>1, <2>3, <2>4, <2>5, <2>6 DEF BusInv, NoneLeftWaiting, Connected
  <2>9. NothingIsLost'
    <3> SUFFICES ASSUME ~closed, NEW p \in behind' PROVE Coming(p[1], p[2])'
      BY <2>1 DEF NothingIsLost
    <3>1. Coming(p[1], p[2]) /\ p[1] \in Clients /\ p \in behind /\ p \notin Refetched(c, n)
      BY <2>1 DEF BusInv, NothingIsLost, ClientsFit, Connected
    <3>2. CASE p[1] # c
      BY <2>1, <2>4, <3>1, <3>2 DEF Coming
    <3>3. CASE p[1] = c
      <4>1. n \notin {p[2], Anything}
        BY <3>1, <3>3 DEF Refetched
      <4>2. {p[2], Anything} \cap outbox[c] # {} => {p[2], Anything} \cap left # {} /\ left # {}
        BY <4>1
      <4> HIDE DEF left
      <4> QED  BY <2>1, <2>3, <2>4, <3>1, <3>3, <4>2 DEF Coming
    <3> QED  BY <3>2, <3>3
  <2> QED  BY <2>6, <2>7, <2>8, <2>9 DEF BusInv
<1> QED  BY <1>3, <1>4

-----------------------------------------------------------------------------
(* The lifespan.                                                           *)

LEMMA AttachKeeps == ASSUME BusInv, Attach PROVE BusInv'
<1>1. /\ loop = "none" /\ loop' = "running" /\ onChange' = TRUE /\ unseen' = FALSE
      /\ UNCHANGED <<closed, pending, scheduled, calls, timer, writer, holder,
                     conn, dirty, woken, outbox, behind>>
  BY DEF Attach, bus, clients
<1>2. BusTyped
  BY DEF BusInv
<1>3. Connected' = Connected /\ Arming' = Arming /\ (\A x : Queued(x)' = Queued(x))
      /\ \A t \in Threads : NextName(t)' = NextName(t) /\ Free(t)' = Free(t)
  BY <1>1, SameWriters, SameQueue DEF Connected
<1>4. /\ ~closed /\ pending = {} /\ ~scheduled /\ Arming = {} /\ ~timer /\ behind = {}
      /\ Queued("arm") = {}
  BY <1>1 DEF BusInv, LoopFits, ClientsFit, Queued
<1>5. BusTyped'
  BY <1>1, <1>2, <1>3, BusTypes, TypesOfNext
<1>6. LoopFits' /\ OneFlush' /\ ArmedFits' /\ ClientsFit' /\ NoneLeftWaiting' /\ LockIsGivenBack'
      /\ NothingIsLost'
  BY <1>1, <1>3, <1>4 DEF BusInv, LoopFits, OneFlush, ArmedFits, ClientsFit, NoneLeftWaiting,
                          LockIsGivenBack, NothingIsLost, Free
<1> QED  BY <1>5, <1>6 DEF BusInv

LEMMA DetachKeeps == ASSUME BusInv, Detach PROVE BusInv'
<1>1. /\ loop = "running" /\ onChange' = FALSE /\ closed' = TRUE /\ unseen' = FALSE
      /\ calls' = Append(calls, "wake")
      /\ UNCHANGED <<loop, pending, scheduled, timer, writer, holder,
                     conn, dirty, woken, outbox, behind>>
  BY DEF Detach, clients
<1>2. BusTyped
  BY DEF BusInv
<1>3. Connected' = Connected /\ Arming' = Arming
      /\ \A t \in Threads : NextName(t)' = NextName(t) /\ Free(t)' = Free(t)
  BY <1>1, SameWriters DEF Connected
<1>4. calls' \in Seq({"arm", "wake"}) /\ Queued("arm")' = Queued("arm") /\ Queued("wake")' # {}
  BY <1>1, <1>2, HandedOver, BusTypes
<1>5. BusTyped'
  BY <1>1, <1>2, <1>3, <1>4, BusTypes, TypesOfNext
<1>6. LoopFits' /\ OneFlush' /\ ArmedFits' /\ ClientsFit' /\ NoneLeftWaiting' /\ LockIsGivenBack'
      /\ NothingIsLost'
  BY <1>1, <1>3, <1>4 DEF BusInv, LoopFits, OneFlush, ArmedFits, ClientsFit, NoneLeftWaiting,
                          LockIsGivenBack, NothingIsLost, Arming, Free
<1> QED  BY <1>5, <1>6 DEF BusInv

LEMMA LoopEndsKeeps == ASSUME BusInv, LoopEnds PROVE BusInv'
<1>1. /\ loop = "running" /\ closed /\ loop' = "closed"
      /\ conn' = [c \in Clients |-> "off"] /\ dirty' = [c \in Clients |-> {}]
      /\ woken' = [c \in Clients |-> FALSE] /\ outbox' = [c \in Clients |-> {}]
      /\ calls' = <<>> /\ timer' = FALSE /\ behind' = {}
      /\ UNCHANGED <<onChange, closed, pending, scheduled, writer, holder, unseen>>
  BY DEF LoopEnds
<1>2. BusTyped
  BY DEF BusInv
<1>3. Connected' = {} /\ Arming' = Arming
      /\ \A t \in Threads : NextName(t)' = NextName(t) /\ Free(t)' = Free(t)
  BY <1>1, SameWriters DEF Connected
<1>4. BusTyped'
  <2>1. calls' \in Seq({"arm", "wake"}) /\ loop' \in {"none", "running", "closed"}
    BY <1>1
  <2> QED  BY <1>1, <1>2, <1>3, <2>1, BusTypes, TypesOfNext
<1>5. LoopFits' /\ OneFlush' /\ ArmedFits' /\ ClientsFit' /\ NoneLeftWaiting' /\ LockIsGivenBack'
      /\ NothingIsLost'
  BY <1>1, <1>3 DEF BusInv, LoopFits, OneFlush, ArmedFits, ClientsFit, NoneLeftWaiting,
                    LockIsGivenBack, NothingIsLost, Arming, Free
<1> QED  BY <1>4, <1>5 DEF BusInv

LEMMA ProcessEndsKeeps == ASSUME BusInv, ProcessEnds PROVE BusInv'
<1> USE DEF ProcessEnds
<1>1. writer' \in [Threads -> Writers] /\ (\A t \in Threads : writer'[t].at = "idle" /\ writer'[t].left = {})
  BY DEF Idle, Writers
<1>2. Connected' = {} /\ Arming' = {}
  BY <1>1 DEF Connected, Arming
<1>3. BusTyped'
  <2>1. calls' \in Seq({"arm", "wake"})
    OBVIOUS
  <2> QED  BY <1>1, <2>1, TypesOfNext DEF Free
<1>4. LoopFits' /\ OneFlush' /\ ArmedFits' /\ ClientsFit' /\ NoneLeftWaiting' /\ LockIsGivenBack'
      /\ NothingIsLost'
  BY <1>2 DEF LoopFits, OneFlush, ArmedFits, ClientsFit, NoneLeftWaiting, LockIsGivenBack,
              NothingIsLost
<1> QED  BY <1>3, <1>4 DEF BusInv

LEMMA BusStep == BusInv /\ [BusNext]_busVars => BusInv'
<1> SUFFICES ASSUME BusInv, [BusNext]_busVars PROVE BusInv'
  OBVIOUS
<1>1. CASE UNCHANGED busVars
  <2>1. UNCHANGED <<loop, onChange, closed, pending, scheduled, calls, timer, writer, holder,
                    conn, dirty, woken, outbox, unseen, behind>>
    BY <1>1 DEF busVars, bus, clients
  <2>2. BusTyped' /\ LoopFits' /\ ArmedFits' /\ OneFlush' /\ LockIsGivenBack'
        /\ \A x : Queued(x)' = Queued(x)
    <3>1. BusTyped /\ Connected' = Connected
      BY <2>1 DEF BusInv, Connected
    <3> QED  BY <2>1, <3>1, OnlyClients, BusTypes
  <2>3. ClientsFit' /\ NothingIsLost' /\ NoneLeftWaiting'
    BY <2>1, <2>2 DEF BusInv, ClientsFit, NothingIsLost, NoneLeftWaiting, Coming, Connected
  <2> QED  BY <2>2, <2>3 DEF BusInv
<1>2. CASE LifecycleWrite \/ BatchWrite \/ \E t \in Handlers : FormWrite(t)
  BY <1>2, WritesKeep DEF Threads
<1>3. CASE \E t \in Threads : WriterStep(t)
  BY <1>3, RingKeeps, ArmKeeps DEF WriterStep
<1>4. CASE LoopCall
  BY <1>4, LoopCallKeeps
<1>5. CASE Flush
  BY <1>5, FlushKeeps
<1>6. CASE Poll
  BY <1>6, PollKeeps
<1>7. CASE \E d \in Datasets : ForeignCommit(d)
  BY <1>7, ForeignKeeps
<1>8. ASSUME NEW c \in Clients, Connect(c) PROVE BusInv'
  BY <1>8, ConnectKeeps
<1>9. ASSUME NEW c \in Clients, Wake(c) PROVE BusInv'
  BY <1>9, WakeKeeps
<1>10. ASSUME NEW c \in Clients, IdleTick(c) PROVE BusInv'
  BY <1>10, UnregisterKeeps DEF IdleTick
<1>11. ASSUME NEW c \in Clients, Send(c) PROVE BusInv'
  BY <1>11, SendKeeps
<1>12. ASSUME NEW c \in Clients, Disconnect(c) PROVE BusInv'
  BY <1>12, UnregisterKeeps DEF Disconnect
<1>13. CASE Attach
  BY <1>13, AttachKeeps
<1>14. CASE Detach
  BY <1>14, DetachKeeps
<1>15. CASE LoopEnds
  BY <1>15, LoopEndsKeeps
<1>16. CASE ProcessEnds
  BY <1>16, ProcessEndsKeeps
<1> QED  BY <1>1, <1>2, <1>3, <1>4, <1>5, <1>6, <1>7, <1>8, <1>9, <1>10, <1>11, <1>12,
            <1>13, <1>14, <1>15, <1>16 DEF BusNext

LEMMA BusHolds == BusSpec => []BusInv
BY BusStarts, BusStep, PTL DEF BusSpec

(* The bus, the writers and the clients keep their types, for any number   *)
(* of browsers, threads and datasets.                                      *)
THEOREM BusTypeCorrect == BusSpec => []BusTypeOK
BY BusHolds, PTL DEF BusInv, BusTyped

(* _flush_scheduled is set just when one flush is on its way, however many *)
(* threads ring while it is armed, is served, or runs.                     *)
THEOREM FlushCorrect == BusSpec => []OneFlush
BY BusHolds, PTL DEF BusInv

(* Whatever threads and other processes commit, and however their names    *)
(* are coalesced, the news of every commit stays on its way to each        *)
(* browser that was connected, until it is told or the bus is closed.      *)
THEOREM NewsIsKept == BusSpec => []NothingIsLost
BY BusHolds, PTL DEF BusInv

(* Closing the bus reaches every generator, and leaves no lock held by a   *)
(* thread that has nothing left to ring.                                   *)
THEOREM CloseCorrect == BusSpec => [](NoneLeftWaiting /\ LockIsGivenBack)
BY BusHolds, PTL DEF BusInv
==============================================================================
