------------------------------ MODULE Settings ------------------------------
(***************************************************************************)
(* The configuration file and its three copies: what the file holds, what  *)
(* the live Config object holds, and what the parts captured when the      *)
(* process started.  The setup wizard writes the file before it adds the   *)
(* account that lets the pipeline start; the settings page writes it while *)
(* the daemon runs.  Requests are served by several threads, a write to    *)
(* the file truncates it before it fills it, and the web thread dies with  *)
(* the process, whatever it is doing.                                      *)
(***************************************************************************)
CONSTANTS
  Servers,       \* threads that serve requests
  Keys,          \* settings, by their dotted names
  WizardKeys,    \* those the setup wizard asks for
  RestartKeys,   \* RESTART_REQUIRED: captured by their consumer at startup
  EnvKeys,       \* those an environment variable overrides
  OptKeys,       \* those whose default, None, is spelled by no line at all
  Values,        \* what a setting may be
  Default,       \* a setting's value when nothing sets it
  Overridden,    \* its value by the environment
  Accounts       \* account names

Absent == "absent"

ASSUME SettingsAssumption ==
  /\ WizardKeys # {} /\ WizardKeys \subseteq Keys /\ RestartKeys \subseteq Keys
  /\ EnvKeys \subseteq Keys /\ OptKeys \subseteq Keys \ WizardKeys
  /\ {Default, Overridden} \subseteq Values /\ Absent \notin Values

VARIABLES
  file,      \* the values the file sets
  process,   \* "down", "setup" while the wizard is served, or "serving"
  cfg,       \* the Config object
  boot,      \* the values captured when the process started
  announced, \* pending_restart
  request,   \* request[t]: the write of thread t and how far it is
  users,     \* the accounts
  done,      \* the wizard has completed
  mixed,     \* history: writes of this process overlapped, or one failed midway
  lost       \* history: a write was cut short midway, or a save read one midway

settingsVars == <<file, process, cfg, boot, announced, request, users, done, mixed, lost>>

NoRequest == [at |-> "idle"]
At(t, places) == request[t].at \in places
Quiet == \A t \in Servers : At(t, {"idle"})
HalfWritten == \E t \in Servers : At(t, {"fill"})

LoadAsWritten(f) == f
(* load_config: the defaults, then the file, then the environment.         *)
Load(f) == [k \in Keys |->
  IF k \in EnvKeys THEN Overridden ELSE IF f[k] = Absent THEN Default ELSE f[k]]

Overlay(f, u) == [k \in Keys |-> IF k \in DOMAIN u THEN u[k] ELSE f[k]]
(* None removes the line: TOML has no null.                                *)
Line(k, v) == IF k \in OptKeys /\ v = Default THEN Absent ELSE v
WrittenAfresh(f, u) == [k \in Keys |-> IF k \in DOMAIN u THEN Line(k, u[k]) ELSE Absent]
Written(f, u) == Overlay(f, [k \in DOMAIN u |-> Line(k, u[k])])

(* The template, whose every setting is commented out.                     *)
Template == [k \in Keys |-> Absent]

SettingsInit ==
  /\ file = Template /\ process = "down"
  /\ cfg = Load(Template) /\ boot = Load(Template)
  /\ announced = {}
  /\ request = [t \in Servers |-> NoRequest]
  /\ users = {} /\ done = FALSE
  /\ mixed = FALSE /\ lost = FALSE

Updates == UNION {[ks -> Values] : ks \in (SUBSET Keys) \ {{}}}

SettingsTypeOK ==
  /\ file \in [Keys -> Values \cup {Absent}]
  /\ process \in {"down", "setup", "serving"}
  /\ cfg \in [Keys -> Values] /\ boot \in [Keys -> Values]
  /\ announced \subseteq RestartKeys
  /\ \A t \in Servers : ~At(t, {"idle"}) =>
       /\ At(t, {"read", "truncate", "fill", "apply", "account"})
       /\ request[t].values \in Updates
       /\ request[t].doc \in [Keys -> Values \cup {Absent}]
  /\ users \subseteq Accounts
  /\ {done, mixed, lost} \subseteq BOOLEAN

-----------------------------------------------------------------------------
(* The process: `tallyho run', its wizard, and its end.                    *)

Serve ==
  /\ process' = "serving"
  /\ cfg' = Load(file) /\ boot' = Load(file)
  /\ announced' = {} /\ mixed' = FALSE

(* ensure_setup: with no account yet, the wizard is served first.          *)
Start ==
  /\ process = "down"
  /\ done' = FALSE
  /\ IF users = {}
     THEN process' = "setup" /\ UNCHANGED <<cfg, boot, announced, mixed>>
     ELSE Serve
  /\ UNCHANGED <<file, request, users, lost>>

(* The wizard's server stops once its requests are answered.               *)
SetupEnds ==
  /\ process = "setup" /\ done /\ Quiet
  /\ Serve
  /\ UNCHANGED <<file, request, users, done, lost>>

(* A restart from the settings page, an interrupt, or a crash: the thread  *)
(* that serves the requests is a daemon thread.                            *)
Stop ==
  /\ process # "down"
  /\ process' = "down"
  /\ request' = [t \in Servers |-> NoRequest]
  /\ lost' = (lost \/ HalfWritten)
  /\ UNCHANGED <<file, cfg, boot, announced, users, done, mixed>>

-----------------------------------------------------------------------------
(* The requests.                                                           *)

Accept(t, u) ==
  /\ request' = [request EXCEPT ![t] = [at |-> "read", values |-> u, doc |-> Template]]
  /\ mixed' = (mixed \/ ~Quiet)
  /\ UNCHANGED <<file, process, cfg, boot, announced, users, done, lost>>

AccountFirst(t) ==
  /\ process = "setup" /\ At(t, {"idle"}) /\ users = {}
  /\ \E u \in [WizardKeys -> Values] :
       request' = [request EXCEPT ![t] = [at |-> "read", values |-> u, doc |-> Template]]
  /\ users' = Accounts
  /\ UNCHANGED <<file, process, cfg, boot, announced, done, mixed, lost>>
(* POST /api/setup, up to its first look at the accounts.                  *)
Complete(t) ==
  /\ process = "setup" /\ At(t, {"idle"}) /\ users = {}
  /\ \E u \in [WizardKeys -> Values] : Accept(t, u)

(* PUT /api/settings: keys of the environment are refused, and values that *)
(* are already in force are dropped.                                       *)
Changed(u) == [k \in {j \in DOMAIN u : u[j] # cfg[j]} |-> u[k]]
PutSettings(t, u) ==
  /\ process = "serving" /\ At(t, {"idle"})
  /\ DOMAIN u \cap EnvKeys = {} /\ DOMAIN Changed(u) # {}
  /\ Accept(t, Changed(u))

(* The document is parsed as it stands, in the middle of another write too.*)
ReadFile(t) ==
  /\ At(t, {"read"})
  /\ request' = [request EXCEPT ![t].at = "truncate", ![t].doc = file]
  /\ lost' = (lost \/ (process = "serving" /\ HalfWritten))
  /\ UNCHANGED <<file, process, cfg, boot, announced, users, done, mixed>>

(* write_text opens the file, which empties it...                          *)
Truncate(t) ==
  /\ At(t, {"truncate"})
  /\ file' = Template
  /\ request' = [request EXCEPT ![t].at = "fill"]
  /\ UNCHANGED <<process, cfg, boot, announced, users, done, mixed, lost>>
(* ... unless it cannot, and the request is answered with an error.        *)
OpenFails(t) ==
  /\ At(t, {"truncate"})
  /\ request' = [request EXCEPT ![t] = NoRequest]
  /\ UNCHANGED <<file, process, cfg, boot, announced, users, done, mixed, lost>>

Fill(t) ==
  /\ At(t, {"fill"})
  /\ file' = Written(request[t].doc, request[t].values)
  /\ request' = [request EXCEPT ![t].doc = Template,
       ![t].at = IF process = "setup" THEN "account" ELSE "apply"]
  /\ UNCHANGED <<process, cfg, boot, announced, users, done, mixed, lost>>
DiskFull(t) ==
  /\ At(t, {"fill"})
  /\ request' = [request EXCEPT ![t] = NoRequest]
  /\ mixed' = TRUE /\ lost' = TRUE
  /\ UNCHANGED <<file, process, cfg, boot, announced, users, done>>

(* The values take effect, and those that cannot are announced.            *)
Apply(t) ==
  /\ At(t, {"apply"})
  /\ cfg' = Overlay(cfg, request[t].values)
  /\ announced' = announced \cup (DOMAIN request[t].values \cap RestartKeys)
  /\ request' = [request EXCEPT ![t] = NoRequest]
  /\ UNCHANGED <<file, process, boot, users, done, mixed, lost>>

(* The account is added after the file is written; its name is unique, and *)
(* the request that comes second with the same one fails.                  *)
AddUser(t) ==
  /\ At(t, {"account"})
  /\ \E n \in Accounts :
       /\ users' = users \cup {n}
       /\ done' = (done \/ n \notin users)
  /\ request' = [request EXCEPT ![t] = NoRequest]
  /\ UNCHANGED <<file, process, cfg, boot, announced, mixed, lost>>

RequestStep(t) ==
  \/ Complete(t) \/ ReadFile(t) \/ Truncate(t) \/ OpenFails(t)
  \/ Fill(t) \/ DiskFull(t) \/ Apply(t) \/ AddUser(t)

SettingsNext ==
  \/ Start \/ SetupEnds \/ Stop
  \/ \E t \in Servers : RequestStep(t) \/ \E u \in Updates : PutSettings(t, u)

SettingsSpec == SettingsInit /\ [][SettingsNext]_settingsVars

-----------------------------------------------------------------------------
(* Between saves, a setting of the file is in force in the part that uses  *)
(* it, or the page says that it waits for a restart: after any number of   *)
(* saves, back and forth, failed opens and restarts, unless two saves      *)
(* overlapped or a write broke off midway since the process started.       *)
InForce(k) == IF k \in RestartKeys THEN boot[k] ELSE cfg[k]
SavedIsLiveOrAnnounced ==
  process = "serving" /\ Quiet /\ ~mixed =>
    \A k \in Keys : Load(file)[k] = InForce(k) \/ k \in announced

(* Whenever an account exists, so that no wizard will be served again, the *)
(* file holds what the wizard asked for: requests of the wizard may race,  *)
(* and the process may die at any step of one.  While a save rewrites the  *)
(* file its thread still holds the values; what a write cut short midway,  *)
(* or a save that read the emptied file, has lost is lost.                 *)
AccountImpliesConfigured ==
  users # {} /\ ~lost /\ ~HalfWritten => \A k \in WizardKeys : file[k] # Absent
=============================================================================
