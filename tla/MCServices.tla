----------------------------- MODULE MCServices -----------------------------
(***************************************************************************)
(* The services around the tracker for TLC: the event bus, the settings,   *)
(* the downloader loops and the wind cache do not touch each other's       *)
(* state, so a behaviour is of one of them.                                *)
(***************************************************************************)
EXTENDS EventBus, Settings, Downloads, WindCache

VARIABLE part   \* what this behaviour is about

vars == <<busVars, settingsVars, downloadVars, windVars, part>>

Init ==
  /\ part \in {"bus", "settings", "kicks", "tiles", "winds"}
  /\ BusInit /\ SettingsInit /\ DownloadsInit /\ WindInit
  /\ part # "winds" => latest = Early

(* Bound: no save begins once a history flag has lifted the properties.    *)
NoSaveAfterDamage ==
  process = "serving" /\ (mixed \/ lost) =>
    \A t \in Servers : At(t, {"idle"}) => request'[t].at = "idle"

(* Bounds: while both loops run and may be stopped, the tiles cannot be    *)
(* written; while tiles are fetched and looked up, the wind loop stands    *)
(* still and one location is watched at a time.                            *)
NoTiles == pass'.todo \in {pass.todo, {}} \/ pass = NoPass
EmptyPasses == disk' = {} /\ skip' = {} /\ ~pass'.raised /\ ground' = ground
TilesOnly == at'["gfs"] = "test" /\ ~stop' /\ Cardinality(active') <= 1

(* Bounds: an hour is given up once, the second of the only run on disk;   *)
(* the newest run cannot be found out only before that, or after a failure *)
(* a pass still has to make good; a kick comes when there is a newer run   *)
(* to fetch; a prediction that reads is made while the first hours are     *)
(* written or the loop sleeps, and the inventory expires when it is no     *)
(* longer what is on disk.                                                 *)
GivenUp == poll'.next > poll.next /\ Target \notin files'
OneGap ==
  /\ GivenUp => poll.next = 1 /\ ~flawed /\ \A f \in Present : f[1] = poll.run
  /\ poll.at = "sleep" /\ flawed' => flawed \/ Present = {}
UsefulKick ==
  poll.at = "sleep" /\ poll'.at = "fetch" /\ poll.left > 0 => poll.run # latest
UsefulLook ==
  /\ (fresh' /\ ~fresh) \/ cubes' # cubes =>
       poll.at # "fetch" /\ poll.next <= 2
  /\ fresh /\ ~fresh' /\ UNCHANGED poll => inv # Present

Next ==
  \/ part = "bus" /\ BusNext
     /\ UNCHANGED <<settingsVars, downloadVars, windVars, part>>
  \/ part = "settings" /\ SettingsNext /\ NoSaveAfterDamage
     /\ UNCHANGED <<busVars, downloadVars, windVars, part>>
  \/ part = "kicks" /\ DownloadsNext /\ NoTiles /\ EmptyPasses
     /\ UNCHANGED <<busVars, settingsVars, windVars, part>>
  \/ part = "tiles" /\ DownloadsNext /\ TilesOnly
     /\ UNCHANGED <<busVars, settingsVars, windVars, part>>
  \/ part = "winds" /\ WindNext /\ OneGap /\ UsefulKick /\ UsefulLook
     /\ UNCHANGED <<busVars, settingsVars, downloadVars, part>>

Spec == Init /\ [][Next]_vars /\ BusFairness

TypeOK == BusTypeOK /\ SettingsTypeOK /\ DownloadsTypeOK /\ WindTypeOK

(* The sea has no tile; the second location shares one with the first.     *)
Coast == [l \in Locations |-> IF l = "l1" THEN {"t1", "t2"} ELSE {"t2", "sea"}]
=============================================================================
