----------------------------- MODULE Downloads ------------------------------
(***************************************************************************)
(* How a watched location gets its winds and terrain.  The web thread      *)
(* edits the subscribers; the consumer reloads them now and then, and when *)
(* that changes the capture box it kicks the downloader loops, which else  *)
(* sleep for a cadence.  The terrain loop fetches the tiles of the box and *)
(* has the ground model rebuilt, which remembers the tiles it could not    *)
(* find while the consumer looks up the ground in it.                      *)
(***************************************************************************)
EXTENDS FiniteSets

CONSTANTS
  Locations,  \* rows the subscribers table may have
  Tiles,      \* terrain tiles, by name
  Cover,      \* Cover[l]: the tiles of the capture box around l
  Upstream    \* the tiles there are: the others are squares of open sea

ASSUME DownloadsAssumption ==
  /\ Cover \in [Locations -> SUBSET Tiles]
  /\ Upstream \subseteq Tiles

Loops == {"gfs", "dem"}

VARIABLES
  active,    \* locations whose row is there and not paused
  box,       \* App._capture_box, as the locations it was built around
  kicks,     \* the loops the consumer has yet to kick
  stop,      \* _gfs_stop
  kick,      \* kick[l]: the loop's event is set
  at,        \* at[l]: "test", "clear", "begin", "pass", "wait" or "exit"
  served,    \* served[l]: the box of its last pass
  disk,      \* tiles on disk
  absent,    \* tiles that absent_tiles.json names
  skip,      \* _dem_absent
  pass,      \* the running pass: tiles to do, tiles fetched, how it fares
  ground,    \* the ground model: its kind, and the tiles it will not look for
  stranded   \* history: tiles of passes that raised, since the last rebuild

loopVars == <<box, kicks, stop, kick, at, served>>
tileVars == <<disk, absent, skip, pass, ground, stranded>>
downloadVars == <<active, loopVars, tileVars>>

NoPass == [todo |-> {}, new |-> {}, raised |-> FALSE, unsaved |-> FALSE]
Wanted(b) == UNION {Cover[l] : l \in b}

(* make_ground_model: without the directory the ground is flat; GLO-30     *)
(* names, once there, decide between two readers.  The index of the other  *)
(* is made by its first lookup.                                            *)
GroundOf(d, made) ==
  IF d # {} THEN [kind |-> "glo30", blind |-> {}]
  ELSE IF made THEN [kind |-> "tiles", blind |-> {}]
  ELSE [kind |-> "flat", blind |-> Tiles]

DownloadsInit ==
  /\ active = {} /\ box = {} /\ kicks = {}
  /\ stop = FALSE
  /\ kick = [l \in Loops |-> FALSE]
  /\ at = [l \in Loops |-> "test"] /\ served = [l \in Loops |-> {}]
  /\ disk = {} /\ absent = {} /\ skip = {} /\ pass = NoPass
  /\ ground = GroundOf({}, FALSE) /\ stranded = {}

DownloadsTypeOK ==
  /\ active \subseteq Locations /\ box \subseteq Locations /\ kicks \subseteq Loops /\ stop \in BOOLEAN
  /\ kick \in [Loops -> BOOLEAN]
  /\ at \in [Loops -> {"test", "clear", "begin", "pass", "wait", "exit"}]
  /\ served \in [Loops -> SUBSET Locations]
  /\ disk \subseteq Upstream
  /\ absent \subseteq Tiles \ Upstream /\ skip \subseteq Tiles \ Upstream
  /\ pass \in [todo: SUBSET Tiles, new: SUBSET disk, raised: BOOLEAN, unsaved: BOOLEAN]
  /\ ground \in [kind: {"flat", "tiles", "glo30"}, blind: SUBSET Tiles]
  /\ stranded \subseteq disk

-----------------------------------------------------------------------------
(* The subscribers table, edited by the web thread and the command line.   *)

Saved(rows) == active' = rows /\ UNCHANGED <<loopVars, tileVars>>

(* A row is added, edited or switched; deleted, edited or switched.        *)
SaveSubscriber(l) == l \notin active /\ Saved(active \cup {l})
DropSubscriber(l) == l \in active /\ Saved(active \ {l})

-----------------------------------------------------------------------------
(* The consumer.                                                           *)

(* reload_subscribers: a box that changed kicks both loops, one after the  *)
(* other.                                                                  *)
ReloadSubscribers ==
  /\ kicks = {} /\ ~stop
  /\ box' = active
  /\ kicks' = IF active # box THEN Loops ELSE {}
  /\ UNCHANGED <<active, stop, kick, at, served, tileVars>>
Kick(l) ==
  /\ l \in kicks /\ (l = "dem" => "gfs" \notin kicks)
  /\ kicks' = kicks \ {l}
  /\ kick' = [kick EXCEPT ![l] = TRUE]
  /\ UNCHANGED <<active, box, stop, at, served, tileVars>>

(* stop_gfs_downloader, of an interrupted daemon.                          *)
StopDownloaders ==
  /\ kicks = {} /\ ~stop
  /\ stop' = TRUE /\ kicks' = Loops
  /\ UNCHANGED <<active, box, kick, at, served, tileVars>>

(* A look at the ground, by the tracker or the predictor: GLO-30 tiles are *)
(* looked for one by one, other rasters are indexed all at once.           *)
Look(blind) ==
  /\ ground' = [ground EXCEPT !.blind = blind]
  /\ UNCHANGED <<active, loopVars, disk, absent, skip, pass, stranded>>
LookForTile(t) ==
  ground.kind = "glo30" /\ t \notin disk /\ Look(ground.blind \cup {t})
IndexTiles ==
  ground.kind = "tiles" /\ ground.blind = {} /\ Look(Tiles \ disk)

-----------------------------------------------------------------------------
(* The loops.                                                              *)

Move(l, to) == at' = [at EXCEPT ![l] = to]

TestStop(l) ==
  /\ at[l] = "test"
  /\ Move(l, IF stop THEN "exit" ELSE "clear")
  /\ UNCHANGED <<active, box, kicks, stop, kick, served, tileVars>>
ClearKick(l) ==
  /\ at[l] = "clear"
  /\ Move(l, "begin")
  /\ kick' = [kick EXCEPT ![l] = FALSE]
  /\ UNCHANGED <<active, box, kicks, stop, served, tileVars>>

(* The pass is of the box as it now is; without one there is none.         *)
Begin(l) ==
  /\ at[l] = "begin"
  /\ Move(l, "pass")
  /\ served' = [served EXCEPT ![l] = box]
  /\ IF l = "dem" /\ box # {}
     THEN /\ skip' = skip \cup absent
          /\ pass' = [NoPass EXCEPT !.todo = Wanted(box) \ (skip \cup absent \cup disk)]
     ELSE UNCHANGED <<skip, pass>>
  /\ UNCHANGED <<active, box, kicks, stop, kick, disk, absent, ground, stranded>>

(* The winds of a pass are the matter of WindCache.                        *)
SleptAndCleared(l) == Move(l, "wait") /\ kick' = [kick EXCEPT ![l] = FALSE]
Sleep(l) == Move(l, "wait") /\ UNCHANGED kick
FinishWinds ==
  /\ at["gfs"] = "pass"
  /\ Sleep("gfs")
  /\ UNCHANGED <<active, box, kicks, stop, served, tileVars>>

(* The cadence has passed, or the event is set.                            *)
Awake(l) ==
  /\ at[l] = "wait"
  /\ Move(l, "test")
  /\ UNCHANGED <<active, box, kicks, stop, kick, served, tileVars>>

-----------------------------------------------------------------------------
(* A pass over the tiles, which several threads fetch in any order.        *)

Fetching(t) == at["dem"] = "pass" /\ t \in pass.todo
Without(t) == [pass EXCEPT !.todo = @ \ {t}]

Got(t) ==
  /\ Fetching(t) /\ t \in Upstream
  /\ disk' = disk \cup {t}
  /\ pass' = [Without(t) EXCEPT !.new = @ \cup {t}]
  /\ UNCHANGED <<active, loopVars, absent, skip, ground, stranded>>
(* A 404 is recorded at once, until recording fails.                       *)
NoSuchTile(t) ==
  /\ Fetching(t) /\ t \notin Upstream
  /\ skip' = skip \cup {t}
  /\ \/ ~pass.unsaved /\ absent' = skip \cup {t} /\ pass' = Without(t)
     \/ absent' = absent /\ pass' = [Without(t) EXCEPT !.unsaved = TRUE]
  /\ UNCHANGED <<active, loopVars, disk, ground, stranded>>
(* A transient error; or the tile cannot be renamed, and the pass raises   *)
(* when all its threads are done; or nothing can be written here.          *)
TileFails(t) ==
  /\ Fetching(t)
  /\ \E raises \in BOOLEAN : pass' = [Without(t) EXCEPT !.raised = @ \/ raises]
  /\ UNCHANGED <<active, loopVars, disk, absent, skip, ground, stranded>>
NotWritable ==
  /\ at["dem"] = "pass" /\ pass.todo # {}
  /\ pass' = [pass EXCEPT !.todo = {}]
  /\ UNCHANGED <<active, loopVars, disk, absent, skip, ground, stranded>>

(* New tiles have the model rebuilt, unless the pass raised.               *)
RebuiltAsBlind == [GroundOf(disk, TRUE) EXCEPT !.blind = ground.blind]
Rebuilt == GroundOf(disk, TRUE)
FinishTiles ==
  /\ at["dem"] = "pass" /\ pass.todo = {}
  /\ Sleep("dem")
  /\ IF pass.raised
     THEN stranded' = stranded \cup pass.new /\ UNCHANGED ground
     ELSE IF pass.new # {}
     THEN ground' = Rebuilt /\ stranded' = {}
     ELSE UNCHANGED <<ground, stranded>>
  /\ pass' = NoPass
  /\ UNCHANGED <<active, box, kicks, stop, served, disk, absent, skip>>

(* The process ends, in the middle of anything, and is started again.      *)
Restart ==
  /\ box' = active /\ kicks' = {} /\ stop' = FALSE
  /\ kick' = [l \in Loops |-> active # {}]
  /\ at' = [l \in Loops |-> "test"] /\ served' = [l \in Loops |-> {}]
  /\ skip' = {} /\ pass' = NoPass
  /\ ground' = GroundOf(disk, ground.kind # "flat" \/ served["dem"] # {})
  /\ stranded' = {}
  /\ UNCHANGED <<active, disk, absent>>

DownloadsNext ==
  \/ \E l \in Locations : SaveSubscriber(l) \/ DropSubscriber(l)
  \/ ReloadSubscribers \/ StopDownloaders \/ Restart
  \/ \E l \in Loops : Kick(l) \/ TestStop(l) \/ ClearKick(l) \/ Begin(l) \/ Awake(l)
  \/ FinishWinds \/ FinishTiles \/ NotWritable
  \/ IndexTiles \/ \E t \in Tiles : LookForTile(t) \/ Got(t) \/ NoSuchTile(t) \/ TileFails(t)

DownloadsSpec == DownloadsInit /\ [][DownloadsNext]_downloadVars

-----------------------------------------------------------------------------
(* A loop that works or sleeps does so for the box as it is, or its event  *)
(* is set, or the consumer is about to set it: however the reloads and the *)
(* rounds of the loop interleave, no change of the box is slept through.   *)
NoMissedKick == ~stop =>
  \A l \in Loops : at[l] \in {"pass", "wait"} =>
    served[l] = box \/ kick[l] \/ l \in kicks

(* The ground model finds every tile there is on disk: the ones it missed  *)
(* before they came are dropped with the model they were missed by.  Two   *)
(* kinds wait: those of the running pass, and those of a pass that raised. *)
TilesAreSeen == ground.blind \cap disk \subseteq pass.new \cup stranded
=============================================================================
