---------------------------- MODULE ServicesProofs ----------------------------
(***************************************************************************)
(* Proofs of what the run of the services checks about the downloader      *)
(* loops, for every set of locations and tiles and every coast; and of the *)
(* winds they fetch, for any periods, delays, cadence and cache, as long   *)
(* as the forecasts reach beyond the next run's arrival.  At the end, that *)
(* the joined specification implements each of its parts.                  *)
(***************************************************************************)
EXTENDS MCServices, WebProofs, WellFoundedInduction

(* What a pass has fetched is forgotten when it ends.                      *)
NewsOfPass == at["dem"] # "pass" => pass.new = {}

PassInv == DownloadsTypeOK /\ NewsOfPass /\ NoMissedKick /\ TilesAreSeen

LEMMA LoopsAreTwo == "gfs" \in Loops /\ "dem" \in Loops
BY DEF Loops

(* A ground model that was just made is blind to no tile on disk.          *)
LEMMA FreshGroundSees ==
  ASSUME NEW d \in SUBSET Tiles, NEW made \in BOOLEAN
  PROVE  /\ GroundOf(d, made) \in [kind: {"flat", "tiles", "glo30"}, blind: SUBSET Tiles]
         /\ GroundOf(d, made).blind \cap d = {}
         /\ GroundOf(d, TRUE).blind = {}
BY DEF GroundOf

LEMMA PassesStart == DownloadsInit => PassInv
<1> SUFFICES ASSUME DownloadsInit PROVE PassInv
  OBVIOUS
<1> USE DEF DownloadsInit, NoPass
<1>1. DownloadsTypeOK
  <2>1. ground \in [kind: {"flat", "tiles", "glo30"}, blind: SUBSET Tiles]
    BY FreshGroundSees
  <2> QED  BY <2>1 DEF DownloadsTypeOK
<1>2. NewsOfPass /\ NoMissedKick
  BY DEF NewsOfPass, NoMissedKick, Loops
<1>3. TilesAreSeen
  BY DEF TilesAreSeen
<1> QED  BY <1>1, <1>2, <1>3 DEF PassInv

-----------------------------------------------------------------------------
(* One lemma per group of actions.  The consumer and the web thread.       *)
LEMMA ConsumerKeeps ==
  ASSUME PassInv,
         \/ \E l \in Locations : SaveSubscriber(l) \/ DropSubscriber(l)
         \/ ReloadSubscribers \/ StopDownloaders
         \/ \E l \in Loops : Kick(l)
  PROVE  PassInv'
<1> USE DEF PassInv
<1>1. ASSUME NEW l \in Locations, SaveSubscriber(l) \/ DropSubscriber(l) PROVE PassInv'
  BY <1>1 DEF SaveSubscriber, DropSubscriber, Saved, loopVars, tileVars,
     DownloadsTypeOK, NewsOfPass, NoMissedKick, TilesAreSeen
<1>2. CASE ReloadSubscribers
  BY <1>2 DEF ReloadSubscribers, tileVars,
     DownloadsTypeOK, NewsOfPass, NoMissedKick, TilesAreSeen
<1>3. CASE StopDownloaders
  BY <1>3 DEF StopDownloaders, tileVars,
     DownloadsTypeOK, NewsOfPass, NoMissedKick, TilesAreSeen
<1>4. ASSUME NEW l \in Loops, Kick(l) PROVE PassInv'
  BY <1>4 DEF Kick, tileVars,
     DownloadsTypeOK, NewsOfPass, NoMissedKick, TilesAreSeen
<1> QED  BY <1>1, <1>2, <1>3, <1>4

(* Looks at the ground: only tiles that are not on disk are missed.        *)
LEMMA LookKeeps ==
  ASSUME PassInv, IndexTiles \/ \E t \in Tiles : LookForTile(t)
  PROVE  PassInv'
<1> USE DEF PassInv
<1>1. CASE IndexTiles
  BY <1>1 DEF IndexTiles, Look, loopVars,
     DownloadsTypeOK, NewsOfPass, NoMissedKick, TilesAreSeen
<1>2. ASSUME NEW t \in Tiles, LookForTile(t) PROVE PassInv'
  BY <1>2 DEF LookForTile, Look, loopVars,
     DownloadsTypeOK, NewsOfPass, NoMissedKick, TilesAreSeen
<1> QED  BY <1>1, <1>2

(* The lines of a loop around its pass.                                    *)
LEMMA LoopKeeps ==
  ASSUME PassInv, NEW l \in Loops, TestStop(l) \/ ClearKick(l) \/ Begin(l) \/ Awake(l)
  PROVE  PassInv'
<1> USE DEF PassInv
<1>1. CASE TestStop(l)
  BY <1>1 DEF TestStop, Move, tileVars,
     DownloadsTypeOK, NewsOfPass, NoMissedKick, TilesAreSeen
<1>2. CASE ClearKick(l)
  BY <1>2 DEF ClearKick, Move, tileVars,
     DownloadsTypeOK, NewsOfPass, NoMissedKick, TilesAreSeen
<1>3. CASE Awake(l)
  BY <1>3 DEF Awake, Move, tileVars,
     DownloadsTypeOK, NewsOfPass, NoMissedKick, TilesAreSeen
<1>4. CASE Begin(l)
  <2>1. pass'.new = pass.new /\ pass' \in [todo: SUBSET Tiles, new: SUBSET disk',
                                           raised: BOOLEAN, unsaved: BOOLEAN]
    <3>1. Wanted(box) \subseteq Tiles
      BY DownloadsAssumption DEF Wanted, DownloadsTypeOK
    <3>2. CASE l = "dem" /\ box # {}
      <4>1. pass' = [todo |-> Wanted(box) \ (skip \cup absent \cup disk), new |-> {},
                     raised |-> FALSE, unsaved |-> FALSE]
        BY <1>4, <3>2 DEF Begin, NoPass
      <4>2. pass.new = {}
        BY <1>4, <3>2 DEF Begin, NewsOfPass
      <4> QED  BY <3>1, <4>1, <4>2
    <3>3. CASE ~(l = "dem" /\ box # {})
      BY <1>4, <3>3 DEF Begin, DownloadsTypeOK
    <3> QED  BY <3>2, <3>3
  <2>2. skip' \subseteq Tiles \ Upstream
    BY <1>4 DEF Begin, DownloadsTypeOK
  <2>3. DownloadsTypeOK'
    BY <1>4, <2>1, <2>2 DEF Begin, Move, DownloadsTypeOK
  <2>4. NewsOfPass'
    BY <1>4, <2>1 DEF Begin, Move, DownloadsTypeOK, NewsOfPass
  <2>5. NoMissedKick'
    BY <1>4 DEF Begin, Move, DownloadsTypeOK, NoMissedKick
  <2>6. TilesAreSeen'
    BY <1>4, <2>1 DEF Begin, TilesAreSeen
  <2> QED  BY <2>3, <2>4, <2>5, <2>6
<1> QED  BY <1>1, <1>2, <1>3, <1>4

(* What a tile's outcome makes of the pass.                                *)
Passes(d) == [todo: SUBSET Tiles, new: SUBSET d, raised: BOOLEAN, unsaved: BOOLEAN]

LEMMA WithoutIsPass ==
  ASSUME NEW d, pass \in Passes(d), NEW t
  PROVE  Without(t) \in Passes(d) /\ Without(t).new = pass.new
BY DEF Without, Passes

(* A step of the pass that fetches at most what it puts on disk.           *)
LEMMA OutcomeKeeps ==
  ASSUME PassInv, at["dem"] = "pass", NEW got \in SUBSET Upstream,
         pass' \in Passes(disk'), pass'.new = pass.new \cup got, disk' = disk \cup got,
         skip' \subseteq Tiles \ Upstream, absent' \subseteq Tiles \ Upstream,
         UNCHANGED <<active, loopVars, ground, stranded>>
  PROVE  PassInv'
<1> USE DEF PassInv, loopVars
<1>1. DownloadsTypeOK'
  BY DEF DownloadsTypeOK, Passes
<1>2. NewsOfPass' /\ NoMissedKick' /\ TilesAreSeen'
  BY DEF NewsOfPass, NoMissedKick, TilesAreSeen
<1> QED  BY <1>1, <1>2

(* The tiles of a pass, in any order.                                      *)
LEMMA PassKeeps ==
  ASSUME PassInv, NotWritable \/ \E t \in Tiles : Got(t) \/ NoSuchTile(t) \/ TileFails(t)
  PROVE  PassInv'
<1>1. pass \in Passes(disk) /\ disk \subseteq Upstream
      /\ skip \subseteq Tiles \ Upstream /\ absent \subseteq Tiles \ Upstream
  BY DEF PassInv, DownloadsTypeOK, Passes
<1>2. CASE NotWritable
  <2>1. pass' \in Passes(disk) /\ pass'.new = pass.new
    BY <1>1, <1>2 DEF NotWritable, Passes
  <2>2. /\ at["dem"] = "pass" /\ disk' = disk \cup {}
        /\ pass' \in Passes(disk') /\ pass'.new = pass.new \cup {}
        /\ skip' \subseteq Tiles \ Upstream /\ absent' \subseteq Tiles \ Upstream
        /\ UNCHANGED <<active, loopVars, ground, stranded>>
    BY <1>1, <1>2, <2>1 DEF NotWritable
  <2>3. {} \in SUBSET Upstream
    OBVIOUS
  <2> QED  BY <2>2, <2>3, OutcomeKeeps
<1>3. ASSUME NEW t \in Tiles, Got(t) PROVE PassInv'
  <2>1. pass' \in Passes(disk \cup {t}) /\ pass'.new = pass.new \cup {t}
    <3>1. Without(t) \in Passes(disk) /\ Without(t).new = pass.new
      BY <1>1, WithoutIsPass
    <3>2. pass' = [Without(t) EXCEPT !.new = pass.new \cup {t}]
      BY <1>3, <3>1 DEF Got
    <3> QED  BY <3>1, <3>2 DEF Passes
  <2>2. /\ at["dem"] = "pass" /\ disk' = disk \cup {t}
        /\ pass' \in Passes(disk') /\ pass'.new = pass.new \cup {t}
        /\ skip' \subseteq Tiles \ Upstream /\ absent' \subseteq Tiles \ Upstream
        /\ UNCHANGED <<active, loopVars, ground, stranded>>
    BY <1>1, <1>3, <2>1 DEF Got, Fetching
  <2>3. {t} \in SUBSET Upstream
    BY <1>3 DEF Got
  <2> QED  BY <2>2, <2>3, OutcomeKeeps
<1>4. ASSUME NEW t \in Tiles, NoSuchTile(t) PROVE PassInv'
  <2>1. Without(t) \in Passes(disk) /\ Without(t).new = pass.new
    BY <1>1, WithoutIsPass
  <2>2. pass' \in Passes(disk) /\ pass'.new = pass.new
    BY <1>4, <2>1 DEF NoSuchTile, Passes
  <2>3. skip' \subseteq Tiles \ Upstream /\ absent' \subseteq Tiles \ Upstream
    BY <1>1, <1>4 DEF NoSuchTile
  <2>4. /\ at["dem"] = "pass" /\ disk' = disk \cup {}
        /\ pass' \in Passes(disk') /\ pass'.new = pass.new \cup {}
        /\ UNCHANGED <<active, loopVars, ground, stranded>>
    BY <1>4, <2>2 DEF NoSuchTile, Fetching
  <2>5. {} \in SUBSET Upstream
    OBVIOUS
  <2> QED  BY <2>3, <2>4, <2>5, OutcomeKeeps
<1>5. ASSUME NEW t \in Tiles, TileFails(t) PROVE PassInv'
  <2>1. Without(t) \in Passes(disk) /\ Without(t).new = pass.new
    BY <1>1, WithoutIsPass
  <2>2. pass' \in Passes(disk) /\ pass'.new = pass.new
    BY <1>5, <2>1 DEF TileFails, Passes
  <2>3. /\ at["dem"] = "pass" /\ disk' = disk \cup {}
        /\ pass' \in Passes(disk') /\ pass'.new = pass.new \cup {}
        /\ skip' \subseteq Tiles \ Upstream /\ absent' \subseteq Tiles \ Upstream
        /\ UNCHANGED <<active, loopVars, ground, stranded>>
    BY <1>1, <1>5, <2>2 DEF TileFails, Fetching
  <2>4. {} \in SUBSET Upstream
    OBVIOUS
  <2> QED  BY <2>3, <2>4, OutcomeKeeps
<1> QED  BY <1>2, <1>3, <1>4, <1>5

(* The end of a pass: its new tiles are seen by a new model, or stranded.  *)
LEMMA FinishKeeps ==
  ASSUME PassInv, FinishWinds \/ FinishTiles
  PROVE  PassInv'
<1> USE DEF PassInv
<1>1. CASE FinishWinds
  BY <1>1, LoopsAreTwo DEF FinishWinds, Sleep, Move, tileVars,
     DownloadsTypeOK, NewsOfPass, NoMissedKick, TilesAreSeen
<1>2. CASE FinishTiles
  <2>1. disk \subseteq Tiles
    BY DownloadsAssumption DEF DownloadsTypeOK
  <2>2. Rebuilt \in [kind: {"flat", "tiles", "glo30"}, blind: SUBSET Tiles] /\ Rebuilt.blind = {}
    BY <2>1, FreshGroundSees DEF Rebuilt
  <2>3. DownloadsTypeOK'
    BY <1>2, <2>2, LoopsAreTwo DEF FinishTiles, Sleep, Move, NoPass, DownloadsTypeOK
  <2>4. NewsOfPass'
    BY <1>2 DEF FinishTiles, NoPass, NewsOfPass
  <2>5. NoMissedKick'
    BY <1>2, LoopsAreTwo DEF FinishTiles, Sleep, Move, DownloadsTypeOK, NoMissedKick
  <2>6. TilesAreSeen'
    BY <1>2, <2>2 DEF FinishTiles, NoPass, DownloadsTypeOK, TilesAreSeen
  <2> QED  BY <2>3, <2>4, <2>5, <2>6
<1> QED  BY <1>1, <1>2

(* Nothing of the loops outlives the process.                              *)
LEMMA RestartKeeps ==
  ASSUME PassInv, Restart
  PROVE  PassInv'
<1> USE DEF PassInv
<1>1. disk \subseteq Tiles
  BY DownloadsAssumption DEF DownloadsTypeOK
<1>2. ground' \in [kind: {"flat", "tiles", "glo30"}, blind: SUBSET Tiles]
      /\ ground'.blind \cap disk = {}
  BY <1>1, FreshGroundSees DEF Restart
<1>3. DownloadsTypeOK'
  BY <1>2 DEF Restart, NoPass, DownloadsTypeOK
<1>4. NewsOfPass' /\ NoMissedKick'
  BY DEF Restart, NoPass, NewsOfPass, NoMissedKick
<1>5. TilesAreSeen'
  BY <1>2 DEF Restart, TilesAreSeen
<1> QED  BY <1>3, <1>4, <1>5

LEMMA PassStep == PassInv /\ [DownloadsNext]_downloadVars => PassInv'
<1> SUFFICES ASSUME PassInv, [DownloadsNext]_downloadVars PROVE PassInv'
  OBVIOUS
<1>1. CASE DownloadsNext
  BY <1>1, ConsumerKeeps, LookKeeps, LoopKeeps, PassKeeps, FinishKeeps, RestartKeeps
     DEF DownloadsNext
<1>2. CASE UNCHANGED downloadVars
  BY <1>2 DEF downloadVars, loopVars, tileVars, PassInv,
     DownloadsTypeOK, NewsOfPass, NoMissedKick, TilesAreSeen
<1> QED  BY <1>1, <1>2

LEMMA PassesHold == DownloadsSpec => []PassInv
BY PassesStart, PassStep, PTL DEF DownloadsSpec

-----------------------------------------------------------------------------
(* Every variable of the loops keeps its type; in particular a tile is     *)
(* never both on disk and recorded as absent.                              *)
THEOREM DownloadsTypeCorrect == DownloadsSpec => []DownloadsTypeOK
<1>1. PassInv => DownloadsTypeOK
  BY DEF PassInv
<1> QED  BY <1>1, PassesHold, PTL

(* No change of the capture box is slept through by a downloader loop,     *)
(* however its test, clear and wait fall between the reload and the kicks. *)
THEOREM KickCorrect == DownloadsSpec => []NoMissedKick
<1>1. PassInv => NoMissedKick
  BY DEF PassInv
<1> QED  BY <1>1, PassesHold, PTL

(* The ground model finds every tile on disk, but for those of the running *)
(* pass and of passes that raised: lookups may miss tiles at any time.     *)
THEOREM GroundCorrect == DownloadsSpec => []TilesAreSeen
<1>1. PassInv => TilesAreSeen
  BY DEF PassInv
<1> QED  BY <1>1, PassesHold, PTL

-----------------------------------------------------------------------------
(* The wind files.                                                         *)

Run == poll.run
Cube == [file: File, whole: BOOLEAN]

(* The hypotheses: the forecasts of a run reach beyond the time until the  *)
(* next one is fetched, and the files of the newest run are not pruned.    *)
ForecastsReach == Late + Period + Cadence < MaxFxx
NewestIsKept == Keep = 0 \/ Late + Period < Keep

Sure == ~flawed /\ ForecastsReach /\ NewestIsKept

(* No run on disk, in the inventory or in the cache is newer than the one  *)
(* fetched last, and that is no newer than the last published.             *)
NothingNewer == latest <= Run /\ \A f \in Present \cup inv : f[1] >= Run

(* While none of its hours has failed, a run is fetched in order; it has   *)
(* all of them when the loop sleeps, and is as old as that has slept.      *)
Reach == IF poll.at = "sleep" THEN Late + Period + Cadence - poll.left ELSE Late + Period
Fetched == IF poll.at = "sleep" THEN Fxx ELSE {h \in Fxx : h < poll.next}
InSequence ==
  /\ poll.at = "write" => poll.next <= MaxFxx
  /\ Sure =>
       /\ Run <= Reach
       /\ \A h \in Fetched : <<Run, h>> \in files
       /\ \A h \in Fxx : <<Run, h>> \in Present => \A k \in 0..h - 1 : <<Run, k>> \in files
       /\ \A h \in Fxx : <<Run, h>> \in inv => \A k \in 0..h - 1 : <<Run, k>> \in inv

(* A file of it that was read midway was at most the upper file of the     *)
(* hour then; every hour that the loop has slept since is one less.        *)
Slept == IF poll.at = "sleep" THEN Cadence - poll.left ELSE 0
CubeFits(c) ==
  /\ c.file[1] >= Run
  /\ Sure /\ c.file[1] = Run /\ ~c.whole => c.file[2] + Slept <= Run + 1
CubesFit == \A i \in 1..Len(cubes) : CubeFits(cubes[i])

WindInv == WindTypeOK /\ NothingNewer /\ InSequence /\ CubesFit

Polls == [at: {"sleep", "fetch", "write"}, run: 0..Cap, next: 0..MaxFxx + 1,
          got: BOOLEAN, left: 0..Cadence]

LEMMA WindParameters ==
  /\ Period \in Nat /\ Early \in Nat /\ Late \in Nat /\ Latency \in Nat /\ Cadence \in Nat
  /\ Keep \in Nat /\ MaxFxx \in Nat /\ CacheMax \in Nat /\ Cap \in Nat
  /\ Period > 0 /\ Cadence > 0 /\ CacheMax > 0
  /\ Early <= Late /\ Late + Period <= Cap /\ MaxFxx < Cap
BY WindAssumption

LEMMA FileForm ==
  ASSUME NEW f \in File
  PROVE  f[1] \in 0..Cap /\ f[2] \in Fxx /\ f = <<f[1], f[2]>> /\ f[1] \in Nat /\ f[2] \in Nat
<1>1. f[1] \in 0..Cap /\ f[2] \in 0..MaxFxx /\ f = <<f[1], f[2]>>
  BY DEF File, Fxx
<1> QED  BY <1>1, WindParameters DEF Fxx

LEMMA WindTypes ==
  ASSUME WindTypeOK
  PROVE  /\ latest \in Nat /\ latest <= Late + Period /\ latest \in 0..Cap
         /\ files \in SUBSET File /\ partial \in SUBSET File /\ files \cap partial = {}
         /\ poll \in Polls /\ flawed \in BOOLEAN /\ fresh \in BOOLEAN
         /\ Run \in Nat /\ Run <= Cap
         /\ inv \in SUBSET File /\ Present \in SUBSET File
         /\ cubes \in Seq(Cube) /\ Len(cubes) <= CacheMax
<1>1. poll \in Polls /\ Run \in 0..Cap
  BY DEF WindTypeOK, Polls, Run
<1>2. flawed \in BOOLEAN /\ fresh \in BOOLEAN
  BY DEF WindTypeOK
<1>3. latest \in Early..(Late + Period)
  BY DEF WindTypeOK
<1>4. latest \in Nat /\ latest <= Late + Period /\ latest \in 0..Cap
  BY <1>3, WindParameters
<1>5. cubes \in Seq(Cube) /\ Len(cubes) <= CacheMax
  BY DEF WindTypeOK, Cube
<1> QED  BY <1>1, <1>2, <1>4, <1>5, WindParameters DEF WindTypeOK, Present

LEMMA LeastExists ==
  ASSUME NEW T \in SUBSET Nat, T # {}
  PROVE  \E x \in T : \A y \in T : x <= y
<1>1. PICK x \in T : \A y \in T : ~(<<y, x>> \in OpToRel(<, Nat))
  BY NatLessThanWellFounded, WFMin
<1>2. \A y \in T : x <= y
  <2> SUFFICES ASSUME NEW y \in T PROVE x <= y
    OBVIOUS
  <2>1. <<y, x>> \notin OpToRel(<, Nat)
    BY <1>1
  <2>2. x \in Nat /\ y \in Nat
    OBVIOUS
  <2>3. ~(y < x)
    BY <2>1, <2>2 DEF OpToRel
  <2> QED  BY <2>2, <2>3
<1> QED  BY <1>2

(* The first and the last hour of some files.                              *)
LEMMA EndsForm ==
  ASSUME NEW s \in SUBSET File, s # {}
  PROVE  /\ First(s) \in s /\ \A g \in s : First(s)[2] <= g[2]
         /\ Last(s) \in s /\ \A g \in s : g[2] <= Last(s)[2]
<1>1. \A f \in s : f[2] \in Nat /\ f[2] <= MaxFxx
  BY FileForm, WindParameters DEF Fxx
<1>2. \E f \in s : \A g \in s : f[2] <= g[2]
  <2> DEFINE T == {f[2] : f \in s}
  <2>1. T \in SUBSET Nat /\ T # {}
    BY <1>1
  <2>2. PICK x \in T : \A y \in T : x <= y
    <3> HIDE DEF T
    <3> QED  BY <2>1, LeastExists
  <2>3. PICK f \in s : f[2] = x
    BY <2>2
  <2> QED  BY <2>2, <2>3
<1>3. \E f \in s : \A g \in s : g[2] <= f[2]
  <2> DEFINE T == {MaxFxx - f[2] : f \in s}
  <2>1. T \in SUBSET Nat /\ T # {}
    BY <1>1, WindParameters
  <2>2. PICK x \in T : \A y \in T : x <= y
    <3> HIDE DEF T
    <3> QED  BY <2>1, LeastExists
  <2>3. PICK f \in s : MaxFxx - f[2] = x
    BY <2>2
  <2>4. \A g \in s : MaxFxx - f[2] <= MaxFxx - g[2]
    BY <2>2, <2>3
  <2> QED  BY <1>1, <2>3, <2>4, WindParameters
<1> QED  BY <1>2, <1>3 DEF First, Last

LEMMA PairForm ==
  ASSUME NEW s \in SUBSET File, s # {}, NEW past \in Moments
  PROVE  /\ Lower(s) \in s /\ Upper(s, past) \in s
         /\ Before(s) # {} => Lower(s) \in Before(s) /\ \A g \in Before(s) : g[2] <= Lower(s)[2]
         /\ After(s, past) # {} => Upper(s, past) \in After(s, past) /\ \A g \in After(s, past) : Upper(s, past)[2] <= g[2]
<1>1. Before(s) \in SUBSET File /\ After(s, past) \in SUBSET File
      /\ Before(s) \subseteq s /\ After(s, past) \subseteq s
  BY DEF Before, After
<1>2. Before(s) # {} => Lower(s) \in Before(s) /\ \A g \in Before(s) : g[2] <= Lower(s)[2]
  BY <1>1, EndsForm DEF Lower
<1>3. After(s, past) # {} => Upper(s, past) \in After(s, past) /\ \A g \in After(s, past) : Upper(s, past)[2] <= g[2]
  BY <1>1, EndsForm DEF Upper
<1>4. Before(s) = {} => Lower(s) \in s
  BY EndsForm DEF Lower
<1>5. After(s, past) = {} => Upper(s, past) \in s
  BY EndsForm DEF Upper
<1> QED  BY <1>1, <1>2, <1>3, <1>4, <1>5

LEMMA NewestForm ==
  ASSUME NEW s \in SUBSET File, Eligible(s) # {}
  PROVE  \E a \in Nat : /\ Newest(s) = {f \in s : f[1] = a} /\ Newest(s) # {}
                        /\ \A f \in Eligible(s) : a <= f[1]
<1> DEFINE T == {f[1] : f \in Eligible(s)}
<1>1. \A f \in Eligible(s) : f \in s /\ f[1] \in Nat
  BY FileForm DEF Eligible
<1>2. T \in SUBSET Nat /\ T # {}
  BY <1>1
<1>3. Newest(s) = {f \in s : f[1] = Min(T)}
  BY DEF Newest
<1>4. \A f \in Eligible(s) : f[1] \in T
  OBVIOUS
<1> HIDE DEF T
<1>5. \E x \in T : \A y \in T : x <= y
  BY <1>2, LeastExists
<1>6. Min(T) \in T /\ \A y \in T : Min(T) <= y
  BY <1>5 DEF Min
<1>7. PICK f \in Eligible(s) : f[1] = Min(T)
  BY <1>6 DEF T
<1>8. f \in Newest(s)
  BY <1>1, <1>3, <1>7
<1> QED  BY <1>2, <1>3, <1>4, <1>6, <1>8

(* The newest run of a directory, or of the inventory, that holds the run  *)
(* fetched last in sequence: the pair is not beyond the hour it is in.       *)
LEMMA ChosenInSequence ==
  ASSUME NEW s \in SUBSET File, Eligible(s) # {}, Run \in Nat,
         \A h \in Fxx : <<Run, h>> \in s => \A k \in 0..h - 1 : <<Run, k>> \in s,
         NEW past \in Moments, NEW f \in {Lower(Newest(s)), Upper(Newest(s), past)}
  PROVE  f \in s /\ (f[1] = Run => f[2] <= Run + 1)
<1> DEFINE n == Newest(s)
<1>1. PICK a \in Nat : n = {g \in s : g[1] = a} /\ n # {}
  BY NewestForm
<1> HIDE DEF n
<1>2. n \in SUBSET File /\ f \in {Lower(n), Upper(n, past)}
  BY <1>1 DEF n
<1>3. /\ Lower(n) \in n /\ Upper(n, past) \in n
      /\ Before(n) # {} => Lower(n) \in Before(n)
      /\ After(n, past) # {} => /\ Upper(n, past) \in After(n, past)
                          /\ \A g \in After(n, past) : Upper(n, past)[2] <= g[2]
  BY <1>1, <1>2, PairForm
<1>4. f \in s /\ f[1] = a
  BY <1>1, <1>2, <1>3
<1>5. ASSUME a = Run PROVE f[2] <= Run + 1
  <2>1. \A g \in n : g[1] = Run /\ g[2] \in Fxx /\ g = <<Run, g[2]>> /\ g[2] \in Nat
    BY <1>1, <1>2, <1>5, FileForm
  <2>2. \A g \in n : \A k \in 0..g[2] - 1 : <<Run, k>> \in n
    <3> SUFFICES ASSUME NEW g \in n, NEW k \in 0..g[2] - 1 PROVE <<Run, k>> \in n
      OBVIOUS
    <3>1. <<Run, k>> \in s
      BY <1>1, <2>1
    <3>2. <<Run, k>>[1] = a
      BY <1>5
    <3> QED  BY <1>1, <3>1, <3>2
  <2>3. Lower(n)[2] <= Run
    <3>1. CASE Lower(n)[2] = 0
      BY <3>1
    <3>2. CASE Lower(n)[2] # 0
      <4>1. 0 \in 0..Lower(n)[2] - 1
        BY <1>3, <2>1, <3>2
      <4>2. <<Run, 0>> \in n
        BY <1>3, <2>2, <4>1
      <4>3. Before(n) # {}
        BY <4>2 DEF Before
      <4>4. Lower(n)[2] <= Lower(n)[1]
        BY <1>3, <4>3 DEF Before
      <4> QED  BY <1>3, <2>1, <4>4
    <3> QED  BY <3>1, <3>2
  <2>4. Upper(n, past)[2] <= Run + past
    <3> SUFFICES ASSUME ~(Upper(n, past)[2] <= Run + past) PROVE FALSE
      OBVIOUS
    <3>1. Upper(n, past)[2] \in Nat /\ Run + past \in 0..Upper(n, past)[2] - 1
      BY <1>3, <2>1 DEF Moments
    <3>2. <<Run, Run + past>> \in n
      BY <1>3, <2>2, <3>1
    <3>3. <<Run, Run + past>> \in After(n, past)
      <4>1. <<Run, Run + past>>[1] = Run /\ <<Run, Run + past>>[2] = Run + past
        OBVIOUS
      <4>2. Run \in Nat /\ past \in Nat
        BY DEF Moments
      <4> QED  BY <3>2, <4>1, <4>2 DEF After
    <3>4. Upper(n, past)[2] <= Run + past
      BY <1>3, <3>3
    <3> QED  BY <3>4
  <2> QED  BY <1>2, <1>3, <2>1, <2>3, <2>4 DEF Moments
<1> QED  BY <1>4, <1>5

(* A cube is one that was remembered, or what reading the file gives now.  *)
LEMMA ReadForm ==
  ASSUME NEW cs \in Seq(Cube), Len(cs) <= CacheMax, NEW f \in File
  PROVE  /\ Read(cs, f) \in Seq(Cube) /\ Len(Read(cs, f)) <= CacheMax
         /\ \A i \in 1..Len(Read(cs, f)) :
              \/ \E j \in 1..Len(cs) : Read(cs, f)[i] = cs[j]
              \/ Read(cs, f)[i] = [file |-> f, whole |-> f \in files]
<1> DEFINE c == [file |-> f, whole |-> f \in files]
           r == IF Len(cs) < CacheMax THEN cs ELSE Tail(cs)
<1>1. c \in Cube
  BY DEF Cube
<1>2. Len(cs) \in Nat /\ CacheMax \in Nat /\ CacheMax > 0
  BY WindParameters
<1> HIDE DEF c
<1>3. CASE Remembered(cs, f) # {}
  <2>1. Read(cs, f) = cs
    BY <1>3 DEF Read
  <2> QED  BY <2>1
<1>4. CASE Remembered(cs, f) = {}
  <2>1. Read(cs, f) = Append(r, c)
    BY <1>4 DEF Read, c
  <2>2. /\ r \in Seq(Cube) /\ Len(r) < CacheMax
        /\ \A i \in 1..Len(r) : \E j \in 1..Len(cs) : r[i] = cs[j]
    <3>1. CASE Len(cs) < CacheMax
      BY <3>1
    <3>2. CASE ~(Len(cs) < CacheMax)
      <4>1. cs # <<>> /\ r = Tail(cs)
        BY <1>2, <3>2
      <4> HIDE DEF r
      <4>2. r \in Seq(Cube) /\ Len(r) = Len(cs) - 1 /\ \A i \in 1..Len(r) : r[i] = cs[i + 1]
        BY <4>1
      <4> QED  BY <1>2, <4>2
    <3> QED  BY <3>1, <3>2
  <2> HIDE DEF r
  <2>3. /\ Append(r, c) \in Seq(Cube) /\ Len(Append(r, c)) = Len(r) + 1 /\ Len(r) \in Nat
        /\ Append(r, c)[Len(r) + 1] = c
        /\ \A i \in 1..Len(r) : Append(r, c)[i] = r[i]
    BY <1>1, <2>2
  <2>4. \A i \in 1..Len(r) + 1 : i \in 1..Len(r) \/ i = Len(r) + 1
    BY <2>3
  <2> QED  BY <1>2, <2>1, <2>2, <2>3, <2>4 DEF c
<1> QED  BY <1>3, <1>4

LEMMA PredictKeeps ==
  ASSUME WindInv, NEW past \in Moments, Predict(past)
  PROVE  WindInv'
<1>1. WindTypeOK /\ NothingNewer /\ InSequence /\ CubesFit
  BY DEF WindInv
<1>2. /\ fresh' = TRUE /\ inv' = (IF fresh THEN inv ELSE Present)
      /\ UNCHANGED <<latest, files, partial, poll, flawed>>
  BY DEF Predict
<1>3. inv' \in SUBSET File /\ Present' = Present /\ Run' = Run /\ Sure' = Sure
  BY <1>1, <1>2, WindTypes DEF Present, Run, Sure
<1>4. NothingNewer'
  BY <1>1, <1>2, <1>3 DEF NothingNewer
<1>5. InSequence'
  <2>1. \A h \in Fxx : <<Run, h>> \in Present => \A k \in 0..h - 1 : <<Run, k>> \in files =>
          <<Run, k>> \in Present
    BY DEF Present
  <2>2. Sure => \A h \in Fxx : <<Run, h>> \in inv' => \A k \in 0..h - 1 : <<Run, k>> \in inv'
    BY <1>1, <1>2, <2>1 DEF InSequence
  <2>3. Reach' = Reach /\ Fetched' = Fetched
    BY <1>2 DEF Reach, Fetched
  <2> QED  BY <1>1, <1>2, <1>3, <2>2, <2>3 DEF InSequence
<1>6. cubes' \in Seq(Cube) /\ Len(cubes') <= CacheMax
      /\ \A i \in 1..Len(cubes') : CubeFits(cubes'[i])
  <2>1. CASE Eligible(inv') = {}
    <3>1. cubes' = cubes
      BY <2>1 DEF Predict
    <3> QED  BY <1>1, <3>1, WindTypes DEF CubesFit
  <2>2. CASE Eligible(inv') # {}
    <3> DEFINE lo == Lower(Newest(inv'))
               hi == Upper(Newest(inv'), past)
               mid == Read(cubes, lo)
    <3>1. cubes' = Read(mid, hi)
      BY <2>2 DEF Predict
    <3>2. lo \in inv' /\ hi \in inv'
      <4>1. PICK a \in Nat : Newest(inv') = {g \in inv' : g[1] = a} /\ Newest(inv') # {}
        BY <1>3, <2>2, NewestForm
      <4>2. Newest(inv') \in SUBSET File /\ Newest(inv') \subseteq inv'
        BY <1>3, <4>1
      <4> QED  BY <4>1, <4>2, PairForm
    <3>3. Sure => \A f \in {lo, hi} : f[1] = Run => f[2] <= Run + 1
      <4> SUFFICES ASSUME Sure, NEW f \in {lo, hi} PROVE f[1] = Run => f[2] <= Run + 1
        OBVIOUS
      <4>1. Run \in Nat
        BY <1>1, WindTypes
      <4>2. \A h \in Fxx : <<Run, h>> \in inv' => \A k \in 0..h - 1 : <<Run, k>> \in inv'
        BY <1>2, <1>3, <1>5 DEF InSequence
      <4> QED  BY <1>3, <2>2, <4>1, <4>2, ChosenInSequence
    <3>4. \A f \in {lo, hi} : f \in File /\ CubeFits([file |-> f, whole |-> f \in files])
      <4> SUFFICES ASSUME NEW f \in inv', f = lo \/ f = hi
                   PROVE  f \in File /\ CubeFits([file |-> f, whole |-> f \in files])
        BY <3>2
      <4>1. f \in File /\ f[1] >= Run
        BY <1>3, <1>4 DEF NothingNewer
      <4>2. ASSUME Sure, f[1] = Run, f \notin files
            PROVE  f[2] + Slept <= Run + 1
        <5>1. f[2] <= Run + 1
          BY <3>3, <4>2
        <5>2. f = <<Run, f[2]>> /\ f[2] \in Fxx
          BY <4>1, <4>2, FileForm
        <5>3. poll.at # "sleep"
          BY <1>1, <4>2, <5>2 DEF InSequence, Fetched
        <5>4. Slept = 0 /\ f[2] \in Nat
          BY <4>1, <5>3, FileForm DEF Slept
        <5> QED  BY <5>1, <5>4
      <4> DEFINE c == [file |-> f, whole |-> f \in files]
      <4>3. c.file = f /\ c.whole = (f \in files)
        OBVIOUS
      <4> HIDE DEF c
      <4>4. CubeFits(c)
        BY <4>1, <4>2, <4>3 DEF CubeFits
      <4> QED  BY <4>1, <4>4 DEF c
    <3> HIDE DEF lo, hi
    <3>5. cubes \in Seq(Cube) /\ Len(cubes) <= CacheMax /\ lo \in File /\ hi \in File
      BY <1>1, <3>4, WindTypes
    <3>6. /\ mid \in Seq(Cube) /\ Len(mid) <= CacheMax
          /\ \A i \in 1..Len(mid) : CubeFits(mid[i])
      BY <1>1, <3>4, <3>5, ReadForm DEF CubesFit
    <3> HIDE DEF mid
    <3> QED  BY <3>1, <3>4, <3>5, <3>6, ReadForm
  <2> QED  BY <2>1, <2>2
<1>7. CubesFit'
  BY <1>2, <1>3, <1>6 DEF CubesFit, CubeFits, Slept
<1>8. WindTypeOK'
  BY <1>1, <1>2, <1>3, <1>6 DEF WindTypeOK, Cube
<1> QED  BY <1>4, <1>5, <1>7, <1>8 DEF WindInv

LEMMA OlderForm ==
  ASSUME NEW a \in 0..Cap
  PROVE  /\ Older(a) \in 0..Cap
         /\ \A b \in 0..Cap : a <= b => Older(a) <= Older(b)
         /\ \A b \in 0..Cap : a + 1 < Cap /\ Older(b) = a + 1 => b = a
         /\ a + 1 < Cap => Older(a) = a + 1
BY WindParameters DEF Older

LEMMA TickKeeps ==
  ASSUME WindInv, Tick
  PROVE  WindInv'
<1>1. WindTypeOK /\ NothingNewer /\ InSequence /\ CubesFit
  BY DEF WindInv
<1>2. /\ poll.at = "sleep" /\ poll.left > 0 /\ latest < Late + Period /\ latest' = latest + 1
      /\ files' = OlderFiles(files) /\ partial' = OlderFiles(partial) \ OlderFiles(files)
      /\ fresh' = FALSE /\ inv' = {} /\ flawed' = flawed
      /\ Sure' = Sure
  BY DEF Tick, Sure
<1>3. /\ latest \in Nat /\ latest <= Late + Period /\ latest \in 0..Cap
      /\ files \in SUBSET File /\ partial \in SUBSET File
      /\ poll \in Polls /\ flawed \in BOOLEAN /\ Run \in 0..Cap /\ Run \in Nat
      /\ cubes \in Seq(Cube) /\ Len(cubes) <= CacheMax /\ Present \in SUBSET File
  BY <1>1, WindTypes, WindParameters
<1>4. /\ poll' \in Polls /\ poll'.at = "sleep" /\ poll'.left = poll.left - 1
      /\ Run' = Older(Run) /\ poll.left \in Nat /\ poll.left <= Cadence
  <2>1. poll' = [poll EXCEPT !.left = @ - 1, !.run = Older(@)]
    BY DEF Tick
  <2>2. poll.left \in 0..Cadence /\ poll.left - 1 \in 0..Cadence
    BY <1>2, <1>3, WindParameters DEF Polls
  <2>3. Older(poll.run) \in 0..Cap
    BY <1>3, OlderForm DEF Run
  <2>4. poll' \in Polls
    BY <1>3, <2>1, <2>2, <2>3 DEF Polls
  <2>5. poll'.at = poll.at /\ poll'.left = poll.left - 1 /\ poll'.run = Older(poll.run)
    BY <1>3, <2>1 DEF Polls
  <2> QED  BY <1>2, <2>2, <2>4, <2>5, WindParameters DEF Run
<1>5. \A s \in SUBSET File : \A g \in OlderFiles(s) :
        \E f \in s : g = <<Older(f[1]), f[2]>> /\ g[1] = Older(f[1]) /\ g[2] = f[2]
                     /\ f \in File /\ f[1] \in 0..Cap /\ f[2] \in Fxx
  BY FileForm DEF OlderFiles
<1>6. \A s \in SUBSET File : OlderFiles(s) \in SUBSET File
  <2> SUFFICES ASSUME NEW s \in SUBSET File, NEW g \in OlderFiles(s) PROVE g \in File
    OBVIOUS
  <2>1. PICK f \in s : g = <<Older(f[1]), f[2]>> /\ f[1] \in 0..Cap /\ f[2] \in Fxx
    BY <1>5
  <2>2. Older(f[1]) \in 0..Cap
    BY <2>1, OlderForm
  <2> QED  BY <2>1, <2>2 DEF File
<1>7. NothingNewer'
  <2>1. \A g \in Present' : \E f \in Present : g[1] = Older(f[1]) /\ f[1] \in 0..Cap
    BY <1>2, <1>3, <1>5 DEF Present
  <2>2. \A f \in Present : f[1] >= Run
    BY <1>1 DEF NothingNewer
  <2>3. \A g \in Present' : g[1] >= Older(Run)
    BY <1>3, <2>1, <2>2, OlderForm
  <2>4. latest + 1 <= Older(Run)
    BY <1>1, <1>2, <1>3, WindParameters DEF Older, NothingNewer
  <2> QED  BY <1>2, <1>4, <2>3, <2>4 DEF NothingNewer
<1>8. ASSUME Sure
      PROVE  /\ Run' = Run + 1 /\ Run + 1 < Cap /\ Run' <= Reach'
             /\ \A h \in Fxx : <<Run, h>> \in files
  <2>1. Run <= Late + Period + Cadence - poll.left
    BY <1>1, <1>2, <1>8 DEF InSequence, Reach
  <2>2. Run + 1 < Cap
    BY <1>2, <1>3, <1>4, <1>8, <2>1, WindParameters DEF Sure, ForecastsReach
  <2>3. Run' = Run + 1
    BY <1>3, <1>4, <2>2, OlderForm
  <2>4. Run' <= Reach'
    BY <1>3, <1>4, <2>1, <2>3, WindParameters DEF Reach
  <2>5. \A h \in Fxx : <<Run, h>> \in files
    BY <1>1, <1>2, <1>8 DEF InSequence, Fetched
  <2> QED  BY <2>2, <2>3, <2>4, <2>5
<1>9. InSequence'
  <2>1. ASSUME Sure PROVE \A h \in Fxx : <<Run, h>>[1] = Run /\ <<Run', h>> \in files'
    <3> SUFFICES ASSUME NEW h \in Fxx PROVE <<Run', h>> \in files'
      OBVIOUS
    <3>1. <<Run, h>> \in files
      BY <1>8, <2>1
    <3>2. <<Older(Run), h>> \in OlderFiles(files)
      BY <3>1 DEF OlderFiles
    <3> QED  BY <1>2, <1>4, <3>2
  <2>2. \A h \in Fxx : \A k \in 0..h - 1 : k \in Fxx
    BY WindParameters DEF Fxx
  <2> QED  BY <1>2, <1>4, <1>8, <2>1, <2>2 DEF InSequence, Fetched
<1> DEFINE older(c) == [c EXCEPT !.file = <<Older(@[1]), @[2]>>]
<1>10. /\ cubes' \in Seq(Cube) /\ Len(cubes') = Len(cubes)
       /\ \A i \in 1..Len(cubes) : cubes'[i] = older(cubes[i])
  <2>1. cubes' = [i \in DOMAIN cubes |-> older(cubes[i])]
    BY DEF Tick
  <2>2. ASSUME NEW c \in Cube PROVE older(c) \in Cube
    <3>1. c.file \in File
      BY DEF Cube
    <3>2. c.file[1] \in 0..Cap /\ c.file[2] \in Fxx
      BY <3>1, FileForm
    <3>3. <<Older(c.file[1]), c.file[2]>> \in File
      BY <3>2, OlderForm DEF File
    <3> QED  BY <3>3 DEF Cube
  <2>3. DOMAIN cubes = 1..Len(cubes) /\ \A i \in 1..Len(cubes) : cubes[i] \in Cube
    BY <1>3
  <2> HIDE DEF older
  <2> QED  BY <1>3, <2>1, <2>2, <2>3
<1>11. ASSUME NEW i \in 1..Len(cubes) PROVE CubeFits(cubes[i])' 
  <2> DEFINE c == cubes[i]
             d == cubes'[i]
  <2> HIDE DEF older
  <2>1. c \in Cube /\ CubeFits(c) /\ d = older(c)
    BY <1>1, <1>3, <1>10 DEF CubesFit
  <2>2. c.file \in File
    BY <2>1 DEF Cube
  <2>3. c.file[1] \in 0..Cap /\ c.file[2] \in Nat
    BY <2>2, FileForm
  <2>4. d.file = <<Older(c.file[1]), c.file[2]>> /\ d.whole = c.whole
    BY <2>1 DEF Cube, older
  <2> HIDE DEF c, d
  <2>5. d.file[1] = Older(c.file[1]) /\ d.file[2] = c.file[2]
    BY <2>4
  <2>6. d.file[1] >= Run'
    BY <1>3, <1>4, <2>1, <2>3, <2>5, OlderForm DEF CubeFits
  <2>7. ASSUME Sure, d.file[1] = Run', ~d.whole PROVE d.file[2] + Slept' <= Run' + 1
    <3>1. c.file[1] = Run
      BY <1>3, <1>8, <2>3, <2>5, <2>7, OlderForm
    <3>2. c.file[2] + Slept <= Run + 1
      BY <2>1, <2>4, <2>7, <3>1 DEF CubeFits
    <3>3. Slept \in Nat /\ Slept' = Slept + 1
      BY <1>2, <1>4, WindParameters DEF Slept
    <3> QED  BY <1>3, <1>8, <2>3, <2>5, <2>7, <3>2, <3>3
  <2> QED  BY <1>2, <2>6, <2>7 DEF CubeFits, d
<1>12. CubesFit'
  BY <1>10, <1>11 DEF CubesFit
<1>13. WindTypeOK'
  <2>1. latest' \in Early..(Late + Period)
    BY <1>1, <1>2, WindParameters DEF WindTypeOK
  <2>2. files' \subseteq File /\ partial' \subseteq File \ files'
    BY <1>2, <1>3, <1>6
  <2> QED  BY <1>2, <1>3, <1>4, <1>10, <2>1, <2>2 DEF WindTypeOK, Polls, Cube
<1> QED  BY <1>7, <1>9, <1>12, <1>13 DEF WindInv

(* Once an hour of the run has failed, only the order of runs matters.     *)
LEMMA FlawedKeeps ==
  ASSUME WindInv, flawed' = TRUE, UNCHANGED <<latest, files, fresh, inv, cubes>>,
         partial' \in SUBSET partial, poll' \in Polls, Run' = Run, poll'.at # "write"
  PROVE  WindInv'
<1>1. WindTypeOK /\ NothingNewer /\ CubesFit
  BY DEF WindInv
<1>2. NothingNewer'
  BY <1>1 DEF NothingNewer, Present
<1>3. InSequence' /\ CubesFit'
  BY <1>1 DEF Sure, InSequence, CubesFit, CubeFits
<1>4. WindTypeOK'
  BY <1>1 DEF WindTypeOK, Polls
<1> QED  BY <1>2, <1>3, <1>4 DEF WindInv

LEMMA BeginKeeps ==
  ASSUME WindInv, BeginPass
  PROVE  WindInv'
<1>1. WindTypeOK /\ NothingNewer /\ InSequence /\ CubesFit
  BY DEF WindInv
<1>2. /\ poll.at = "sleep"
      /\ poll' = [at |-> "fetch", run |-> latest, next |-> 0, got |-> FALSE, left |-> 0]
      /\ flawed' = (flawed /\ Run = latest)
      /\ UNCHANGED <<latest, files, partial, fresh, inv, cubes>>
  BY DEF BeginPass, Run
<1>3. /\ latest \in Nat /\ latest <= Late + Period /\ latest \in 0..Cap /\ Run \in Nat
      /\ files \in SUBSET File /\ inv \in SUBSET File /\ Present \in SUBSET File
      /\ cubes \in Seq(Cube) /\ latest <= Run
  BY <1>1, WindTypes DEF NothingNewer
<1>4. /\ poll' \in Polls /\ poll'.at = "fetch" /\ poll'.next = 0 /\ Run' = latest
      /\ Present' = Present
  BY <1>2, <1>3, WindParameters DEF Polls, Run, Present
<1>5. \A f \in Present \cup inv : f \in File /\ f[1] \in Nat /\ f[1] >= Run
  BY <1>1, <1>3, FileForm DEF NothingNewer
<1>6. NothingNewer'
  BY <1>2, <1>3, <1>4, <1>5 DEF NothingNewer
<1>7. InSequence'
  <2>1. CASE Run = latest
    BY <1>1, <1>2, <1>3, <1>4, <2>1, WindParameters DEF Sure, InSequence, Reach, Fetched, Fxx
  <2>2. CASE Run # latest
    <3>1. \A h \in Fxx : <<latest, h>> \notin Present /\ <<latest, h>> \notin inv
      <4> SUFFICES ASSUME NEW h \in Fxx, <<latest, h>> \in Present \cup inv PROVE FALSE
        OBVIOUS
      <4>1. <<latest, h>>[1] >= Run
        BY <1>5
      <4>2. latest >= Run
        BY <4>1
      <4> QED  BY <1>3, <2>2, <4>2
    <3> QED  BY <1>2, <1>3, <1>4, <3>1, WindParameters DEF Sure, InSequence, Reach, Fetched, Fxx
  <2> QED  BY <2>1, <2>2
<1>10. poll.left \in 0..Cadence
  <2>1. poll \in Polls
    BY <1>1, WindTypes
  <2> QED  BY <2>1 DEF Polls
<1>8. CubesFit'
  <2> SUFFICES ASSUME NEW i \in 1..Len(cubes) PROVE CubeFits(cubes[i])'
    BY <1>2 DEF CubesFit
  <2>1. cubes[i] \in Cube /\ CubeFits(cubes[i])
    BY <1>1, <1>3 DEF CubesFit
  <2>2. cubes[i].file \in File
    BY <2>1 DEF Cube
  <2>3. cubes[i].file[1] \in Nat
    BY <2>2, FileForm
  <2>4. CASE Run = latest
    <3>1. Slept' = 0 /\ Slept \in Nat
      BY <1>2, <1>3, <1>4, <1>10, WindParameters DEF Slept
    <3>2. cubes[i].file[2] \in Nat
      BY <2>2, FileForm
    <3>3. ASSUME Sure', cubes[i].file[1] = Run, ~cubes[i].whole
          PROVE  cubes[i].file[2] + Slept' <= Run' + 1
      <4>1. cubes[i].file[2] + Slept <= Run + 1
        BY <1>2, <2>1, <2>4, <3>3 DEF Sure, CubeFits
      <4> QED  BY <1>3, <1>4, <2>4, <3>1, <3>2, <4>1
    <3> QED  BY <1>2, <1>4, <2>1, <2>4, <3>3 DEF CubeFits
  <2>5. CASE Run # latest
    <3>1. cubes[i].file[1] > latest
      BY <1>3, <2>1, <2>3, <2>5 DEF CubeFits
    <3> QED  BY <1>2, <1>3, <1>4, <2>3, <3>1 DEF CubeFits
  <2> QED  BY <2>4, <2>5
<1>9. WindTypeOK'
  <2>1. flawed' \in BOOLEAN
    BY <1>2
  <2> QED  BY <1>1, <1>2, <1>4, <2>1 DEF WindTypeOK, Polls
<1> QED  BY <1>6, <1>7, <1>8, <1>9 DEF WindInv

LEMMA PollUpdates ==
  ASSUME poll \in Polls
  PROVE  /\ LET q == [poll EXCEPT !.at = "write"]
            IN  q \in Polls /\ q.at = "write" /\ q.next = poll.next /\ q.run = Run
         /\ LET q == [poll EXCEPT !.at = "sleep", !.left = Cadence]
            IN  q \in Polls /\ q.at = "sleep" /\ q.run = Run
         /\ LET q == [[poll EXCEPT !.at = "sleep", !.left = Cadence]
                        EXCEPT !.next = 0, !.got = FALSE]
            IN  q \in Polls /\ q.at = "sleep" /\ q.left = Cadence /\ q.run = Run
         /\ poll.next <= MaxFxx =>
              LET q == [poll EXCEPT !.at = "fetch", !.next = @ + 1]
                  r == [q EXCEPT !.got = TRUE]
              IN  /\ q \in Polls /\ q.at = "fetch" /\ q.run = Run
                  /\ r \in Polls /\ r.at = "fetch" /\ r.next = poll.next + 1 /\ r.run = Run
<1>1. Cadence \in 0..Cadence /\ 0 \in 0..MaxFxx + 1
  BY WindParameters
<1>2. poll.next <= MaxFxx => poll.next + 1 \in 0..MaxFxx + 1
  <2>1. poll.next \in 0..MaxFxx + 1
    BY DEF Polls
  <2> QED  BY <2>1, WindParameters
<1> DEFINE n == poll.next + 1
<1> HIDE DEF n
<1>3. LET q == [poll EXCEPT !.at = "write"]
      IN  q \in Polls /\ q.at = "write" /\ q.next = poll.next /\ q.run = Run
  BY DEF Polls, Run
<1>4. LET q == [poll EXCEPT !.at = "sleep", !.left = Cadence]
      IN  q \in Polls /\ q.at = "sleep" /\ q.run = Run
  BY <1>1 DEF Polls, Run
<1>5. LET q == [[poll EXCEPT !.at = "sleep", !.left = Cadence] EXCEPT !.next = 0, !.got = FALSE]
      IN  q \in Polls /\ q.at = "sleep" /\ q.left = Cadence /\ q.run = Run
  BY <1>1 DEF Polls, Run
<1>6. n \in 0..MaxFxx + 1 =>
        LET q == [poll EXCEPT !.at = "fetch", !.next = n]
            r == [q EXCEPT !.got = TRUE]
        IN  /\ q \in Polls /\ q.at = "fetch" /\ q.run = Run
            /\ r \in Polls /\ r.at = "fetch" /\ r.next = n /\ r.run = Run
  BY DEF Polls, Run
<1> QED  BY <1>2, <1>3, <1>4, <1>5, <1>6 DEF n

LEMMA HoursKeep ==
  ASSUME WindInv, NEW past \in Moments,
         HaveIt \/ Write \/ WriteEnds \/ EndPass(past)
  PROVE  WindInv'
<1>1. WindTypeOK /\ NothingNewer /\ InSequence /\ CubesFit
  BY DEF WindInv
<1>2. /\ poll.at # "sleep" /\ UNCHANGED <<latest, flawed, fresh, inv, cubes>>
      /\ Sure' = Sure
  BY DEF Sure, HaveIt, Write, WriteEnds, EndPass, AtAnHour
<1>3. /\ files \in SUBSET File /\ partial \in SUBSET File /\ files \cap partial = {}
      /\ poll \in Polls /\ Run \in Nat /\ Run <= Cap /\ Run \in 0..Cap
      /\ poll.next \in 0..MaxFxx + 1 /\ poll.next \in Nat
  <2>1. files \in SUBSET File /\ partial \in SUBSET File /\ files \cap partial = {}
        /\ poll \in Polls /\ Run \in Nat /\ Run <= Cap
    BY <1>1, WindTypes
  <2>2. poll.next \in 0..MaxFxx + 1
    BY <2>1 DEF Polls
  <2> QED  BY <2>1, <2>2, WindParameters
<1>4. CASE HaveIt
  <2>1. /\ poll.at = "fetch" /\ poll.next <= MaxFxx /\ <<Run, poll.next>> \in files
        /\ poll' = [[poll EXCEPT !.at = "fetch", !.next = @ + 1] EXCEPT !.got = TRUE]
        /\ files' = files /\ partial' = partial
    BY <1>4 DEF HaveIt, AtAnHour, Target, NextHour, Run
  <2>2. /\ poll' \in Polls /\ poll'.at = "fetch" /\ poll'.next = poll.next + 1 /\ Run' = Run
    BY <1>3, <2>1, PollUpdates DEF Run
  <2>3. \A h \in Fxx : h < poll.next + 1 => h < poll.next \/ h = poll.next
    BY <1>3, WindParameters DEF Fxx
  <2>4. InSequence'
    BY <1>1, <1>2, <2>1, <2>2, <2>3 DEF InSequence, Reach, Fetched, Present
  <2>5. NothingNewer' /\ CubesFit'
    BY <1>1, <1>2, <2>1, <2>2 DEF NothingNewer, CubesFit, CubeFits, Slept, Present
  <2>6. WindTypeOK'
    BY <1>1, <1>2, <2>1, <2>2 DEF WindTypeOK, Polls
  <2> QED  BY <2>4, <2>5, <2>6 DEF WindInv
<1>5. CASE Write
  <2>1. /\ poll.at = "fetch" /\ poll.next <= MaxFxx /\ <<Run, poll.next>> \notin files
        /\ poll' = [poll EXCEPT !.at = "write"]
        /\ files' = files /\ partial' = partial \cup {<<Run, poll.next>>}
    BY <1>5 DEF Write, AtAnHour, Target, Run
  <2>2. /\ poll' \in Polls /\ poll'.at = "write" /\ poll'.next = poll.next /\ Run' = Run
    BY <1>3, <2>1, PollUpdates DEF Run
  <2>3. <<Run, poll.next>> \in File /\ poll.next \in Fxx
    BY <1>3, <2>1, WindParameters DEF File, Fxx
  <2>4. \A h \in Fxx : <<Run, h>> \in Present' => <<Run, h>> \in Present \/ h = poll.next
    BY <2>1 DEF Present
  <2>5. \A k \in 0..poll.next - 1 : k \in Fxx /\ k < poll.next
    BY <1>3, <2>1, WindParameters DEF Fxx
  <2>6. InSequence'
    BY <1>1, <1>2, <2>1, <2>2, <2>4, <2>5 DEF InSequence, Reach, Fetched
  <2>7. NothingNewer'
    <3>1. \A f \in Present' : f \in Present \/ f[1] = Run
      BY <2>1 DEF Present
    <3> QED  BY <1>1, <1>2, <1>3, <2>2, <3>1 DEF NothingNewer
  <2>8. CubesFit'
    BY <1>1, <1>2, <2>1, <2>2 DEF CubesFit, CubeFits, Slept
  <2>9. WindTypeOK'
    BY <1>1, <1>2, <1>3, <2>1, <2>2, <2>3 DEF WindTypeOK, Polls
  <2> QED  BY <2>6, <2>7, <2>8, <2>9 DEF WindInv
<1>6. CASE WriteEnds
  <2>1. /\ poll.at = "write" /\ poll.next <= MaxFxx
        /\ poll' = [[poll EXCEPT !.at = "fetch", !.next = @ + 1] EXCEPT !.got = TRUE]
        /\ files' = files \cup {<<Run, poll.next>>} /\ partial' = partial \ {<<Run, poll.next>>}
    BY <1>1, <1>6 DEF Sure, WriteEnds, Target, NextHour, Run, InSequence
  <2>2. /\ poll' \in Polls /\ poll'.at = "fetch" /\ poll'.next = poll.next + 1 /\ Run' = Run
    BY <1>3, <2>1, PollUpdates DEF Run
  <2>3. <<Run, poll.next>> \in File /\ poll.next \in Fxx
    BY <1>3, <2>1, WindParameters DEF File, Fxx
  <2>4. \A h \in Fxx : <<Run, h>> \in Present' => <<Run, h>> \in Present \/ h = poll.next
    BY <2>1 DEF Present
  <2>5. \A k \in 0..poll.next - 1 : k \in Fxx /\ k < poll.next
    BY <1>3, <2>1, WindParameters DEF Fxx
  <2>6. \A h \in Fxx : h < poll.next + 1 => h < poll.next \/ h = poll.next
    BY <1>3, WindParameters DEF Fxx
  <2>7. InSequence'
    BY <1>1, <1>2, <2>1, <2>2, <2>4, <2>5, <2>6 DEF InSequence, Reach, Fetched
  <2>8. NothingNewer'
    <3>1. \A f \in Present' : f \in Present \/ f[1] = Run
      BY <2>1 DEF Present
    <3> QED  BY <1>1, <1>2, <1>3, <2>2, <3>1 DEF NothingNewer
  <2>9. CubesFit'
    BY <1>1, <1>2, <2>1, <2>2 DEF CubesFit, CubeFits, Slept
  <2>10. WindTypeOK'
    BY <1>1, <1>2, <1>3, <2>1, <2>2, <2>3 DEF WindTypeOK, Polls
  <2> QED  BY <2>7, <2>8, <2>9, <2>10 DEF WindInv
<1>7. CASE EndPass(past)
  <2>1. /\ poll.at = "fetch" /\ poll.next > MaxFxx
        /\ files' = (IF poll.got THEN Kept(files, past) ELSE files)
        /\ partial' = (IF poll.got THEN Kept(partial, past) ELSE partial)
        /\ poll' = [[poll EXCEPT !.at = "sleep", !.left = Cadence]
                      EXCEPT !.next = 0, !.got = FALSE]
    BY <1>7 DEF EndPass, Asleep
  <2>2. /\ poll' \in Polls /\ poll'.at = "sleep" /\ poll'.left = Cadence /\ Run' = Run
    BY <1>3, <2>1, PollUpdates DEF Run
  <2>3. \A s : Kept(s, past) \subseteq s /\ (Keep = 0 => Kept(s, past) = s)
    BY WindParameters DEF Kept
  <2>4. files' \subseteq files /\ partial' \subseteq partial /\ Present' \subseteq Present
    BY <2>1, <2>3 DEF Present
  <2>5. ASSUME Sure
        PROVE  Run <= Late + Period /\ \A h \in Fxx : <<Run, h>> \in files'
    <3>1. Run <= Late + Period
      BY <1>1, <2>1, <2>5 DEF InSequence, Reach
    <3>2. \A h \in Fxx : <<Run, h>> \in files
      BY <1>1, <1>3, <2>1, <2>5, WindParameters DEF InSequence, Fetched, Fxx
    <3>3. CASE Keep = 0
      BY <2>1, <2>3, <3>1, <3>2, <3>3
    <3>4. CASE Keep # 0
      <4>1. Run + past <= Keep
        BY <1>3, <2>5, <3>1, <3>4, WindParameters DEF Sure, NewestIsKept, Moments
      <4>2. \A h \in Fxx : <<Run, h>>[1] + past <= Keep
        BY <4>1
      <4>3. \A h \in Fxx : <<Run, h>> \in Kept(files, past)
        BY <3>2, <4>2 DEF Kept
      <4> QED  BY <2>1, <3>1, <3>2, <4>3
    <3> QED  BY <3>3, <3>4
  <2>6. \A h \in Fxx : \A k \in 0..h - 1 : k \in Fxx
    BY WindParameters DEF Fxx
  <2>7. InSequence'
    <3>1. Sure => Run <= Reach'
      BY <1>3, <2>2, <2>5, WindParameters DEF Reach
    <3> QED  BY <1>1, <1>2, <2>2, <2>5, <2>6, <3>1 DEF InSequence, Fetched
  <2>8. NothingNewer'
    BY <1>1, <1>2, <2>2, <2>4 DEF NothingNewer
  <2>9. CubesFit'
    <3>1. Slept' = 0 /\ Slept = 0
      BY <1>2, <2>2, WindParameters DEF Slept
    <3> QED  BY <1>1, <1>2, <2>2, <3>1 DEF CubesFit, CubeFits
  <2>10. WindTypeOK'
    <3>1. files' \subseteq File /\ partial' \subseteq File \ files'
      BY <1>3, <2>4
    <3> QED  BY <1>1, <1>2, <2>2, <3>1 DEF WindTypeOK, Polls
  <2> QED  BY <2>7, <2>8, <2>9, <2>10 DEF WindInv
<1> QED  BY <1>4, <1>5, <1>6, <1>7

LEMMA WindStep ==
  ASSUME WindInv, [WindNext]_windVars
  PROVE  WindInv'
<1>1. WindTypeOK /\ NothingNewer /\ InSequence /\ CubesFit
  BY DEF WindInv
<1>2. poll \in Polls /\ latest \in Nat /\ inv \in SUBSET File
  BY <1>1, WindTypes
<1>3. CASE Publish
  <2>1. /\ latest >= Early + Period /\ latest' = latest - Period
        /\ UNCHANGED <<files, partial, poll, flawed, fresh, inv, cubes>>
    BY <1>3 DEF Publish
  <2>2. latest' \in Early..(Late + Period) /\ latest' <= latest
    BY <1>1, <2>1, WindParameters DEF WindTypeOK
  <2>3. latest' <= Run
    BY <1>1, <1>2, <2>2, WindParameters, WindTypes DEF NothingNewer
  <2>4. NothingNewer' /\ InSequence' /\ CubesFit'
    BY <1>1, <2>1, <2>3 DEF Sure, NothingNewer, InSequence, CubesFit, CubeFits, Slept, Reach, Fetched,
                            Present, Run, Sure
  <2> QED  BY <1>1, <2>1, <2>2, <2>4 DEF WindInv, WindTypeOK
<1>4. CASE NoLatest
  <2>1. /\ poll' = [poll EXCEPT !.at = "sleep", !.left = Cadence] /\ flawed' = TRUE
        /\ UNCHANGED <<latest, files, partial, fresh, inv, cubes>>
    BY <1>4 DEF NoLatest, Asleep
  <2>2. poll' \in Polls /\ Run' = Run /\ poll'.at = "sleep"
    BY <1>2, <2>1, PollUpdates DEF Run
  <2> QED  BY <2>1, <2>2, FlawedKeeps
<1>5. CASE HourFails \/ NotPublished
  <2>1. /\ poll' = [poll EXCEPT !.at = "fetch", !.next = @ + 1] /\ flawed' = TRUE
        /\ partial' \in SUBSET partial
        /\ UNCHANGED <<latest, files, fresh, inv, cubes>>
    BY <1>5 DEF HourFails, NotPublished, NextHour
  <2>2. poll.next <= MaxFxx
    BY <1>1, <1>5 DEF Sure, HourFails, NotPublished, AtAnHour, InSequence
  <2>3. poll' \in Polls /\ Run' = Run /\ poll'.at = "fetch"
    BY <1>2, <2>1, <2>2, PollUpdates DEF Run
  <2> QED  BY <2>1, <2>3, FlawedKeeps
<1>6. CASE Expire
  <2>1. /\ fresh' = FALSE /\ inv' = {}
        /\ UNCHANGED <<latest, files, partial, poll, flawed, cubes>>
    BY <1>6 DEF Expire
  <2>2. NothingNewer' /\ InSequence' /\ CubesFit'
    BY <1>1, <2>1 DEF Sure, NothingNewer, InSequence, CubesFit, CubeFits, Slept, Reach, Fetched,
                      Present, Run, Sure
  <2> QED  BY <1>1, <2>1, <2>2 DEF WindInv, WindTypeOK
<1>7. CASE UNCHANGED windVars
  BY <1>1, <1>7 DEF Sure, windVars, WindInv, WindTypeOK, NothingNewer, InSequence, CubesFit,
                    CubeFits, Slept, Reach, Fetched, Present, Run, Sure
<1>8. CASE HaveIt \/ Write \/ WriteEnds
  <2>1. 0 \in Moments
    BY DEF Moments
  <2> QED  BY <1>8, <2>1, HoursKeep
<1>9. ASSUME NEW past \in Moments, EndPass(past) \/ Predict(past) PROVE WindInv'
  BY <1>9, HoursKeep, PredictKeeps
<1> QED  BY <1>3, <1>4, <1>5, <1>6, <1>7, <1>8, <1>9, TickKeeps, BeginKeeps DEF WindNext

LEMMA WindStarts ==
  ASSUME WindInit
  PROVE  WindInv
<1>1. /\ latest \in Early..(Late + Period) /\ files = {} /\ partial = {} /\ flawed = TRUE
      /\ poll = [at |-> "sleep", run |-> Cap, next |-> 0, got |-> FALSE, left |-> 0]
      /\ fresh = FALSE /\ inv = {} /\ cubes = <<>>
  BY DEF WindInit
<1>2. poll \in Polls /\ Run = Cap /\ poll.at = "sleep"
  BY <1>1, WindParameters DEF Polls, Run
<1>3. cubes \in Seq(Cube) /\ Len(cubes) = 0 /\ 0 <= CacheMax
  BY <1>1, WindParameters
<1>4. flawed \in BOOLEAN /\ fresh \in BOOLEAN
  BY <1>1
<1>5. WindTypeOK
  BY <1>1, <1>2, <1>3, <1>4 DEF WindTypeOK, Polls, Cube
<1>6. NothingNewer
  BY <1>1, <1>2, WindParameters DEF NothingNewer, Present
<1> QED  BY <1>1, <1>2, <1>3, <1>5, <1>6 DEF WindInv, InSequence, CubesFit, Sure

LEMMA WindHolds == WindSpec => []WindInv
BY WindStarts, WindStep, PTL DEF WindSpec

(* Well fetched, the pair is the hour that is now, and the next if part of *)
(* this one has passed.                                                    *)
LEMMA WellFetchedPair ==
  ASSUME WindInv, ForecastsReach, NewestIsKept, WellFetched, NEW past \in Moments
  PROVE  /\ <<Run, Run>> \in files /\ <<Run, Run + past>> \in files
         /\ Lower(Chosen) = <<Run, Run>> /\ Upper(Chosen, past) = <<Run, Run + past>>
<1>1. WindTypeOK /\ NothingNewer /\ InSequence
  BY DEF WindInv
<1>2. poll.at = "sleep" /\ Sure /\ Run >= Latency
  BY DEF WellFetched, Sure, Run
<1>3. /\ files \in SUBSET File /\ Present \in SUBSET File /\ Run \in Nat /\ poll \in Polls
  BY <1>1, WindTypes
<1>4. Run \in Fxx /\ Run + past \in Fxx
  <2>1. Run <= Late + Period + Cadence - poll.left
    BY <1>1, <1>2 DEF InSequence, Reach
  <2>2. poll.left \in 0..Cadence
    BY <1>3 DEF Polls
  <2> QED  BY <1>2, <1>3, <2>1, <2>2, WindParameters DEF Sure, ForecastsReach, Fxx, Moments
<1> DEFINE p == <<Run, Run>>
           q == <<Run, Run + past>>
<1>5. p \in files /\ p \in Present /\ q \in files /\ q \in Present
  BY <1>1, <1>2, <1>4 DEF InSequence, Fetched, Present
<1>6. p[1] = Run /\ p[2] = Run /\ q[1] = Run /\ q[2] = Run + past
  OBVIOUS
<1>7. p \in Eligible(Present)
  BY <1>2, <1>5, <1>6 DEF Eligible
<1> HIDE DEF p, q
<1>8. PICK a \in Nat : Chosen = {f \in Present : f[1] = a} /\ Chosen # {}
                       /\ \A f \in Eligible(Present) : a <= f[1]
  BY <1>3, <1>7, NewestForm DEF Chosen
<1>9. a = Run
  <2>1. a <= Run
    BY <1>6, <1>7, <1>8
  <2>2. a >= Run
    BY <1>1, <1>8 DEF NothingNewer
  <2> QED  BY <1>3, <1>8, <2>1, <2>2
<1>10. Chosen \in SUBSET File /\ p \in Chosen /\ q \in Chosen
  BY <1>3, <1>5, <1>6, <1>8, <1>9
<1>11. past \in Nat
  BY DEF Moments
<1>12. p \in Before(Chosen) /\ q \in After(Chosen, past)
  BY <1>3, <1>6, <1>10, <1>11 DEF Before, After
<1>13. /\ Lower(Chosen) \in Before(Chosen) /\ p[2] <= Lower(Chosen)[2]
       /\ Upper(Chosen, past) \in After(Chosen, past) /\ Upper(Chosen, past)[2] <= q[2]
  BY <1>10, <1>12, PairForm
<1>14. /\ Lower(Chosen) \in Chosen /\ Lower(Chosen)[2] <= Lower(Chosen)[1]
       /\ Upper(Chosen, past) \in Chosen
       /\ Upper(Chosen, past)[2] >= Upper(Chosen, past)[1] + past
  BY <1>13 DEF Before, After
<1>15. ASSUME NEW f \in Chosen
       PROVE  f[1] = Run /\ f[2] \in Nat /\ f = <<f[1], f[2]>>
  BY <1>8, <1>9, <1>10, FileForm
<1>16. Lower(Chosen)[1] = Run /\ Lower(Chosen)[2] = Run
       /\ Upper(Chosen, past)[1] = Run /\ Upper(Chosen, past)[2] = Run + past
  BY <1>3, <1>6, <1>11, <1>13, <1>14, <1>15
<1> QED  BY <1>5, <1>14, <1>15, <1>16 DEF p, q

(* The files, the loop's pass and the caches keep their types.             *)
THEOREM WindTypeCorrect == WindSpec => []WindTypeOK
<1>1. WindInv => WindTypeOK
  BY DEF WindInv
<1> QED  BY <1>1, WindHolds, PTL

(* With forecasts that reach beyond the next run's arrival, and a newest   *)
(* run that is not pruned, every prediction after a whole pass has         *)
(* forecasts around its moment, whenever the loop polls, whatever was      *)
(* published meanwhile and whatever passes failed before (gfs.py).         *)
THEOREM PairCorrect ==
  ASSUME ForecastsReach, NewestIsKept
  PROVE  WindSpec => []TightPair
<1>1. ASSUME WindInv PROVE TightPair
  <2> SUFFICES ASSUME WellFetched, NEW past \in Moments
               PROVE  /\ Lower(Chosen)[2] <= Lower(Chosen)[1]
                      /\ Upper(Chosen, past)[1] + past <= Upper(Chosen, past)[2]
                      /\ Upper(Chosen, past)[2] - Lower(Chosen)[2] <= 1
    BY DEF TightPair
  <2>1. /\ Run \in Nat /\ Lower(Chosen) = <<Run, Run>>
        /\ Upper(Chosen, past) = <<Run, Run + past>>
    BY <1>1, WellFetchedPair, WindTypes DEF WindInv
  <2> QED  BY <2>1 DEF Moments
<1> QED  BY <1>1, WindHolds, PTL

(* A file that was read while it was being written was at most the upper   *)
(* file of the hour of that read: what the cache remembers of it denies    *)
(* winds in that hour and, as the lower file, in the next, but not in the  *)
(* hours after it (gfs.py, _cube).                                         *)
THEOREM ReadsRecover ==
  ASSUME ForecastsReach, NewestIsKept
  PROVE  WindSpec => []WindsComeBack
<1>1. ASSUME WindInv PROVE WindsComeBack
  <2> SUFFICES ASSUME WellFetched, poll.left + 1 < Cadence, NEW past \in Moments,
                      NEW f \in {Lower(Chosen), Upper(Chosen, past)}
               PROVE  f \in files /\ \A i \in Remembered(cubes, f) : cubes[i].whole
    BY DEF WindsComeBack
  <2>1. /\ f = <<Run, Run>> \/ f = <<Run, Run + past>>
        /\ f \in files /\ Run \in Nat /\ poll \in Polls
    BY <1>1, WellFetchedPair, WindTypes DEF WindInv
  <2> SUFFICES ASSUME NEW i \in Remembered(cubes, f), ~cubes[i].whole PROVE FALSE
    BY <2>1
  <2>2. cubes \in Seq(Cube) /\ CubesFit
    BY <1>1, WindTypes DEF WindInv
  <2>3. i \in 1..Len(cubes) /\ cubes[i].file = f
    BY <2>2 DEF Remembered
  <2>4. f[1] = Run /\ f[2] \in Nat /\ f[2] >= Run
    BY <2>1 DEF Moments
  <2>5. poll.left \in Nat /\ Slept = Cadence - poll.left
    BY <2>1 DEF Polls, Slept, WellFetched
  <2>6. f[2] + Slept <= Run + 1
    BY <2>2, <2>3, <2>4 DEF CubesFit, CubeFits, Sure, WellFetched
  <2> QED  BY <2>1, <2>4, <2>5, <2>6, WindParameters
<1> QED  BY <1>1, WindHolds, PTL

-----------------------------------------------------------------------------
(* The services together, as the run checks them.                          *)

(* A behaviour of the services, whichever part it is about and whatever    *)
(* the run bounds, is one of each part: what is proved of a part alone is  *)
(* true of what TLC checks.                                                *)
THEOREM ServicesImplementParts ==
  Spec => BusSpec /\ SettingsSpec /\ DownloadsSpec /\ WindSpec
<1>1. Init => BusInit /\ SettingsInit /\ DownloadsInit /\ WindInit
  BY DEF Init
<1>2. ASSUME [Next]_vars
      PROVE  [BusNext]_busVars /\ [SettingsNext]_settingsVars
             /\ [DownloadsNext]_downloadVars /\ [WindNext]_windVars
  <2>1. CASE UNCHANGED vars
    BY <2>1 DEF vars
  <2>2. CASE Next
    BY <2>2 DEF Next
  <2> QED  BY <1>2, <2>1, <2>2
<1> QED  BY <1>1, <1>2, PTL DEF Spec, BusSpec, SettingsSpec, DownloadsSpec, WindSpec

(* Every variable of the four parts keeps its type, for all constants.     *)
THEOREM ServicesTypeCorrect == Spec => []TypeOK
<1>1. BusTypeOK /\ SettingsTypeOK /\ DownloadsTypeOK /\ WindTypeOK => TypeOK
  BY DEF TypeOK
<1> QED  BY <1>1, ServicesImplementParts, BusTypeCorrect, SettingsTypeCorrect,
            DownloadsTypeCorrect, WindTypeCorrect, PTL
==============================================================================
