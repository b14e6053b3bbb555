----------------------------- MODULE WindCache ------------------------------
(***************************************************************************)
(* How a forecast reaches a prediction.  A model is run every few hours    *)
(* and published some hours later; the downloader loop fetches the newest  *)
(* run, hour by hour, into a directory and prunes old runs; predictions in *)
(* another thread take the file names there, choose the two hours around   *)
(* the moment they predict for, and remember what reading the files gave.  *)
(* All of it is told in ages: the run of a file <<a, h>> was made a whole  *)
(* hours ago, or a hours and a part, and h is the hour the file forecasts. *)
(* The GFS and HRRR sources are alike.                                     *)
(***************************************************************************)
EXTENDS Naturals, Sequences, FiniteSetsExt

CONSTANTS
  Period,     \* hours between runs
  Early,      \* a run is published at an age from Early
  Late,       \* ... to Late
  Latency,    \* publication_latency_hours
  Cadence,    \* download_cadence_hours
  Keep,       \* keep_hours; 0 keeps everything
  MaxFxx,     \* the last of download_fxx
  CacheMax,   \* _CUBE_CACHE_MAX
  Cap         \* bound: every greater age is the same

ASSUME WindAssumption ==
  /\ {Period, Early, Late, Latency, Cadence, Keep, MaxFxx, CacheMax, Cap} \subseteq Nat
  /\ Period > 0 /\ Cadence > 0 /\ CacheMax > 0
  /\ Early <= Late /\ Late + Period <= Cap /\ MaxFxx < Cap

VARIABLES
  latest,   \* the age of the newest published run
  files,    \* files on disk, whole
  partial,  \* files on disk of which only a part was written
  poll,     \* the loop: run and next hour of its pass, or hours it still sleeps
  flawed,   \* history: fetching the run of the last pass has failed
  fresh,    \* the inventory is less than a minute old
  inv,      \* the inventory: the files of the last scan
  cubes     \* the cache, oldest first: a file, and whether it was read whole

windVars == <<latest, files, partial, poll, flawed, fresh, inv, cubes>>

Fxx == 0..MaxFxx
Moments == {0, 1}   \* on the hour, or past it by a part of one
File == (0..Cap) \X Fxx
Older(a) == IF a < Cap THEN a + 1 ELSE Cap
OlderFiles(s) == {<<Older(f[1]), f[2]>> : f \in s}
Present == files \cup partial

WindInit ==
  /\ latest \in Early..(Late + Period)
  /\ files = {} /\ partial = {}
  /\ poll = [at |-> "sleep", run |-> Cap, next |-> 0, got |-> FALSE, left |-> 0]
  /\ flawed = TRUE
  /\ fresh = FALSE /\ inv = {} /\ cubes = <<>>

WindTypeOK ==
  /\ latest \in Early..(Late + Period)
  /\ files \subseteq File /\ partial \subseteq File \ files
  /\ poll \in [at: {"sleep", "fetch", "write"}, run: 0..Cap, next: 0..MaxFxx + 1,
               got: BOOLEAN, left: 0..Cadence]
  /\ {flawed, fresh} \subseteq BOOLEAN
  /\ inv \subseteq File
  /\ cubes \in Seq([file: File, whole: BOOLEAN]) /\ Len(cubes) <= CacheMax

-----------------------------------------------------------------------------
(* Time and the agency.                                                    *)

(* An hour passes while the loop sleeps: a pass takes minutes.             *)
Tick ==
  /\ poll.at = "sleep" /\ poll.left > 0
  /\ latest < Late + Period
  /\ latest' = latest + 1
  /\ files' = OlderFiles(files) /\ partial' = OlderFiles(partial) \ OlderFiles(files)
  /\ poll' = [poll EXCEPT !.left = @ - 1, !.run = Older(@)]
  /\ fresh' = FALSE /\ inv' = {}
  /\ cubes' = [i \in DOMAIN cubes |->
       [cubes[i] EXCEPT !.file = <<Older(@[1]), @[2]>>]]
  /\ UNCHANGED flawed

Publish ==
  /\ latest >= Early + Period
  /\ latest' = latest - Period
  /\ UNCHANGED <<files, partial, poll, flawed, fresh, inv, cubes>>

-----------------------------------------------------------------------------
(* The downloader loop.  It wakes when its cadence has passed, or when the *)
(* event is set that Downloads is about.                                   *)

Asleep == [poll EXCEPT !.at = "sleep", !.left = Cadence]

BeginPass ==
  /\ poll.at = "sleep"
  /\ poll' = [at |-> "fetch", run |-> latest, next |-> 0, got |-> FALSE, left |-> 0]
  /\ flawed' = (flawed /\ poll.run = latest)
  /\ UNCHANGED <<latest, files, partial, fresh, inv, cubes>>
(* The newest run could not be found out: the loop sleeps again.           *)
NoLatest ==
  /\ poll.at = "sleep"
  /\ poll' = Asleep /\ flawed' = TRUE
  /\ UNCHANGED <<latest, files, partial, fresh, inv, cubes>>

Target == <<poll.run, poll.next>>
AtAnHour == poll.at = "fetch" /\ poll.next <= MaxFxx
NextHour == [poll EXCEPT !.at = "fetch", !.next = @ + 1]

(* A file that is there already is not fetched; another appears under its  *)
(* name while it is written.                                               *)
HaveIt ==
  /\ AtAnHour /\ Target \in files
  /\ poll' = [NextHour EXCEPT !.got = TRUE]
  /\ UNCHANGED <<latest, files, partial, flawed, fresh, inv, cubes>>
Write ==
  /\ AtAnHour /\ Target \notin files
  /\ partial' = partial \cup {Target}
  /\ poll' = [poll EXCEPT !.at = "write"]
  /\ UNCHANGED <<latest, files, flawed, fresh, inv, cubes>>
WriteEnds ==
  /\ poll.at = "write"
  /\ files' = files \cup {Target} /\ partial' = partial \ {Target}
  /\ poll' = [NextHour EXCEPT !.got = TRUE]
  /\ UNCHANGED <<latest, flawed, fresh, inv, cubes>>
(* The hour is given up, for this pass, whatever was written of it.        *)
HourFails ==
  /\ poll.at = "write"
  /\ partial' \in {partial, partial \ {Target}}
  /\ poll' = NextHour /\ flawed' = TRUE
  /\ UNCHANGED <<latest, files, fresh, inv, cubes>>
(* HRRR: an hour not published yet is left for the next poll.              *)
NotPublished ==
  /\ AtAnHour
  /\ poll' = NextHour /\ flawed' = TRUE
  /\ UNCHANGED <<latest, files, partial, fresh, inv, cubes>>

Kept(s, past) == IF Keep > 0 THEN {f \in s : f[1] + past <= Keep} ELSE s
EndPass(past) ==
  /\ poll.at = "fetch" /\ poll.next > MaxFxx
  /\ files' = IF poll.got THEN Kept(files, past) ELSE files
  /\ partial' = IF poll.got THEN Kept(partial, past) ELSE partial
  /\ poll' = [Asleep EXCEPT !.next = 0, !.got = FALSE]
  /\ UNCHANGED <<latest, flawed, fresh, inv, cubes>>

-----------------------------------------------------------------------------
(* A prediction for the present moment.                                    *)

(* select_bracketing: of the newest run that is old enough, the last file  *)
(* until now and the first from now on, or else the one at that end.       *)
Eligible(s) == {f \in s : f[1] >= Latency}
Newest(s) == LET a == Min({f[1] : f \in Eligible(s)}) IN {f \in s : f[1] = a}
First(s) == CHOOSE f \in s : \A g \in s : f[2] <= g[2]
Last(s) == CHOOSE f \in s : \A g \in s : g[2] <= f[2]
Before(s) == {f \in s : f[2] <= f[1]}
After(s, past) == {f \in s : f[2] >= f[1] + past}
FirstBefore(s) == IF Before(s) # {} THEN First(Before(s)) ELSE First(s)
Lower(s) == IF Before(s) # {} THEN Last(Before(s)) ELSE First(s)
Upper(s, past) == IF After(s, past) # {} THEN First(After(s, past)) ELSE Last(s)

(* _cube: what a file gave when it was read is remembered, for as long as  *)
(* fewer others were read since than the cache holds; a file read midway   *)
(* gives nothing, or a column that ends too low.                           *)
ByWindow(cs, f) == {i \in DOMAIN cs : TRUE}
Remembered(cs, f) == {i \in DOMAIN cs : cs[i].file = f}
Read(cs, f) ==
  IF Remembered(cs, f) # {} THEN cs
  ELSE Append(IF Len(cs) < CacheMax THEN cs ELSE Tail(cs),
              [file |-> f, whole |-> f \in files])

Expire == fresh /\ fresh' = FALSE /\ inv' = {}
          /\ UNCHANGED <<latest, files, partial, poll, flawed, cubes>>
Predict(past) ==
  /\ fresh' = TRUE /\ inv' = IF fresh THEN inv ELSE Present
  /\ cubes' = IF Eligible(inv') = {} THEN cubes
              ELSE LET run == Newest(inv')
                   IN Read(Read(cubes, Lower(run)), Upper(run, past))
  /\ UNCHANGED <<latest, files, partial, poll, flawed>>

WindNext ==
  \/ Tick \/ Publish \/ BeginPass \/ NoLatest
  \/ HaveIt \/ Write \/ WriteEnds \/ HourFails \/ NotPublished
  \/ Expire
  \/ \E past \in Moments : EndPass(past) \/ Predict(past)

WindSpec == WindInit /\ [][WindNext]_windVars

-----------------------------------------------------------------------------
(* The loop sleeps after passes that fetched its run without a failure,    *)
(* and the run is old enough to be used.                                   *)
WellFetched == poll.at = "sleep" /\ ~flawed /\ poll.run >= Latency
Chosen == Newest(Present)

(* Then every prediction, on the hour or past it, has a tight pair: two    *)
(* forecasts at most an hour apart around its moment, until the next pass  *)
(* has fetched a newer run, whenever the loop polls in the cycle of        *)
(* publications.                                                           *)
TightPair == WellFetched =>
  \A past \in Moments :
    /\ Lower(Chosen)[2] <= Lower(Chosen)[1]
    /\ Upper(Chosen, past)[1] + past <= Upper(Chosen, past)[2]
    /\ Upper(Chosen, past)[2] - Lower(Chosen)[2] <= 1

(* And a file that a prediction has read while it was being written, or    *)
(* whose run was pruned under it, denies winds in the hour of that read    *)
(* and in the next, as the upper file of the pair and then as the lower,   *)
(* but no longer: the cache remembers the failure, and later hours are of  *)
(* other files, which are read whole.                                      *)
WindsComeBack == WellFetched /\ poll.left + 1 < Cadence =>
  \A past \in Moments : \A f \in {Lower(Chosen), Upper(Chosen, past)} :
    f \in files /\ \A i \in Remembered(cubes, f) : cubes[i].whole
=============================================================================
