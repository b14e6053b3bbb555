-------------------------- MODULE HistoryBackfill --------------------------
(***************************************************************************)
(* Filling in what the receivers missed.  A sonde first heard in mid-air,  *)
(* or a tracked one that fell silent, has its history fetched by a worker  *)
(* thread; the consumer thread keeps the frames it hears meanwhile, holds  *)
(* a silent flight out of the timeout sweep, and rebuilds the flight from  *)
(* the history and the kept frames.  A sonde transmits one frame per       *)
(* instant from its launch to its landing, and a frame is named by its     *)
(* instant; which frames are heard, and how long a fetch takes, is open.   *)
(***************************************************************************)
EXTENDS Integers, Sequences, FiniteSets, FiniteSetsExt, SequencesExt

CONSTANTS
  Serials,
  Launch, Land,  \* Launch[s], Land[s]: the instants of the first and last frame
  Capacity,      \* of the queue of requests
  Silent,        \* backfill_silent_seconds
  Lost, Stale,   \* the timeouts of the sweep: close-out, eviction
  HoldMax,       \* _RECOVERY_HOLD_MAX_SECONDS
  MaxTime,       \* bound on the clock
  MaxRestarts    \* bound on restarts of the process

ASSUME BackfillAssumption ==
  /\ IsFiniteSet(Serials)
  /\ {Capacity, Silent, Lost, Stale, HoldMax, MaxTime, MaxRestarts} \subseteq Nat
  /\ Silent <= Lost /\ Lost <= Stale
  /\ Launch \in [Serials -> 0..MaxTime] /\ Land \in [Serials -> 0..MaxTime]
  /\ \A s \in Serials : Launch[s] <= Land[s]

VARIABLES
  now,
  onAir,      \* sondes whose frame of this instant has not been received
  flight,     \* flight[s]: the tracker's flight, or NoFlight
  pending,    \* the queue of requests
  fetching,   \* the worker's request, or Nobody
  results,    \* the queue of results, [serial, upto]: the newest frame fetched
  inFlight,   \* _in_flight
  buffered,   \* keys of _backfill_buffer
  kept,       \* kept[s]: the frames buffered
  requested,  \* _backfill_requested
  recovered,  \* _recovery_requested
  hold,       \* _recovery_pending: since when, or None
  restarts,
  asked,      \* history: since when a recovery fetch is running
  tried,      \* history: when this process first asked to recover the flight
  skipped,    \* history: flights first heard while an earlier fetch was running
  mode        \* history: the latest step was a "tick", or any "other"

fetcher == <<pending, fetching, results, inFlight>>
bookkeeping == <<buffered, kept, requested, recovered, hold>>
vars == <<now, onAir, flight, fetcher, bookkeeping, restarts, asked, tried, skipped, mode>>

None == -1
Nobody == [asked |-> None]
NoFlight == [state |-> "none"]
Flight == [state: {"air", "closed", "down"}, first: 0..MaxTime, last: 0..MaxTime]
InAir(s) == flight[s].state = "air"
Gap(s) == now - flight[s].last

-----------------------------------------------------------------------------
Init ==
  /\ now = 0
  /\ onAir = {s \in Serials : Launch[s] = 0}
  /\ flight = [s \in Serials |-> NoFlight]
  /\ pending = <<>>
  /\ fetching = Nobody
  /\ results = <<>>
  /\ inFlight = {}
  /\ buffered = {}
  /\ kept = [s \in Serials |-> {}]
  /\ requested = {}
  /\ recovered = {}
  /\ hold = [s \in Serials |-> None]
  /\ restarts = 0
  /\ asked = [s \in Serials |-> None]
  /\ tried = [s \in Serials |-> None]
  /\ skipped = {}
  /\ mode = "other"

-----------------------------------------------------------------------------
(* The consumer thread.                                                    *)

(* HistoryFetcher.request() for each of a set of sondes, in some order: it *)
(* takes those without a fetch under way, as long as the queue has room.   *)
FirstFitting(q) == SubSeq(q, 1, Min({Len(q), Capacity - Len(pending)}))
AcceptedUnbounded(asks) == SetToSeqs(asks \ inFlight)
AcceptedTwice(asks) == {FirstFitting(q) : q \in SetToSeqs(asks)}
Accepted(asks) == {FirstFitting(q) : q \in SetToSeqs(asks \ inFlight)}

Request(q) ==
  /\ pending' = pending \o q
  /\ inFlight' = inFlight \cup ToSet(q)
  /\ buffered' = buffered \cup ToSet(q)
  /\ UNCHANGED <<fetching, results>>

(* process_frame() of a sonde that is not tracked.  Heard in mid-air, its  *)
(* history is asked for, once.                                             *)
WorthAsking(s) == now > Launch[s] /\ s \notin requested

HearNew(s) ==
  LET asks == IF WorthAsking(s) THEN {s} ELSE {}
  IN /\ s \in onAir
     /\ flight[s] = NoFlight
     /\ flight' = [flight EXCEPT ![s] = [state |-> "air", first |-> now, last |-> now]]
     /\ \E q \in Accepted(asks) :
          /\ Request(q)
          /\ kept' = IF q # <<>> THEN [kept EXCEPT ![s] = {now}] ELSE kept
     /\ requested' = requested \cup asks
     /\ onAir' = onAir \ {s}
     /\ skipped' = IF s \in buffered THEN skipped \cup {s} ELSE skipped \ {s}
     /\ mode' = "other"
     /\ UNCHANGED <<now, recovered, hold, restarts, asked, tried>>

(* process_frame() of a tracked sonde; a flight that was closed out is     *)
(* resumed, at once or after more frames.                                  *)
KeptNever(s) == kept
KeptWith(s) == IF s \in buffered THEN [kept EXCEPT ![s] = @ \cup {now}] ELSE kept

HearTracked(s, resumed) ==
  /\ s \in onAir
  /\ flight[s] # NoFlight
  /\ flight' = [flight EXCEPT
       ![s].last = now,
       ![s].state = IF @ = "down" \/ (@ = "closed" /\ ~resumed) THEN @
                    ELSE IF now = Land[s] THEN "down" ELSE "air"]
  /\ kept' = KeptWith(s)
  /\ onAir' = onAir \ {s}
  /\ mode' = "other"
  /\ UNCHANGED <<now, fetcher, buffered, requested, recovered, hold, restarts, asked, tried, skipped>>

(* merge_history(): history first, then the kept frames newer than it.     *)
History(s, upto) == {t \in Launch[s]..Land[s] : t <= upto}
Merged(s, upto) == History(s, upto) \cup {t \in kept[s] : t > upto}

(* _rebuild_from_history(): refused for a flight that is gone or closed    *)
(* out, and for a history that adds nothing.                               *)
Adds(s, upto) ==
  \/ Min(Merged(s, upto)) < flight[s].first
  \/ Max(Merged(s, upto)) > flight[s].last

Rebuilt(s, upto) ==
  IF InAir(s) /\ upto # None /\ Adds(s, upto)
  THEN [state |-> IF Land[s] \in Merged(s, upto) THEN "down" ELSE "air",
        first |-> Min(Merged(s, upto)), last |-> Max(Merged(s, upto))]
  ELSE flight[s]

(* apply_backfills(): everything fetched since the last call.              *)
Answered == {r.serial : r \in ToSet(results)}
UptoOf(s) == (CHOOSE r \in ToSet(results) : r.serial = s).upto

ApplyBackfills ==
  /\ results # <<>>
  /\ results' = <<>>
  /\ inFlight' = inFlight \ Answered
  /\ buffered' = buffered \ Answered
  /\ kept' = [s \in Serials |-> IF s \in Answered THEN {} ELSE kept[s]]
  /\ hold' = [s \in Serials |-> IF s \in Answered THEN None ELSE hold[s]]
  /\ asked' = [s \in Serials |-> IF s \in Answered THEN None ELSE asked[s]]
  /\ flight' = [s \in Serials |-> IF s \in Answered THEN Rebuilt(s, UptoOf(s)) ELSE flight[s]]
  /\ mode' = "other"
  /\ UNCHANGED <<now, onAir, pending, fetching, requested, recovered, restarts, tried, skipped>>

(* _request_recoveries(): which silent flights it tries to recover.        *)
AsksFor(s) == InAir(s) /\ Gap(s) >= Silent /\ s \notin buffered /\ s \notin recovered

(* _recovery_hold(), after the requests: a hold that is too old is let go. *)
HoldForever(s, accepted) == IF s \in accepted THEN now ELSE hold[s]
HoldAfter(s, accepted) ==
  CASE s \in accepted -> now
    [] s \notin accepted /\ hold[s] # None /\ now - hold[s] > HoldMax -> None
    [] OTHER -> hold[s]

(* check_timeouts() of one flight.                                         *)
SweptUnheld(s, held) ==
  CASE InAir(s) /\ Gap(s) > Lost -> [flight[s] EXCEPT !.state = "closed"]
    [] flight[s].state \in {"closed", "down"} /\ Gap(s) > Stale -> NoFlight
    [] OTHER -> flight[s]
Swept(s, held) ==
  CASE InAir(s) /\ Gap(s) > Lost /\ ~held -> [flight[s] EXCEPT !.state = "closed"]
    [] flight[s].state \in {"closed", "down"} /\ Gap(s) > Stale -> NoFlight
    [] OTHER -> flight[s]

(* tick(): flights outside the region are dropped, recoveries requested    *)
(* (those of q are accepted), old holds let go, and the rest swept.        *)
Outsides == SUBSET {s \in Serials : InAir(s)}
Recoveries(outside) == {s \in Serials \ outside : AsksFor(s)}

Tick(outside, q) ==
  LET accepted == ToSet(q)
  IN /\ Request(q)
     /\ kept' = [s \in Serials |-> IF s \in accepted THEN {} ELSE kept[s]]
     /\ recovered' = recovered \cup Recoveries(outside)
     /\ hold' = [s \in Serials |-> HoldAfter(s, accepted)]
     /\ asked' = [s \in Serials |-> IF s \in accepted THEN now ELSE asked[s]]
     /\ tried' = [s \in Serials |-> IF s \in accepted /\ tried[s] = None
                                    THEN now ELSE tried[s]]
     /\ flight' = [s \in Serials |-> IF s \in outside THEN NoFlight
                                     ELSE Swept(s, hold'[s] # None)]
     /\ mode' = "tick"
     /\ UNCHANGED <<now, onAir, requested, restarts, skipped>>

-----------------------------------------------------------------------------
(* The worker thread: one fetch at a time.  It fails, or returns all that  *)
(* was transmitted up to some instant no earlier than it was asked for it. *)

Take ==
  /\ fetching = Nobody
  /\ pending # <<>>
  /\ fetching' = [serial |-> Head(pending), asked |-> now]
  /\ pending' = Tail(pending)
  /\ mode' = "other"
  /\ UNCHANGED <<now, onAir, flight, results, inFlight, bookkeeping, restarts, asked, tried, skipped>>

Return(upto) ==
  /\ fetching # Nobody
  /\ upto = None \/ upto >= Launch[fetching.serial]
  /\ results' = Append(results, [serial |-> fetching.serial, upto |-> upto])
  /\ fetching' = Nobody
  /\ mode' = "other"
  /\ UNCHANGED <<now, onAir, flight, pending, inFlight, bookkeeping, restarts, asked, tried, skipped>>

(* Time passes; a frame nobody received by then is never received.         *)
Pass ==
  /\ now < MaxTime
  /\ now' = now + 1
  /\ onAir' = {s \in Serials : now' \in Launch[s]..Land[s]}
  /\ mode' = "other"
  /\ UNCHANGED <<flight, fetcher, bookkeeping, restarts, asked, tried, skipped>>

(* A new process: queues and bookkeeping are gone, flights that were in    *)
(* the air are reloaded.                                                   *)
Restart ==
  /\ restarts < MaxRestarts
  /\ restarts' = restarts + 1
  /\ flight' = [s \in Serials |-> IF InAir(s) THEN flight[s] ELSE NoFlight]
  /\ pending' = <<>> /\ fetching' = Nobody /\ results' = <<>> /\ inFlight' = {}
  /\ buffered' = {} /\ kept' = [s \in Serials |-> {}]
  /\ requested' = {} /\ recovered' = {}
  /\ hold' = [s \in Serials |-> None]
  /\ asked' = [s \in Serials |-> None]
  /\ tried' = [s \in Serials |-> None]
  /\ skipped' = {}
  /\ mode' = "other"
  /\ UNCHANGED <<now, onAir>>

Next ==
  \/ \E s \in Serials : HearNew(s) \/ \E resumed \in BOOLEAN : HearTracked(s, resumed)
  \/ ApplyBackfills
  \/ \E outside \in Outsides : \E q \in Accepted(Recoveries(outside)) : Tick(outside, q)
  \/ Take
  \/ fetching # Nobody /\ \E upto \in {None} \cup fetching.asked..now : Return(upto)
  \/ Pass
  \/ Restart

Spec == Init /\ [][Next]_vars

-----------------------------------------------------------------------------
TypeOK ==
  /\ now \in 0..MaxTime
  /\ onAir \subseteq Serials
  /\ flight \in [Serials -> Flight \cup {NoFlight}]
  /\ pending \in Seq(Serials) /\ Len(pending) <= Capacity
  /\ fetching \in [serial: Serials, asked: 0..MaxTime] \cup {Nobody}
  /\ results \in Seq([serial: Serials, upto: 0..MaxTime \cup {None}])
  /\ inFlight \subseteq Serials /\ buffered \subseteq Serials
  /\ kept \in [Serials -> SUBSET (0..MaxTime)]
  /\ requested \subseteq Serials /\ recovered \subseteq Serials
  /\ hold \in [Serials -> 0..MaxTime \cup {None}]
  /\ asked \in [Serials -> 0..MaxTime \cup {None}]
  /\ tried \in [Serials -> 0..MaxTime \cup {None}]
  /\ restarts \in 0..MaxRestarts
  /\ skipped \subseteq Serials
  /\ mode \in {"tick", "other"}

(* The consumer's bookkeeping agrees with the queues and the worker: the   *)
(* sondes it buffers frames for are those with a fetch somewhere on the    *)
(* way, each exactly once, and only these are held.                        *)
Underway ==
  pending \o (IF fetching = Nobody THEN <<>> ELSE <<fetching.serial>>)
          \o [i \in 1..Len(results) |-> results[i].serial]
OneFetchEach ==
  /\ IsInjective(Underway)
  /\ ToSet(Underway) = inFlight
  /\ buffered = inFlight
  /\ \A s \in Serials : hold[s] # None => s \in inFlight

(* A rebuild never takes a flight back behind what was heard of it, before *)
(* its fetch was asked for or while it was running; except for a flight    *)
(* whose first frame came while a fetch for an earlier one was running.    *)
RebuildKeepsHeard ==
  [][\A s \in Serials \ skipped :
       flight[s] # NoFlight /\ flight'[s] # NoFlight => flight'[s].last >= flight[s].last]_vars

(* app.py, __init__: "live frames heard while a fetch runs are buffered    *)
(* for the rebuild", the first frame of a flight included.                 *)
HeardMeanwhileIsKept ==
  [][\A s \in Serials :
       flight[s] # NoFlight /\ flight'[s] # NoFlight => flight'[s].last >= flight[s].last]_vars

(* The timeouts do not close out a silent flight before its history was    *)
(* asked for, nor while the answer is on its way, unless it is overdue.    *)
SweepWaitsForHistory ==
  [][\A s \in Serials : InAir(s) /\ flight'[s].state = "closed" =>
       /\ s \in recovered' \cup inFlight'
       /\ asked'[s] # None => now - asked'[s] > HoldMax]_vars

(* No ghost stays in mid-air: a flight that outlives a tick in silence is  *)
(* waiting for its one recovery by this process, and not for long, even if *)
(* the worker is wedged.                                                   *)
GhostsAreReleased ==
  mode = "tick" =>
    \A s \in Serials : InAir(s) /\ Gap(s) > Lost => tried[s] # None /\ now - tried[s] <= HoldMax
=============================================================================
