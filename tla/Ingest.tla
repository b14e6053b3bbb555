-------------------------------- MODULE Ingest --------------------------------
(***************************************************************************)
(* The way of a frame from the broker to the tracker: the MQTT thread puts *)
(* every message into the raw queue, the consumer loop takes them out in   *)
(* batches and sees to its timers between the batches.  One descending     *)
(* sonde is followed; it sends a frame in every unit of time, behind those *)
(* of the other sondes.  The silence sweep compares the time now with the  *)
(* newest frame the loop has HANDLED, and frames may still be queued.      *)
(***************************************************************************)
EXTENDS Integers, SequencesExt, FiniteSetsExt

CONSTANTS
  QueueMax,    \* maxsize of the raw queue
  Batch,       \* frames one pass of the loop takes at most
  Shed,        \* _INGEST_BACKLOG_SHED
  Others,      \* numbers of frames other sondes may send in a unit of time
  Timeout,     \* landed_timeout_seconds, in units of time
  TickEvery,   \* tick_seconds, in units of time
  Base,        \* reconnect_base_seconds, in units of time
  MaxDelay,    \* reconnect_max_seconds, in units of time
  MaxAttempt   \* bound: attempts are counted up to it

ASSUME IngestAssumption ==
  /\ {QueueMax, Batch, Timeout, TickEvery, Base, MaxDelay} \subseteq Nat \ {0}
  /\ Shed \in Nat /\ MaxAttempt \in Nat /\ Others \subseteq Nat /\ Others # {}
  /\ Shed < QueueMax

VARIABLES
  raw,        \* the raw queue: the sonde's frames by age, Other for others
  stream,     \* how long until the stream is connected: 0 when it is
  attempt,    \* failed connections in a row
  at,         \* where the consumer loop is
  taken,      \* frames the pass took so far
  sinceTick,  \* time since last_tick; TickEvery or more is as much
  silent,     \* age of the newest frame of the sonde the loop has handled
  gone,       \* the sweep has closed the flight
  after,      \* history: after[a + 1] frames came in after the sonde's of age a,
              \* for as long as all that was sent was put in the queue
  flood       \* history: what had come in when the flight was closed

ingestVars == <<raw, stream, attempt, at, taken, sinceTick, silent, gone, after, flood>>

Old == Timeout + 1   \* ages and times are counted up to it
Other == Old + 1     \* no age
Aged(a) == Min({a + 1, Old})

IngestInit ==
  /\ raw = <<>> /\ stream = 0 /\ attempt = 0
  /\ at = "get" /\ taken = 0 /\ sinceTick = TickEvery
  /\ silent = Old /\ gone = TRUE
  /\ after = <<>> /\ flood = 0

IngestTypeOK ==
  /\ raw \in Seq(0..Old \cup {Other}) /\ Len(raw) <= QueueMax
  /\ stream \in 0..MaxDelay /\ attempt \in 0..MaxAttempt
  /\ at \in {"get", "tick"} /\ taken \in 0..Batch
  /\ sinceTick \in 0..TickEvery /\ silent \in 0..Old
  /\ gone \in BOOLEAN /\ after \in Seq(Nat) /\ Len(after) <= Timeout /\ flood \in Nat

-----------------------------------------------------------------------------
(* The MQTT thread.  put_nowait() on a full queue drops the frame.         *)

Sent(n) == [i \in 1..n |-> Other] \o <<0>>
Queued(q, frames) ==
  LET room == QueueMax - Len(q)
  IN  q \o SubSeq(frames, 1, Min({room, Len(frames)}))
Enqueued(n) == stream = 0 /\ Len(raw) + n < QueueMax
Counted(n) ==
  [k \in 1..Min({Len(after) + 1, Timeout}) |-> IF k = 1 THEN 0 ELSE after[k - 1] + n + 1]

(* A unit of time: all that is queued or timed gets older, and the frames  *)
(* of the unit come in.                                                    *)
Pass(n) ==
  LET older == [i \in DOMAIN raw |-> IF raw[i] = Other THEN Other ELSE Aged(raw[i])]
  IN  /\ raw' = IF stream = 0 THEN Queued(older, Sent(n)) ELSE older
      /\ stream' = IF stream > 0 THEN stream - 1 ELSE 0
      /\ sinceTick' = Min({sinceTick + 1, TickEvery})
      /\ silent' = Aged(silent)
      /\ after' = IF Enqueued(n) THEN Counted(n) ELSE <<>>
      /\ UNCHANGED <<attempt, at, taken, gone, flood>>

(* The connection fails, or cannot be made: wait, longer every time; a     *)
(* connection made (stream = 0) starts the count over.                     *)
Delay(k) == Min({MaxDelay, Base * 2^k})
StreamFails ==
  /\ stream = 0
  /\ stream' = Delay(0) /\ attempt' = Min({1, MaxAttempt})
  /\ UNCHANGED <<raw, at, taken, sinceTick, silent, gone, after, flood>>
ConnectFails ==
  /\ stream = 1
  /\ stream' = Delay(attempt) /\ attempt' = Min({attempt + 1, MaxAttempt})
  /\ UNCHANGED <<raw, at, taken, sinceTick, silent, gone, after, flood>>

-----------------------------------------------------------------------------
(* The consumer loop.  Any of its calls may take long: time passes as it   *)
(* will.                                                                   *)

Loop(next) == at' = next /\ UNCHANGED <<stream, attempt, after>>

(* A frame of the sonde that the tracker gets resumes a flight closed out. *)
Handle(f) ==
  IF f = Other THEN UNCHANGED <<silent, gone, flood>>
  ELSE silent' = f /\ gone' = FALSE /\ UNCHANGED flood

(* raw_q.get() waits a second, the batch takes what is there.              *)
Take ==
  /\ at = "get" /\ raw # <<>> /\ taken < Batch
  /\ Handle(Head(raw))
  /\ raw' = Tail(raw) /\ taken' = taken + 1
  /\ UNCHANGED sinceTick /\ Loop("get")
Drained ==
  /\ at = "get" /\ (raw = <<>> \/ taken = Batch)
  /\ taken' = 0
  /\ UNCHANGED <<raw, sinceTick, silent, gone, flood>> /\ Loop("tick")

(* The maintenance tick; only its silence sweep is of interest.  last_tick *)
(* is set even if the tick is put off.  The sweep takes its time at once   *)
(* after the backlog was read.                                             *)
Whenever(backlog) == TRUE
CaughtUp(backlog) == backlog <= Shed
Flood == IF Len(after) = Timeout THEN after[Timeout] + 1 ELSE 0
Sweep ==
  IF silent > Timeout /\ ~gone
  THEN gone' = TRUE /\ flood' = Flood
  ELSE UNCHANGED <<gone, flood>>
Tick ==
  /\ at = "tick" /\ sinceTick = TickEvery /\ sinceTick' = 0
  /\ IF CaughtUp(Len(raw)) THEN Sweep ELSE UNCHANGED <<gone, flood>>
  /\ UNCHANGED <<raw, taken, silent>> /\ Loop("get")
NoTick ==
  /\ at = "tick" /\ sinceTick < TickEvery
  /\ UNCHANGED <<raw, taken, sinceTick, silent, gone, flood>> /\ Loop("get")

(* The process is restarted: the queue is lost, the flights come back from *)
(* the store as they were; last_tick starts at 0.0, so a tick is due.      *)
Restart ==
  /\ raw' = <<>> /\ stream' = 0 /\ attempt' = 0
  /\ at' = "get" /\ taken' = 0 /\ sinceTick' = TickEvery
  /\ after' = <<>>
  /\ UNCHANGED <<silent, gone, flood>>

IngestNext ==
  \/ \E n \in Others : Pass(n)
  \/ StreamFails \/ ConnectFails
  \/ Take \/ Drained \/ Tick \/ NoTick \/ Restart

IngestSpec == IngestInit /\ [][IngestNext]_ingestVars

-----------------------------------------------------------------------------
(* A sonde is not closed out for silence while its frames pile up in the   *)
(* queue: for that the stream must have been down, or frames dropped, at   *)
(* some time within the timeout, or no more have come in from all sondes   *)
(* since its frame of a timeout ago than are tolerated as backlog.         *)
NotSilencedByBacklog == gone => flood <= Shed
=============================================================================
