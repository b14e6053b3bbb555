---------------------------- MODULE ReorderBuffer ----------------------------
(***************************************************************************)
(* The per-serial de-duplication and reorder buffer every received frame   *)
(* passes before it reaches the tracker.  Receivers upload the same frame  *)
(* many times and out of order; the buffer drops repeats, holds a frame    *)
(* until one Hold seconds newer (by sonde time) has been seen, and emits   *)
(* in sonde-time order.  A heap is the set of its entries: entries pop in  *)
(* (t, seq) order, so one call's output is ordered by construction and     *)
(* "batch", the call that popped an entry, orders the output of different  *)
(* calls.                                                                  *)
(***************************************************************************)
EXTENDS Integers

CONSTANTS
  Serials,   \* sonde serial numbers
  Keys,      \* de-duplication keys: frame numbers, or datetimes without one
  Times,     \* sonde times, in whole seconds
  Hold,      \* hold_seconds
  Ttl,       \* dedup_ttl_seconds
  MaxCalls   \* bound on the calls of push and flush

ASSUME BufferAssumption ==
  /\ Times \subseteq Nat
  /\ Hold \in Nat
  /\ Ttl \in Nat
  /\ MaxCalls \in Nat

VARIABLES
  heap,       \* heap[s]: the entries held
  watermark,  \* watermark[s]: the newest sonde time seen
  last,       \* last[s]: the time of the entry emitted last
  seen,       \* seen[s]: the keys remembered, each with its frame's time
  calls,      \* calls so far (the itertools counter that breaks ties)
  emitted,    \* history: every entry emitted, with the call that popped it
  late,       \* history: frames refused as too old, with the watermark then
  flushedTo   \* history: flushedTo[s] is last[s] after the latest flush

vars == <<heap, watermark, last, seen, calls, emitted, late, flushedTo>>

NoTime == -1  \* float("-inf"): before every sonde time
Stamp == Times \cup {NoTime}

Frame == [serial: Serials, key: Keys, t: Times]
\* "mark" is the watermark the entry met on arrival.
Entry == [key: Keys, t: Times, seq: 1..MaxCalls, mark: Stamp]
Emission == [serial: Serials, entry: Entry, batch: 1..MaxCalls]
Refusal == [serial: Serials, t: Times, mark: Stamp, flushed: Stamp]

Latest(es) == CHOOSE t \in {e.t : e \in es} : \A e \in es : e.t <= t
Newer(a, b) == IF a > b THEN a ELSE b

-----------------------------------------------------------------------------
(* The conditions of push().                                               *)

IsDuplicate(f) == \E k \in seen[f.serial] : k.key = f.key

NeverLate(f) == FALSE
IsLate(f) == f.t < last[f.serial]

KnownKey(f) == [key |-> f.key, t |-> f.t]

ReleasableSlack(es, mark) == {e \in es : e.t <= mark - Hold + 1}
DrainedFirst(es, mark) == {e \in es : e.t <= mark - Hold /\ e.seq <= calls}
Releasable(es, mark) == {e \in es : e.t <= mark - Hold}

UnexpiredEager(known, mark) == {k \in known : k.t > mark - Ttl}
Unexpired(known, mark) == {k \in known : k.t >= mark - Ttl}

LastAfterHorizon(s, out) == IF out = {} THEN last[s] ELSE Latest(out) + Hold
LastAfter(s, out) == IF out = {} THEN last[s] ELSE Latest(out)

(* _drain(): pop what is releasable, then forget expired keys.             *)
Drain(s, held, known, mark, out) ==
  /\ heap' = [heap EXCEPT ![s] = held \ out]
  /\ last' = [last EXCEPT ![s] = LastAfter(s, out)]
  /\ emitted' = emitted \cup
       {[serial |-> s, entry |-> e, batch |-> calls + 1] : e \in out}
  /\ seen' = [seen EXCEPT ![s] = Unexpired(known, mark)]

-----------------------------------------------------------------------------
Init ==
  /\ heap = [s \in Serials |-> {}]
  /\ watermark = [s \in Serials |-> NoTime]
  /\ last = [s \in Serials |-> NoTime]
  /\ seen = [s \in Serials |-> {}]
  /\ calls = 0
  /\ emitted = {}
  /\ late = {}
  /\ flushedTo = [s \in Serials |-> NoTime]

Call == calls < MaxCalls /\ calls' = calls + 1

(* push() of a frame whose key is remembered: dropped silently.            *)
PushDuplicate(f) ==
  /\ Call
  /\ IsDuplicate(f)
  /\ UNCHANGED <<heap, watermark, last, seen, emitted, late, flushedTo>>

(* push() of a frame older than one already emitted: its key is remembered *)
(* and it is dropped, nothing is drained.                                  *)
PushLate(f) ==
  /\ Call
  /\ ~IsDuplicate(f)
  /\ IsLate(f)
  /\ seen' = [seen EXCEPT ![f.serial] = @ \cup {KnownKey(f)}]
  /\ late' = late \cup {[serial |-> f.serial, t |-> f.t,
                         mark |-> watermark[f.serial],
                         flushed |-> flushedTo[f.serial]]}
  /\ UNCHANGED <<heap, watermark, last, emitted, flushedTo>>

(* push() of a frame that can still be put in place: held, the watermark   *)
(* advanced, and whatever that releases emitted.                           *)
PushAccepted(f) ==
  LET s == f.serial
      mark == Newer(watermark[s], f.t)
      held == heap[s] \cup {[key |-> f.key, t |-> f.t, seq |-> calls + 1,
                             mark |-> watermark[s]]}
  IN /\ Call
     /\ ~IsDuplicate(f)
     /\ ~IsLate(f)
     /\ watermark' = [watermark EXCEPT ![s] = mark]
     /\ Drain(s, held, seen[s] \cup {KnownKey(f)}, mark, Releasable(held, mark))
     /\ UNCHANGED <<late, flushedTo>>

(* flush(serial), and flush() for all serials: everything held is emitted. *)
Flush(ss) ==
  /\ Call
  /\ heap' = [s \in Serials |-> IF s \in ss THEN {} ELSE heap[s]]
  /\ last' = [s \in Serials |-> IF s \in ss THEN LastAfter(s, heap[s]) ELSE last[s]]
  /\ emitted' = emitted \cup
       UNION {{[serial |-> s, entry |-> e, batch |-> calls + 1] : e \in heap[s]} : s \in ss}
  /\ seen' = [s \in Serials |->
       IF s \in ss /\ watermark[s] # NoTime THEN Unexpired(seen[s], watermark[s]) ELSE seen[s]]
  /\ flushedTo' = [s \in Serials |-> IF s \in ss THEN last'[s] ELSE flushedTo[s]]
  /\ UNCHANGED <<watermark, late>>

Next ==
  \/ \E f \in Frame : PushDuplicate(f) \/ PushLate(f) \/ PushAccepted(f)
  \/ \E s \in Serials : Flush({s})
  \/ Flush(Serials)

Spec == Init /\ [][Next]_vars

-----------------------------------------------------------------------------
TypeOK ==
  /\ heap \in [Serials -> SUBSET Entry]
  /\ watermark \in [Serials -> Stamp]
  /\ last \in [Serials -> Stamp]
  /\ seen \in [Serials -> SUBSET [key: Keys, t: Times]]
  /\ calls \in 0..MaxCalls
  /\ emitted \subseteq Emission
  /\ late \subseteq Refusal
  /\ flushedTo \in [Serials -> Stamp]

(* Downstream finite differencing sees a monotonic series: whatever the    *)
(* order and repetition of arrivals, and flushes in between, a later call  *)
(* never emits a frame of a serial older than one an earlier call emitted. *)
EmittedInOrder ==
  \A a, b \in emitted :
    a.serial = b.serial /\ a.batch < b.batch => a.entry.t <= b.entry.t

(* De-duplication: the same frame (key and time) is emitted twice only     *)
(* when its second copy came more than the TTL (in sonde time) behind the  *)
(* newest frame; a repeat within the TTL never gets through.               *)
RepeatsOnlyPastTtl ==
  \A a, b \in emitted :
    /\ a.serial = b.serial
    /\ a.entry.key = b.entry.key
    /\ a.entry.t = b.entry.t
    /\ a.entry.seq < b.entry.seq
    => b.entry.mark - b.entry.t > Ttl

(* Tolerance: a frame is refused as too old only when it came more than    *)
(* Hold behind the newest frame, or behind what a flush forced out.        *)
RefusedOnlyBeyondHold ==
  \A r \in late : r.t < r.mark - Hold \/ r.t < r.flushed

(* Nothing overdue stays held, a frame that came late itself included: no  *)
(* held frame is more than Hold behind the newest one, or older than the   *)
(* frame emitted last.  A frame exactly Hold behind is released by the     *)
(* code, while the comments of dedup.py wait for one "more than" Hold      *)
(* ahead; the property holds of both readings.                             *)
HeldIsRecent ==
  \A s \in Serials : \A e \in heap[s] :
    watermark[s] - e.t <= Hold /\ e.t >= last[s]
=============================================================================
