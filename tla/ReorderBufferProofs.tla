------------------------ MODULE ReorderBufferProofs ------------------------
(***************************************************************************)
(* Proofs, for every set of serials, keys and times and every hold and     *)
(* TTL, of the properties the run of ReorderBuffer checks on an instance.  *)
(***************************************************************************)
EXTENDS ReorderBuffer, WellFoundedInduction, TLAPS

(* Entries of serial s that were accepted: still held, or emitted.         *)
Accepted(s) == heap[s] \cup {m.entry : m \in {x \in emitted : x.serial = s}}

(* What was emitted lies behind last, last behind the watermark.           *)
Ordered ==
  /\ \A m \in emitted : m.batch <= calls /\ m.entry.t <= last[m.serial]
  /\ \A s \in Serials : last[s] <= watermark[s]
  /\ \A s \in Serials : \A e \in heap[s] : e.t <= watermark[s]

(* An accepted key is remembered until its frame is past the TTL.          *)
Remembered ==
  \A s \in Serials : \A e \in Accepted(s) :
    /\ e.seq <= calls
    /\ [key |-> e.key, t |-> e.t] \in seen[s] \/ e.t < watermark[s] - Ttl

(* RepeatsOnlyPastTtl, of all that was accepted.                           *)
RepeatsAccepted ==
  \A s \in Serials : \A a, b \in Accepted(s) :
    a.key = b.key /\ a.t = b.t /\ a.seq < b.seq => b.mark - b.t > Ttl

(* Only a flush takes last closer to the watermark than Hold.              *)
LastWithinHold ==
  \A s \in Serials : last[s] <= watermark[s] - Hold \/ last[s] <= flushedTo[s]

IInv ==
  /\ TypeOK
  /\ Ordered
  /\ EmittedInOrder
  /\ HeldIsRecent
  /\ Remembered
  /\ RepeatsAccepted
  /\ LastWithinHold
  /\ RefusedOnlyBeyondHold

-----------------------------------------------------------------------------
(* A nonempty set of integers that is bounded above has a maximum.         *)
LEMMA MaxExists ==
  ASSUME NEW T \in SUBSET Int, T # {}, NEW w \in Int, \A t \in T : t <= w
  PROVE  \E m \in T : \A t \in T : t <= m
<1> DEFINE D == {w - t : t \in T}
<1>1. D \subseteq Nat /\ D # {}
  <2>1. ASSUME NEW t \in T PROVE w - t \in Nat
    <3>1. t \in Int /\ t <= w
      OBVIOUS
    <3> QED  BY <3>1
  <2> QED  BY <2>1
<1>2. PICK x \in D : \A y \in D : ~(<<y, x>> \in OpToRel(<, Nat))
  <2> HIDE DEF D
  <2> QED  BY <1>1, NatLessThanWellFounded, WFMin
<1>3. \A y \in D : x <= y
  <2> SUFFICES ASSUME NEW y \in D PROVE x <= y
    OBVIOUS
  <2>1. <<y, x>> \notin OpToRel(<, Nat)
    BY <1>2
  <2>2. x \in Nat /\ y \in Nat
    BY <1>1
  <2>3. ~(y < x)
    BY <2>1, <2>2 DEF OpToRel
  <2> QED  BY <2>2, <2>3
<1>4. PICK m \in T : x = w - m
  OBVIOUS
<1>5. \A t \in T : t <= m
  <2> SUFFICES ASSUME NEW t \in T PROVE t <= m
    OBVIOUS
  <2>1. w - t \in D
    OBVIOUS
  <2>2. w - m <= w - t
    BY <2>1, <1>3, <1>4
  <2>3. m \in Int /\ t \in Int
    OBVIOUS
  <2> QED  BY <2>2, <2>3
<1> QED  BY <1>5

(* Latest(es) is the time of one of the entries, and no entry is later.    *)
LEMMA LatestIsMax ==
  ASSUME NEW es, es # {}, \A e \in es : e.t \in Int,
         NEW w \in Int, \A e \in es : e.t <= w
  PROVE  /\ \E e \in es : Latest(es) = e.t
         /\ \A e \in es : e.t <= Latest(es)
<1> DEFINE T == {e.t : e \in es}
<1>1. T \in SUBSET Int /\ T # {} /\ \A t \in T : t <= w
  OBVIOUS
<1>2. \E m \in T : \A t \in T : t <= m
  <2> HIDE DEF T
  <2> QED  BY <1>1, MaxExists
<1>3. \E m \in T : \A e \in es : e.t <= m
  BY <1>2
<1>4. Latest(es) \in T /\ \A e \in es : e.t <= Latest(es)
  BY <1>3 DEF Latest
<1> QED  BY <1>4

(* Times and stamps are integers.                                          *)
LEMMA StampsAreInts ==
  /\ \A t \in Times : t \in Nat
  /\ \A t \in Stamp : t \in Int /\ t >= NoTime
  /\ \A t \in Times : t \in Stamp
<1>1. \A t \in Times : t \in Nat
  BY BufferAssumption
<1>2. NoTime \in Int /\ NoTime >= NoTime /\ \A n \in Nat : n >= NoTime
  BY DEF NoTime
<1> QED  BY <1>1, <1>2 DEF Stamp

(* LastAfter moves last up to the newest entry that was popped.            *)
LEMMA LastAfterBounds ==
  ASSUME NEW s \in Serials, last[s] \in Stamp,
         NEW out, \A e \in out : e.t \in Times,
         NEW w \in Int, \A e \in out : e.t <= w,
         \A e \in out : e.t >= last[s]
  PROVE  /\ LastAfter(s, out) \in Stamp
         /\ last[s] <= LastAfter(s, out)
         /\ \A e \in out : e.t <= LastAfter(s, out)
         /\ LastAfter(s, out) <= w \/ LastAfter(s, out) = last[s]
<1>1. last[s] \in Int
  BY StampsAreInts
<1>2. CASE out = {}
  <2>1. LastAfter(s, out) = last[s]
    BY <1>2 DEF LastAfter
  <2> QED  BY <1>1, <1>2, <2>1
<1>3. CASE out # {}
  <2>1. \A e \in out : e.t \in Int
    BY StampsAreInts
  <2>2. PICK e \in out : Latest(out) = e.t
    BY <1>3, <2>1, LatestIsMax
  <2>3. \A x \in out : x.t <= Latest(out)
    BY <1>3, <2>1, LatestIsMax
  <2>4. LastAfter(s, out) = Latest(out)
    BY <1>3 DEF LastAfter
  <2> QED  BY <1>1, <2>1, <2>2, <2>3, <2>4 DEF Stamp
<1> QED  BY <1>2, <1>3

-----------------------------------------------------------------------------
(* What TypeOK says of one entry, one emission and one serial.             *)
LEMMA EntryFields ==
  ASSUME NEW e \in Entry
  PROVE  /\ e.key \in Keys /\ e.t \in Times /\ e.mark \in Stamp
         /\ e.t \in Int /\ e.seq \in Int /\ e.mark \in Int
<1>1. e.key \in Keys /\ e.t \in Times /\ e.mark \in Stamp /\ e.seq \in Int
  BY DEF Entry
<1> QED  BY <1>1, StampsAreInts

LEMMA TypeFacts ==
  ASSUME TypeOK
  PROVE  /\ \A s \in Serials : Accepted(s) \subseteq Entry
         /\ \A s \in Serials : heap[s] \subseteq Entry
         /\ \A m \in emitted : /\ m.serial \in Serials /\ m.entry \in Entry
                               /\ m.batch \in Int
         /\ \A s \in Serials : /\ last[s] \in Stamp /\ last[s] \in Int
                               /\ watermark[s] \in Stamp /\ watermark[s] \in Int
                               /\ flushedTo[s] \in Stamp /\ flushedTo[s] \in Int
                               /\ seen[s] \subseteq [key: Keys, t: Times]
         /\ calls \in Int
<1>1. \A m \in emitted : /\ m.serial \in Serials /\ m.entry \in Entry
                        /\ m.batch \in Int
  BY DEF TypeOK, Emission
<1>2. \A s \in Serials : heap[s] \subseteq Entry /\ seen[s] \subseteq [key: Keys, t: Times]
  BY DEF TypeOK
<1>3. \A s \in Serials : Accepted(s) \subseteq Entry
  BY <1>1, <1>2 DEF Accepted
<1>4. \A s \in Serials : /\ last[s] \in Stamp /\ watermark[s] \in Stamp
                        /\ flushedTo[s] \in Stamp
  BY DEF TypeOK
<1>5. calls \in Int
  BY BufferAssumption DEF TypeOK
<1> QED  BY <1>1, <1>2, <1>3, <1>4, <1>5, StampsAreInts

LEMMA InitEstablishes == Init => IInv
<1> SUFFICES ASSUME Init PROVE IInv
  OBVIOUS
<1>1. TypeOK
  BY BufferAssumption DEF Init, TypeOK, Stamp
<1>2. \A s \in Serials : Accepted(s) = {}
  BY DEF Init, Accepted
<1>3. Ordered /\ EmittedInOrder /\ HeldIsRecent
  BY DEF Init, Ordered, EmittedInOrder, HeldIsRecent, NoTime
<1>4. Remembered /\ RepeatsAccepted
  BY <1>2 DEF Remembered, RepeatsAccepted
<1>5. LastWithinHold /\ RefusedOnlyBeyondHold
  BY DEF Init, LastWithinHold, RefusedOnlyBeyondHold, NoTime
<1> QED  BY <1>1, <1>3, <1>4, <1>5 DEF IInv

LEMMA DuplicateStep ==
  ASSUME IInv, NEW f \in Frame, PushDuplicate(f)
  PROVE  IInv'
<1>1. /\ UNCHANGED <<heap, watermark, last, seen, emitted, late, flushedTo>>
      /\ calls' \in 0..MaxCalls /\ calls < calls' /\ calls \in Int
  BY BufferAssumption DEF PushDuplicate, Call, IInv, TypeOK
<1>2. \A s \in Serials : Accepted(s)' = Accepted(s)
  BY <1>1 DEF Accepted
<1>3. TypeOK'
  BY <1>1 DEF IInv, TypeOK
<1>4. Ordered'
  <2>1. ASSUME NEW m \in emitted PROVE m.batch <= calls'
    <3>1. m.batch \in Int /\ m.batch <= calls
      BY DEF IInv, TypeOK, Ordered, Emission
    <3> QED  BY <1>1, <3>1
  <2> QED  BY <1>1, <2>1 DEF IInv, Ordered
<1>5. EmittedInOrder' /\ HeldIsRecent' /\ LastWithinHold' /\ RefusedOnlyBeyondHold'
  BY <1>1 DEF IInv, EmittedInOrder, HeldIsRecent, LastWithinHold, RefusedOnlyBeyondHold
<1>6. Remembered'
  <2> SUFFICES ASSUME NEW s \in Serials, NEW e \in Accepted(s)
               PROVE  /\ e.seq <= calls'
                      /\ [key |-> e.key, t |-> e.t] \in seen[s]
                         \/ e.t < watermark[s] - Ttl
    BY <1>1, <1>2 DEF Remembered
  <2>1. e.seq \in Int /\ e.seq <= calls
    BY TypeFacts, EntryFields DEF IInv, Remembered
  <2> QED  BY <1>1, <2>1 DEF IInv, Remembered
<1>7. RepeatsAccepted'
  BY <1>2 DEF IInv, RepeatsAccepted
<1> QED  BY <1>3, <1>4, <1>5, <1>6, <1>7 DEF IInv

LEMMA LateStep ==
  ASSUME IInv, NEW f \in Frame, PushLate(f)
  PROVE  IInv'
<1> DEFINE s0 == f.serial
<1>0. s0 \in Serials /\ f.key \in Keys /\ f.t \in Times /\ f.t \in Int
  BY StampsAreInts DEF Frame
<1>1. /\ UNCHANGED <<heap, watermark, last, emitted, flushedTo>>
      /\ calls' \in 0..MaxCalls /\ calls < calls' /\ calls \in Int
      /\ seen' = [seen EXCEPT ![s0] = @ \cup {KnownKey(f)}]
      /\ f.t < last[s0]
      /\ late' = late \cup {[serial |-> s0, t |-> f.t, mark |-> watermark[s0],
                             flushed |-> flushedTo[s0]]}
  BY BufferAssumption DEF PushLate, Call, IInv, TypeOK, IsLate
<1>2. \A s \in Serials : Accepted(s)' = Accepted(s)
  BY <1>1 DEF Accepted
<1>3. TypeOK'
  <2>1. KnownKey(f) \in [key: Keys, t: Times]
    BY <1>0 DEF KnownKey
  <2>2. seen' \in [Serials -> SUBSET [key: Keys, t: Times]]
    BY <1>0, <1>1, <2>1 DEF IInv, TypeOK
  <2>3. late' \subseteq Refusal
    BY <1>0, <1>1, TypeFacts DEF IInv, TypeOK, Refusal
  <2> QED  BY <1>1, <2>2, <2>3 DEF IInv, TypeOK
<1>4. Ordered'
  <2>1. ASSUME NEW m \in emitted PROVE m.batch <= calls'
    <3>1. m.batch \in Int /\ m.batch <= calls
      BY TypeFacts DEF IInv, Ordered
    <3> QED  BY <1>1, <3>1
  <2> QED  BY <1>1, <2>1 DEF IInv, Ordered
<1>5. EmittedInOrder' /\ HeldIsRecent' /\ LastWithinHold'
  BY <1>1 DEF IInv, EmittedInOrder, HeldIsRecent, LastWithinHold
<1>6. Remembered'
  <2> SUFFICES ASSUME NEW s \in Serials, NEW e \in Accepted(s)
               PROVE  /\ e.seq <= calls'
                      /\ [key |-> e.key, t |-> e.t] \in seen'[s]
                         \/ e.t < watermark[s] - Ttl
    BY <1>1, <1>2 DEF Remembered
  <2>1. e.seq \in Int /\ e.seq <= calls
    BY TypeFacts, EntryFields DEF IInv, Remembered
  <2>2. seen[s] \subseteq seen'[s]
    BY <1>0, <1>1 DEF IInv, TypeOK
  <2> QED  BY <1>1, <2>1, <2>2 DEF IInv, Remembered
<1>7. RepeatsAccepted'
  BY <1>2 DEF IInv, RepeatsAccepted
<1>8. RefusedOnlyBeyondHold'
  (* the emission that made it late was Hold behind the watermark, or forced out *)
  <2>1. f.t < watermark[s0] - Hold \/ f.t < flushedTo[s0]
    BY <1>0, <1>1, TypeFacts, BufferAssumption DEF IInv, LastWithinHold
  <2> QED  BY <1>1, <2>1 DEF IInv, RefusedOnlyBeyondHold
<1> QED  BY <1>3, <1>4, <1>5, <1>6, <1>7, <1>8 DEF IInv

(* The step that matters: a frame is accepted and may release others.      *)
LEMMA AcceptStep ==
  ASSUME IInv, NEW f \in Frame, PushAccepted(f)
  PROVE  IInv'
<1> DEFINE s0 == f.serial
           mark == Newer(watermark[s0], f.t)
           new == [key |-> f.key, t |-> f.t, seq |-> calls + 1, mark |-> watermark[s0]]
           held == heap[s0] \cup {new}
           out == Releasable(held, mark)
           known == seen[s0] \cup {KnownKey(f)}
<1>0. s0 \in Serials /\ f.key \in Keys /\ f.t \in Times /\ f.t \in Int
  BY StampsAreInts DEF Frame
<1>1. /\ UNCHANGED <<late, flushedTo>>
      /\ calls' = calls + 1 /\ calls' \in 1..MaxCalls /\ calls \in Int
      /\ watermark' = [watermark EXCEPT ![s0] = mark]
      /\ heap' = [heap EXCEPT ![s0] = held \ out]
      /\ last' = [last EXCEPT ![s0] = LastAfter(s0, out)]
      /\ emitted' = emitted \cup
           {[serial |-> s0, entry |-> e, batch |-> calls + 1] : e \in out}
      /\ seen' = [seen EXCEPT ![s0] = Unexpired(known, mark)]
      /\ ~IsDuplicate(f) /\ ~(f.t < last[s0])
  BY BufferAssumption DEF PushAccepted, Drain, Call, IInv, TypeOK, IsLate
<1>2. /\ mark \in Int /\ mark \in Stamp /\ watermark[s0] <= mark /\ f.t <= mark
      /\ mark = watermark[s0] \/ mark = f.t
      /\ watermark[s0] \in Int /\ last[s0] \in Int /\ last[s0] <= f.t
      /\ watermark[s0] \in Stamp /\ last[s0] \in Stamp
  BY <1>0, <1>1, TypeFacts, StampsAreInts DEF IInv, Newer
<1>3. new \in Entry /\ new.t = f.t /\ new.key = f.key /\ new.seq = calls + 1
      /\ new.mark = watermark[s0]
  BY <1>0, <1>1, <1>2 DEF Entry
<1>4. /\ out \subseteq held /\ held \subseteq Entry
      /\ \A e \in held : e.t \in Times /\ e.t \in Int /\ e.t <= mark /\ last[s0] <= e.t
      /\ \A e \in out : e.t <= mark - Hold
      /\ \A e \in held \ out : e.t > mark - Hold
  <2>1. \A e \in heap[s0] : e.t <= mark /\ last[s0] <= e.t
    BY <1>0, <1>2, TypeFacts, EntryFields DEF IInv, Ordered, HeldIsRecent
  <2>2. held \subseteq Entry
    BY <1>0, <1>3, TypeFacts DEF IInv
  <2>3. \A e \in held : e.t \in Times /\ e.t \in Int
    BY <2>2, EntryFields
  <2>4. \A e \in held : e.t <= mark /\ last[s0] <= e.t
    BY <1>2, <1>3, <2>1
  <2>5. mark - Hold \in Int
    BY <1>2, BufferAssumption
  <2>6. /\ out \subseteq held
        /\ \A e \in out : e.t <= mark - Hold
        /\ \A e \in held \ out : e.t > mark - Hold
    BY <2>3, <2>5 DEF Releasable
  <2> QED  BY <2>2, <2>3, <2>4, <2>6
<1> DEFINE top == LastAfter(s0, out)
<1>5. /\ top \in Stamp /\ top \in Int /\ last[s0] <= top
      /\ \A e \in out : e.t <= top
      /\ top <= mark - Hold \/ top = last[s0]
      /\ \A e \in held \ out : top <= e.t
  <2> HIDE DEF mark, held, out
  <2>1. mark - Hold \in Int
    BY <1>2, BufferAssumption
  <2>2. /\ top \in Stamp /\ last[s0] <= top
        /\ \A e \in out : e.t <= top
        /\ top <= mark - Hold \/ top = last[s0]
    BY <1>0, <1>2, <1>4, <2>1, LastAfterBounds
  <2>3. top \in Int
    BY <2>2, StampsAreInts
  <2>4. \A e \in held \ out : top <= e.t
    BY <1>2, <1>4, <2>1, <2>2, <2>3
  <2> QED  BY <2>2, <2>3, <2>4
<1> HIDE DEF top, mark, new, held, out, known
<1> DEFINE popped == {[serial |-> s0, entry |-> e, batch |-> calls + 1] : e \in out}
<1>6. \A m \in popped : /\ m.serial = s0 /\ m.entry \in out /\ m.batch = calls + 1
  OBVIOUS
<1>7. /\ \A s \in Serials \ {s0} : /\ heap'[s] = heap[s] /\ last'[s] = last[s]
                                  /\ watermark'[s] = watermark[s] /\ seen'[s] = seen[s]
      /\ heap'[s0] = held \ out /\ last'[s0] = top /\ watermark'[s0] = mark
      /\ seen'[s0] = Unexpired(known, mark)
      /\ emitted' = emitted \cup popped
  BY <1>0, <1>1 DEF IInv, TypeOK, top
<1>8. TypeOK'
  <2>1. heap' \in [Serials -> SUBSET Entry]
    BY <1>0, <1>1, <1>4 DEF IInv, TypeOK
  <2>2. watermark' \in [Serials -> Stamp] /\ last' \in [Serials -> Stamp]
    BY <1>0, <1>1, <1>2, <1>5 DEF IInv, TypeOK, top
  <2>3. Unexpired(known, mark) \subseteq [key: Keys, t: Times]
    BY <1>0, TypeFacts DEF IInv, Unexpired, known, KnownKey
  <2>4. seen' \in [Serials -> SUBSET [key: Keys, t: Times]]
    BY <1>0, <1>1, <2>3 DEF IInv, TypeOK
  <2>5. popped \subseteq Emission
    BY <1>0, <1>1, <1>4 DEF Emission
  <2> QED  BY <1>1, <1>7, <2>1, <2>2, <2>4, <2>5 DEF IInv, TypeOK
<1>9. Ordered'
  <2>1. ASSUME NEW m \in emitted' PROVE m.batch <= calls' /\ m.entry.t <= last'[m.serial]
    <3>1. CASE m \in popped
      BY <1>1, <1>5, <1>6, <1>7, <3>1
    <3>2. CASE m \in emitted
      <4>1. /\ m.batch \in Int /\ m.serial \in Serials /\ m.entry.t \in Int
            /\ m.batch <= calls /\ m.entry.t <= last[m.serial]
        BY <3>2, TypeFacts, EntryFields DEF IInv, Ordered
      <4> QED  BY <1>1, <1>2, <1>5, <1>7, <4>1
    <3> QED  BY <1>7, <3>1, <3>2
  <2>2. ASSUME NEW s \in Serials
        PROVE  last'[s] <= watermark'[s] /\ \A e \in heap'[s] : e.t <= watermark'[s]
    <3>1. CASE s = s0
      <4>1. last[s0] <= watermark[s0]
        BY <1>0 DEF IInv, Ordered
      <4> QED  BY <1>2, <1>4, <1>5, <1>7, <3>1, <4>1, BufferAssumption
    <3>2. CASE s # s0
      BY <1>7, <3>2 DEF IInv, Ordered
    <3> QED  BY <3>1, <3>2
  <2> QED  BY <2>1, <2>2 DEF Ordered
<1>10. EmittedInOrder'
  <2> SUFFICES ASSUME NEW a \in emitted', NEW b \in emitted',
                      a.serial = b.serial, a.batch < b.batch
               PROVE  a.entry.t <= b.entry.t
    BY DEF EmittedInOrder
  <2>1. CASE b \in popped
    (* what was out before lies behind last, what leaves now beyond it *)
    <3>1. a \notin popped
      BY <1>1, <1>6, <2>1
    <3>2. a \in emitted /\ a.entry.t <= last[s0] /\ a.entry.t \in Int
      BY <1>6, <1>7, <2>1, <3>1, TypeFacts, EntryFields DEF IInv, Ordered
    <3> QED  BY <1>2, <1>4, <1>6, <2>1, <3>2
  <2>2. CASE b \in emitted
    <3>1. b.batch <= calls /\ b.batch \in Int
      BY <2>2, TypeFacts DEF IInv, Ordered
    <3>2. a \notin popped
      BY <1>1, <1>6, <3>1
    <3> QED  BY <1>7, <2>2, <3>2 DEF IInv, EmittedInOrder
  <2> QED  BY <1>7, <2>1, <2>2
<1>11. HeldIsRecent'
  <2> SUFFICES ASSUME NEW s \in Serials, NEW e \in heap'[s]
               PROVE  watermark'[s] - e.t <= Hold /\ e.t >= last'[s]
    BY DEF HeldIsRecent
  <2>1. CASE s = s0
    <3>1. e \in held \ out /\ e.t \in Int /\ e.t > mark - Hold /\ last'[s] <= e.t
      BY <1>4, <1>5, <1>7, <2>1
    <3>2. mark - e.t <= Hold
      BY <1>2, <3>1, BufferAssumption
    <3> QED  BY <1>5, <1>7, <2>1, <3>1, <3>2
  <2>2. CASE s # s0
    BY <1>7, <2>2 DEF IInv, HeldIsRecent
  <2> QED  BY <2>1, <2>2
<1>12. /\ \A s \in Serials \ {s0} : Accepted(s)' = Accepted(s)
       /\ Accepted(s0)' = Accepted(s0) \cup {new}
  <2>1. ASSUME NEW s \in Serials \ {s0} PROVE Accepted(s)' = Accepted(s)
    BY <1>6, <1>7, <2>1 DEF Accepted
  <2>2. {m.entry : m \in {x \in emitted' : x.serial = s0}}
          = {m.entry : m \in {x \in emitted : x.serial = s0}} \cup out
    <3>1. out = {m.entry : m \in popped}
      <4>1. ASSUME NEW e \in out PROVE \E m \in popped : m.entry = e
        <5> DEFINE m0 == [serial |-> s0, entry |-> e, batch |-> calls + 1]
        <5>1. m0 \in popped
          OBVIOUS
        <5>2. m0.entry = e
          OBVIOUS
        <5> HIDE DEF m0
        <5> QED  BY <5>1, <5>2
      <4> HIDE DEF popped
      <4> QED  BY <1>6, <4>1
    <3> QED  BY <1>6, <1>7, <3>1
  <2>3. Accepted(s0)' = Accepted(s0) \cup {new}
    BY <1>4, <1>7, <2>2 DEF Accepted, held
  <2> QED  BY <2>1, <2>3
<1>13. Remembered'
  <2> SUFFICES ASSUME NEW s \in Serials, NEW e \in Accepted(s)'
               PROVE  /\ e.seq <= calls'
                      /\ [key |-> e.key, t |-> e.t] \in seen'[s]
                         \/ e.t < watermark'[s] - Ttl
    BY DEF Remembered
  <2>1. CASE s # s0
    <3>1. e \in Accepted(s) /\ e.seq \in Int
      BY <1>12, <2>1, TypeFacts, EntryFields DEF IInv
    <3> QED  BY <1>1, <1>7, <2>1, <3>1 DEF IInv, Remembered
  <2>2. CASE s = s0
    <3>1. e \in Entry /\ e.t \in Int /\ e.seq \in Int
      BY <1>0, <1>3, <1>12, <2>2, TypeFacts, EntryFields DEF IInv
    <3>2. e.seq <= calls'
      <4>1. e = new \/ e \in Accepted(s0)
        BY <1>12, <2>2
      <4>2. CASE e \in Accepted(s0)
        <5>1. e.seq <= calls
          BY <1>0, <4>2 DEF IInv, Remembered
        <5> QED  BY <1>1, <3>1, <5>1
      <4>3. CASE e = new
        BY <1>1, <1>3, <4>3
      <4> QED  BY <4>1, <4>2, <4>3
    <3>3. [key |-> e.key, t |-> e.t] \in known \/ e.t < watermark[s0] - Ttl
      BY <1>0, <1>3, <1>12, <2>2 DEF IInv, Remembered, known, KnownKey
    <3>4. CASE e.t < watermark[s0] - Ttl
      BY <1>2, <1>7, <2>2, <3>1, <3>2, <3>4, BufferAssumption
    <3>5. CASE [key |-> e.key, t |-> e.t] \in known
      <4>1. [key |-> e.key, t |-> e.t] \in Unexpired(known, mark) \/ e.t < mark - Ttl
        BY <1>2, <3>1, <3>5, BufferAssumption DEF Unexpired
      <4> QED  BY <1>7, <2>2, <3>2, <4>1
    <3> QED  BY <3>3, <3>4, <3>5
  <2> QED  BY <2>1, <2>2
<1>14. RepeatsAccepted'
  <2> SUFFICES ASSUME NEW s \in Serials, NEW a \in Accepted(s)', NEW b \in Accepted(s)',
                      a.key = b.key, a.t = b.t, a.seq < b.seq
               PROVE  b.mark - b.t > Ttl
    BY DEF RepeatsAccepted
  <2>1. CASE a \in Accepted(s) /\ b \in Accepted(s)
    BY <2>1 DEF IInv, RepeatsAccepted
  <2>2. CASE s = s0 /\ b = new /\ a \in Accepted(s)
    (* the key of a was forgotten, so a lies beyond the TTL *)
    <3>1. [key |-> a.key, t |-> a.t] \notin seen[s0]
      BY <1>0, <1>1, <1>3, <2>2, TypeFacts DEF IInv, IsDuplicate
    <3>2. a.t < watermark[s0] - Ttl
      BY <1>0, <2>2, <3>1 DEF IInv, Remembered
    <3> QED  BY <1>0, <1>2, <1>3, <2>2, <3>2, BufferAssumption
  <2>3. CASE s = s0 /\ a = new
    <3>1. b.seq \in Int /\ b.seq <= calls + 1
      <4>1. b = new \/ b \in Accepted(s0)
        BY <1>12, <2>3
      <4>2. CASE b \in Accepted(s0)
        <5>1. b.seq \in Int /\ b.seq <= calls
          BY <1>0, <4>2, TypeFacts, EntryFields DEF IInv, Remembered
        <5> QED  BY <1>1, <5>1
      <4>3. CASE b = new
        BY <1>1, <1>3, <4>3
      <4> QED  BY <4>1, <4>2, <4>3
    <3> QED  BY <1>1, <1>3, <2>3, <3>1
  <2> QED  BY <1>12, <2>1, <2>2, <2>3
<1>15. LastWithinHold'
  <2> SUFFICES ASSUME NEW s \in Serials
               PROVE  last'[s] <= watermark'[s] - Hold \/ last'[s] <= flushedTo[s]
    BY <1>1 DEF LastWithinHold
  <2>1. CASE s = s0
    <3>1. last[s0] <= watermark[s0] - Hold \/ last[s0] <= flushedTo[s0]
      BY <1>0 DEF IInv, LastWithinHold
    <3> QED  BY <1>2, <1>5, <1>7, <2>1, <3>1, BufferAssumption
  <2>2. CASE s # s0
    BY <1>7, <2>2 DEF IInv, LastWithinHold
  <2> QED  BY <2>1, <2>2
<1>16. RefusedOnlyBeyondHold'
  BY <1>1 DEF IInv, RefusedOnlyBeyondHold
<1> QED  BY <1>8, <1>9, <1>10, <1>11, <1>13, <1>14, <1>15, <1>16 DEF IInv

(* flush(): everything held leaves; last rises to the newest of it.        *)
LEMMA FlushStep ==
  ASSUME IInv, NEW ss \in SUBSET Serials, Flush(ss)
  PROVE  IInv'
<1> DEFINE popped == UNION {{[serial |-> s, entry |-> e, batch |-> calls + 1] :
                               e \in heap[s]} : s \in ss}
<1>1. /\ UNCHANGED <<watermark, late>>
      /\ calls' = calls + 1 /\ calls' \in 1..MaxCalls /\ calls \in Int
      /\ heap' = [s \in Serials |-> IF s \in ss THEN {} ELSE heap[s]]
      /\ last' = [s \in Serials |-> IF s \in ss THEN LastAfter(s, heap[s]) ELSE last[s]]
      /\ emitted' = emitted \cup popped
      /\ seen' = [s \in Serials |->
           IF s \in ss /\ watermark[s] # NoTime
           THEN Unexpired(seen[s], watermark[s]) ELSE seen[s]]
      /\ flushedTo' = [s \in Serials |-> IF s \in ss THEN last'[s] ELSE flushedTo[s]]
  BY BufferAssumption DEF Flush, Call, IInv, TypeOK
<1>2. ASSUME NEW s \in Serials
      PROVE  /\ last'[s] \in Stamp /\ last'[s] \in Int
             /\ last[s] <= last'[s] /\ last'[s] <= watermark[s]
             /\ s \in ss => \A e \in heap[s] : e.t <= last'[s]
             /\ s \notin ss => last'[s] = last[s]
  <2>1. /\ last[s] \in Stamp /\ last[s] \in Int /\ watermark[s] \in Int
        /\ last[s] <= watermark[s]
        /\ \A e \in heap[s] : e.t \in Times /\ e.t <= watermark[s] /\ e.t >= last[s]
    BY TypeFacts, EntryFields DEF IInv, Ordered, HeldIsRecent
  <2>2. CASE s \in ss
    <3>1. last'[s] = LastAfter(s, heap[s])
      BY <1>1, <2>2
    <3>2. /\ LastAfter(s, heap[s]) \in Stamp
          /\ last[s] <= LastAfter(s, heap[s])
          /\ \A e \in heap[s] : e.t <= LastAfter(s, heap[s])
          /\ LastAfter(s, heap[s]) <= watermark[s] \/ LastAfter(s, heap[s]) = last[s]
      BY <2>1, LastAfterBounds
    <3> QED  BY <2>1, <2>2, <3>1, <3>2, StampsAreInts
  <2>3. CASE s \notin ss
    BY <1>1, <2>1, <2>3
  <2> QED  BY <2>2, <2>3
<1>3. \A m \in popped : /\ m.serial \in ss /\ m.serial \in Serials
                        /\ m.entry \in heap[m.serial] /\ m.batch = calls + 1
  OBVIOUS
<1>4. ASSUME NEW s \in ss, NEW e \in heap[s]
      PROVE  \E m \in popped : m.serial = s /\ m.entry = e
  <2> DEFINE m0 == [serial |-> s, entry |-> e, batch |-> calls + 1]
  <2>1. m0 \in popped
    OBVIOUS
  <2>2. m0.serial = s /\ m0.entry = e
    OBVIOUS
  <2> HIDE DEF m0, popped
  <2> QED  BY <2>1, <2>2
<1>5. popped \subseteq Emission
  BY <1>1, TypeFacts DEF IInv, Emission
<1> HIDE DEF popped
<1>6. \A s \in Serials : Accepted(s)' = Accepted(s)
  <2> SUFFICES ASSUME NEW s \in Serials PROVE Accepted(s)' = Accepted(s)
    OBVIOUS
  <2>1. CASE s \in ss
    <3>1. heap'[s] = {}
      BY <1>1, <2>1
    <3>2. {m.entry : m \in {x \in emitted' : x.serial = s}}
            = {m.entry : m \in {x \in emitted : x.serial = s}} \cup heap[s]
      BY <1>1, <1>3, <1>4, <2>1
    <3> QED  BY <3>1, <3>2 DEF Accepted
  <2>2. CASE s \notin ss
    <3>1. heap'[s] = heap[s]
      BY <1>1, <2>2
    <3>2. {x \in emitted' : x.serial = s} = {x \in emitted : x.serial = s}
      BY <1>1, <1>3, <2>2
    <3> QED  BY <3>1, <3>2 DEF Accepted
  <2> QED  BY <2>1, <2>2
<1>7. TypeOK'
  <2>1. heap' \in [Serials -> SUBSET Entry]
    BY <1>1, TypeFacts DEF IInv
  <2>2. last' \in [Serials -> Stamp] /\ flushedTo' \in [Serials -> Stamp]
    BY <1>1, <1>2, TypeFacts DEF IInv
  <2>3. seen' \in [Serials -> SUBSET [key: Keys, t: Times]]
    BY <1>1, TypeFacts DEF IInv, Unexpired
  <2> QED  BY <1>1, <1>5, <2>1, <2>2, <2>3 DEF IInv, TypeOK
<1>8. Ordered'
  <2>1. ASSUME NEW m \in emitted' PROVE m.batch <= calls' /\ m.entry.t <= last'[m.serial]
    <3>1. CASE m \in popped
      BY <1>1, <1>2, <1>3, <3>1
    <3>2. CASE m \in emitted
      <4>1. /\ m.batch \in Int /\ m.serial \in Serials /\ m.entry.t \in Int
            /\ m.batch <= calls /\ m.entry.t <= last[m.serial]
        BY <3>2, TypeFacts, EntryFields DEF IInv, Ordered
      <4>2. last[m.serial] <= last'[m.serial] /\ last'[m.serial] \in Int
            /\ last[m.serial] \in Int
        BY <1>2, <4>1, TypeFacts DEF IInv
      <4> QED  BY <1>1, <4>1, <4>2
    <3> QED  BY <1>1, <3>1, <3>2
  <2>2. \A s \in Serials : last'[s] <= watermark'[s]
    BY <1>1, <1>2
  <2>3. \A s \in Serials : \A e \in heap'[s] : e.t <= watermark'[s]
    BY <1>1 DEF IInv, Ordered
  <2> QED  BY <2>1, <2>2, <2>3 DEF Ordered
<1>9. EmittedInOrder'
  <2> SUFFICES ASSUME NEW a \in emitted', NEW b \in emitted',
                      a.serial = b.serial, a.batch < b.batch
               PROVE  a.entry.t <= b.entry.t
    BY DEF EmittedInOrder
  <2>1. CASE b \in popped
    <3>1. a \notin popped
      BY <1>1, <1>3, <2>1
    <3>2. a \in emitted /\ a.entry.t <= last[a.serial] /\ a.entry.t \in Int
          /\ last[a.serial] \in Int
      BY <1>1, <3>1, TypeFacts, EntryFields DEF IInv, Ordered
    <3>3. b.serial \in Serials /\ b.entry.t >= last[b.serial] /\ b.entry.t \in Int
      BY <1>3, <2>1, TypeFacts, EntryFields DEF IInv, HeldIsRecent
    <3> QED  BY <3>2, <3>3
  <2>2. CASE b \in emitted
    <3>1. b.batch <= calls /\ b.batch \in Int
      BY <2>2, TypeFacts DEF IInv, Ordered
    <3>2. a \notin popped
      BY <1>1, <1>3, <3>1
    <3> QED  BY <1>1, <2>2, <3>2 DEF IInv, EmittedInOrder
  <2> QED  BY <1>1, <2>1, <2>2
<1>10. HeldIsRecent'
  BY <1>1 DEF IInv, HeldIsRecent
<1>11. Remembered'
  <2> SUFFICES ASSUME NEW s \in Serials, NEW e \in Accepted(s)
               PROVE  /\ e.seq <= calls'
                      /\ [key |-> e.key, t |-> e.t] \in seen'[s]
                         \/ e.t < watermark[s] - Ttl
    BY <1>1, <1>6 DEF Remembered
  <2>1. /\ e.t \in Int /\ e.seq \in Int /\ e.seq <= calls /\ watermark[s] \in Int
        /\ [key |-> e.key, t |-> e.t] \in seen[s] \/ e.t < watermark[s] - Ttl
    BY TypeFacts, EntryFields DEF IInv, Remembered
  <2>2. seen'[s] = seen[s] \/ seen'[s] = Unexpired(seen[s], watermark[s])
    BY <1>1
  <2>3. [key |-> e.key, t |-> e.t] \in seen[s]
          => \/ [key |-> e.key, t |-> e.t] \in Unexpired(seen[s], watermark[s])
             \/ e.t < watermark[s] - Ttl
    BY <2>1, BufferAssumption DEF Unexpired
  <2> QED  BY <1>1, <2>1, <2>2, <2>3
<1>12. RepeatsAccepted'
  BY <1>6 DEF IInv, RepeatsAccepted
<1>13. LastWithinHold'
  <2> SUFFICES ASSUME NEW s \in Serials
               PROVE  last'[s] <= watermark[s] - Hold \/ last'[s] <= flushedTo'[s]
    BY <1>1 DEF LastWithinHold
  <2>1. CASE s \in ss
    <3>1. flushedTo'[s] = last'[s]
      BY <1>1, <2>1
    <3> QED  BY <1>2, <3>1
  <2>2. CASE s \notin ss
    BY <1>1, <1>2, <2>2 DEF IInv, LastWithinHold
  <2> QED  BY <2>1, <2>2
<1>14. RefusedOnlyBeyondHold'
  BY <1>1 DEF IInv, RefusedOnlyBeyondHold
<1> QED  BY <1>7, <1>8, <1>9, <1>10, <1>11, <1>12, <1>13, <1>14 DEF IInv

-----------------------------------------------------------------------------
(* Every step keeps the invariant.                                         *)
LEMMA StepKeeps == IInv /\ [Next]_vars => IInv'
<1> SUFFICES ASSUME IInv, [Next]_vars PROVE IInv'
  OBVIOUS
<1>1. CASE \E f \in Frame : PushDuplicate(f) \/ PushLate(f) \/ PushAccepted(f)
  BY <1>1, DuplicateStep, LateStep, AcceptStep
<1>2. CASE \E s \in Serials : Flush({s})
  BY <1>2, FlushStep
<1>3. CASE Flush(Serials)
  BY <1>3, FlushStep
<1>4. CASE UNCHANGED vars
  <2>1. \A s \in Serials : Accepted(s)' = Accepted(s)
    BY <1>4 DEF vars, Accepted
  <2>2. Remembered' /\ RepeatsAccepted'
    BY <1>4, <2>1 DEF IInv, vars, Remembered, RepeatsAccepted
  <2>3. TypeOK' /\ Ordered' /\ EmittedInOrder' /\ HeldIsRecent'
    BY <1>4 DEF IInv, vars, TypeOK, Ordered, EmittedInOrder, HeldIsRecent
  <2>4. LastWithinHold' /\ RefusedOnlyBeyondHold'
    BY <1>4 DEF IInv, vars, LastWithinHold, RefusedOnlyBeyondHold
  <2> QED  BY <2>2, <2>3, <2>4 DEF IInv
<1> QED  BY <1>1, <1>2, <1>3, <1>4 DEF Next

(* The inductive invariant holds in every reachable state.                 *)
LEMMA Invariance == Spec => []IInv
  BY InitEstablishes, StepKeeps, PTL DEF Spec

(* The buffer's state keeps its types through every push and flush.        *)
THEOREM TypeCorrect == Spec => []TypeOK
<1>1. IInv => TypeOK
  BY DEF IInv
<1> QED  BY <1>1, Invariance, PTL

(* push and flush never emit, in a later call, a frame of a serial older   *)
(* than one emitted before: the tracker's differences see monotonic time.  *)
THEOREM OrderCorrect == Spec => []EmittedInOrder
<1>1. IInv => EmittedInOrder
  BY DEF IInv
<1> QED  BY <1>1, Invariance, PTL

(* A frame gets past the de-duplication of push twice only when its copy   *)
(* arrives more than the TTL behind the newest frame of the serial.        *)
THEOREM RepeatCorrect == Spec => []RepeatsOnlyPastTtl
<1>1. IInv => RepeatsOnlyPastTtl
  <2> SUFFICES ASSUME IInv, NEW a \in emitted, NEW b \in emitted,
                      a.serial = b.serial, a.entry.key = b.entry.key,
                      a.entry.t = b.entry.t, a.entry.seq < b.entry.seq
               PROVE  b.entry.mark - b.entry.t > Ttl
    BY DEF RepeatsOnlyPastTtl
  <2>1. a.serial \in Serials /\ a.entry \in Accepted(a.serial)
    BY TypeFacts DEF IInv, Accepted
  <2>2. b.entry \in Accepted(a.serial)
    BY DEF Accepted
  <2> QED  BY <2>1, <2>2 DEF IInv, RepeatsAccepted
<1> QED  BY <1>1, Invariance, PTL

(* push refuses a frame as too old only when it came more than the hold    *)
(* behind the newest, or behind what a flush forced out.                   *)
THEOREM RefusalCorrect == Spec => []RefusedOnlyBeyondHold
<1>1. IInv => RefusedOnlyBeyondHold
  BY DEF IInv
<1> QED  BY <1>1, Invariance, PTL

(* No frame that is due stays in the heap after a push or a flush.         *)
THEOREM HeldCorrect == Spec => []HeldIsRecent
<1>1. IInv => HeldIsRecent
  BY DEF IInv
<1> QED  BY <1>1, Invariance, PTL
=============================================================================
