------------------------ MODULE HistoryBackfillProofs ------------------------
(***************************************************************************)
(* Proofs, for any sondes, queue, timeouts and holds, that every sonde the *)
(* consumer buffers frames for has exactly one fetch under way, that a     *)
(* rebuild keeps what was heard, and that the recovery of a silent flight  *)
(* neither comes too late nor keeps it from being closed out.              *)
(***************************************************************************)
EXTENDS HistoryBackfill, FiniteSetTheorems, SequenceTheorems, TLAPS

Distinct(q) == \A i, j \in 1..Len(q) : q[i] = q[j] => i = j

Being == IF fetching = Nobody THEN {} ELSE {fetching.serial}

(* A sonde is in at most one of the two queues and the worker's hands, and *)
(* what the fetcher and the consumer remember of it agrees with that.      *)
Queues ==
  /\ Distinct(pending)
  /\ \A i, j \in 1..Len(results) : results[i].serial = results[j].serial => i = j
  /\ ToSet(pending) \cap Being = {} /\ Answered \cap Being = {}
  /\ ToSet(pending) \cap Answered = {}
  /\ inFlight = ToSet(pending) \cup Being \cup Answered
  /\ buffered = inFlight

(* A hold dates from the flight's one recovery, whose fetch is under way;  *)
(* a fetch that is no longer waited for is overdue.                        *)
Holds ==
  \A s \in Serials :
    /\ hold[s] # None => s \in inFlight /\ asked[s] = hold[s] /\ tried[s] = hold[s]
    /\ asked[s] # None /\ hold[s] = None => now - asked[s] > HoldMax
    /\ tried[s] # None => s \in recovered

(* Frames are of the sonde's flight and not of the future; so is the       *)
(* history fetched, and it is never empty.                                 *)
Aired ==
  /\ \A s \in onAir : now \in Launch[s]..Land[s]
  /\ \A s \in Serials : \A t \in kept[s] : t \in Launch[s]..Land[s] /\ t <= now
  /\ \A s \in Serials : flight[s] # NoFlight =>
       flight[s].last \in Launch[s]..Land[s] /\ flight[s].last <= now
  /\ fetching # Nobody => fetching.asked <= now
  /\ \A r \in ToSet(results) : r.upto # None => Launch[r.serial] <= r.upto /\ r.upto <= now

(* The latest frame of a flight is in the history of the fetch under way,  *)
(* or is kept to be added to it.                                           *)
Caught ==
  \A s \in Serials \ skipped : flight[s] # NoFlight =>
    /\ fetching # Nobody /\ fetching.serial = s =>
         flight[s].last <= fetching.asked \/ flight[s].last \in kept[s]
    /\ \A r \in ToSet(results) : r.serial = s /\ r.upto # None =>
         flight[s].last <= r.upto \/ flight[s].last \in kept[s]

IInv == TypeOK /\ Queues /\ Holds /\ Aired /\ Caught /\ GhostsAreReleased

-----------------------------------------------------------------------------
(* Sequences and sets of instants.                                         *)

LEMMA ConcatDistinct ==
  ASSUME NEW S, NEW a \in Seq(S), NEW b \in Seq(S)
  PROVE  /\ a \o b \in Seq(S) /\ Len(a \o b) = Len(a) + Len(b)
         /\ ToSet(a \o b) = ToSet(a) \cup ToSet(b)
         /\ Distinct(a) /\ Distinct(b) /\ ToSet(a) \cap ToSet(b) = {} => Distinct(a \o b)
<1> DEFINE c == a \o b
<1>1. /\ c \in Seq(S) /\ Len(a) \in Nat /\ Len(b) \in Nat /\ Len(c) = Len(a) + Len(b)
      /\ \A i \in 1..Len(c) : c[i] = IF i <= Len(a) THEN a[i] ELSE b[i - Len(a)]
  <2>1. /\ c \in Seq(S) /\ Len(a) \in Nat /\ Len(b) \in Nat /\ Len(c) = Len(a) + Len(b)
    BY ConcatProperties
  <2>2. \A i \in 1..(Len(a) + Len(b)) : c[i] = IF i <= Len(a) THEN a[i] ELSE b[i - Len(a)]
    OBVIOUS
  <2> HIDE DEF c
  <2> QED  BY <2>1, <2>2
<1> HIDE DEF c
<1>2. /\ ToSet(a) = {a[i] : i \in 1..Len(a)} /\ ToSet(b) = {b[i] : i \in 1..Len(b)}
      /\ ToSet(c) = {c[i] : i \in 1..Len(c)}
  <2>1. DOMAIN a = 1..Len(a) /\ DOMAIN b = 1..Len(b)
    OBVIOUS
  <2>2. DOMAIN c = 1..Len(c)
    BY <1>1
  <2> QED  BY <2>1, <2>2 DEF ToSet
<1>3. ToSet(c) \subseteq ToSet(a) \cup ToSet(b)
  <2> SUFFICES ASSUME NEW i \in 1..Len(c) PROVE c[i] \in ToSet(a) \cup ToSet(b)
    BY <1>2
  <2>1. CASE i <= Len(a)
    BY <1>1, <1>2, <2>1
  <2>2. CASE i > Len(a)
    <3>1. i - Len(a) \in 1..Len(b) /\ c[i] = b[i - Len(a)]
      BY <1>1, <2>2
    <3> QED  BY <1>2, <3>1
  <2> QED  BY <1>1, <2>1, <2>2
<1>4. ToSet(a) \cup ToSet(b) \subseteq ToSet(c)
  <2>1. ASSUME NEW i \in 1..Len(a) PROVE a[i] \in ToSet(c)
    <3>1. i \in 1..Len(c) /\ c[i] = a[i]
      BY <1>1
    <3> QED  BY <1>2, <3>1
  <2>2. ASSUME NEW i \in 1..Len(b) PROVE b[i] \in ToSet(c)
    <3>1. i + Len(a) \in 1..Len(c) /\ c[i + Len(a)] = b[i]
      BY <1>1
    <3> QED  BY <1>2, <3>1
  <2> QED  BY <1>2, <2>1, <2>2
<1>5. ASSUME Distinct(a), Distinct(b), ToSet(a) \cap ToSet(b) = {} PROVE Distinct(c)
  <2> SUFFICES ASSUME NEW i \in 1..Len(c), NEW j \in 1..Len(c), c[i] = c[j] PROVE i = j
    BY DEF Distinct
  <2>1. CASE i <= Len(a) /\ j <= Len(a)
    BY <1>1, <1>5, <2>1 DEF Distinct
  <2>2. CASE i > Len(a) /\ j > Len(a)
    <3>1. i - Len(a) \in 1..Len(b) /\ j - Len(a) \in 1..Len(b) /\ b[i - Len(a)] = b[j - Len(a)]
      BY <1>1, <2>2
    <3>2. i - Len(a) = j - Len(a)
      BY <1>5, <3>1 DEF Distinct
    <3> QED  BY <1>1, <3>2
  <2>3. CASE i <= Len(a) /\ j > Len(a)
    <3>1. c[i] \in ToSet(a) /\ c[j] \in ToSet(b)
      <4>1. j - Len(a) \in 1..Len(b) /\ c[j] = b[j - Len(a)] /\ i \in 1..Len(a) /\ c[i] = a[i]
        BY <1>1, <2>3
      <4> QED  BY <1>2, <4>1
    <3> QED  BY <1>5, <3>1
  <2>4. CASE i > Len(a) /\ j <= Len(a)
    <3>1. c[j] \in ToSet(a) /\ c[i] \in ToSet(b)
      <4>1. i - Len(a) \in 1..Len(b) /\ c[i] = b[i - Len(a)] /\ j \in 1..Len(a) /\ c[j] = a[j]
        BY <1>1, <2>4
      <4> QED  BY <1>2, <4>1
    <3> QED  BY <1>5, <3>1
  <2> QED  BY <1>1, <2>1, <2>2, <2>3, <2>4
<1> QED  BY <1>1, <1>3, <1>4, <1>5 DEF c

LEMMA TailDistinct ==
  ASSUME NEW S, NEW q \in Seq(S), q # <<>>
  PROVE  /\ Head(q) \in S /\ Tail(q) \in Seq(S) /\ Len(Tail(q)) = Len(q) - 1
         /\ ToSet(q) = {Head(q)} \cup ToSet(Tail(q))
         /\ Distinct(q) => Distinct(Tail(q)) /\ Head(q) \notin ToSet(Tail(q))
<1> DEFINE t == Tail(q)
<1>1. /\ Len(q) \in Nat \ {0} /\ Head(q) = q[1] /\ Head(q) \in S
      /\ t \in Seq(S) /\ Len(t) = Len(q) - 1
      /\ \A i \in 1..Len(t) : t[i] = q[i + 1]
  BY HeadTailProperties
<1> HIDE DEF t
<1>2. ToSet(q) = {q[i] : i \in 1..Len(q)} /\ ToSet(t) = {t[i] : i \in 1..Len(t)}
  BY <1>1 DEF ToSet
<1>3. ToSet(q) \subseteq {Head(q)} \cup ToSet(t)
  <2> SUFFICES ASSUME NEW i \in 1..Len(q), i # 1 PROVE q[i] \in ToSet(t)
    BY <1>1, <1>2
  <2>1. i - 1 \in 1..Len(t) /\ t[i - 1] = q[i]
    BY <1>1
  <2> QED  BY <1>2, <2>1
<1>4. {Head(q)} \cup ToSet(t) \subseteq ToSet(q)
  <2>1. 1 \in 1..Len(q)
    BY <1>1
  <2>2. ASSUME NEW i \in 1..Len(t) PROVE t[i] \in ToSet(q)
    <3>1. i + 1 \in 1..Len(q) /\ t[i] = q[i + 1]
      BY <1>1
    <3> QED  BY <1>2, <3>1
  <2> QED  BY <1>1, <1>2, <2>1, <2>2
<1>5. ASSUME Distinct(q) PROVE Distinct(t) /\ Head(q) \notin ToSet(t)
  <2>1. ASSUME NEW i \in 1..Len(t), NEW j \in 1..Len(t), t[i] = t[j] PROVE i = j
    <3>1. i + 1 \in 1..Len(q) /\ j + 1 \in 1..Len(q) /\ q[i + 1] = q[j + 1]
      BY <1>1, <2>1
    <3>2. i + 1 = j + 1
      BY <1>5, <3>1 DEF Distinct
    <3> QED  BY <3>2
  <2>2. ASSUME NEW i \in 1..Len(t) PROVE t[i] # q[1]
    <3>1. i + 1 \in 1..Len(q) /\ 1 \in 1..Len(q) /\ t[i] = q[i + 1] /\ i + 1 # 1
      BY <1>1
    <3> QED  BY <1>5, <3>1 DEF Distinct
  <2> QED  BY <1>1, <1>2, <2>1, <2>2 DEF Distinct
<1> QED  BY <1>1, <1>3, <1>4, <1>5 DEF t

LEMMA AppendSet ==
  ASSUME NEW S, NEW q \in Seq(S), NEW x \in S
  PROVE  /\ Append(q, x) \in Seq(S) /\ Len(Append(q, x)) = Len(q) + 1
         /\ ToSet(Append(q, x)) = ToSet(q) \cup {x}
         /\ \A i \in 1..Len(q) : Append(q, x)[i] = q[i]
         /\ Append(q, x)[Len(q) + 1] = x
<1> DEFINE t == Append(q, x)
<1>1. /\ t \in Seq(S) /\ Len(q) \in Nat /\ Len(t) = Len(q) + 1
      /\ \A i \in 1..Len(q) : t[i] = q[i]
      /\ t[Len(q) + 1] = x
  BY AppendProperties
<1> HIDE DEF t
<1>2. ToSet(q) = {q[i] : i \in 1..Len(q)} /\ ToSet(t) = {t[i] : i \in 1..Len(t)}
  BY <1>1 DEF ToSet
<1>3. ToSet(t) \subseteq ToSet(q) \cup {x}
  <2> SUFFICES ASSUME NEW i \in 1..Len(t) PROVE t[i] \in ToSet(q) \cup {x}
    BY <1>2
  <2>1. CASE i \in 1..Len(q)
    BY <1>1, <1>2, <2>1
  <2>2. CASE i = Len(q) + 1
    BY <1>1, <2>2
  <2> QED  BY <1>1, <2>1, <2>2
<1>4. ToSet(q) \cup {x} \subseteq ToSet(t)
  <2>1. ASSUME NEW i \in 1..Len(q) PROVE q[i] \in ToSet(t)
    <3>1. i \in 1..Len(t) /\ t[i] = q[i]
      BY <1>1
    <3> QED  BY <1>2, <3>1
  <2>2. Len(q) + 1 \in 1..Len(t)
    BY <1>1
  <2> QED  BY <1>1, <1>2, <2>1, <2>2
<1> QED  BY <1>1, <1>3, <1>4 DEF t

LEMMA LeastExists ==
  ASSUME NEW T \in SUBSET Nat, T # {}
  PROVE  \E x \in T : \A y \in T : x <= y
<1>1. PICK x \in T : \A y \in T : ~(<<y, x>> \in OpToRel(<, Nat))
  BY NatLessThanWellFounded, WFMin
<1>2. \A y \in T : x <= y
  <2> SUFFICES ASSUME NEW y \in T PROVE x <= y
    OBVIOUS
  <2>1. <<y, x>> \notin OpToRel(<, Nat)
    BY <1>1
  <2>2. x \in Nat /\ y \in Nat
    OBVIOUS
  <2>3. ~(y < x)
    BY <2>1, <2>2 DEF OpToRel
  <2> QED  BY <2>2, <2>3
<1> QED  BY <1>2

LEMMA Extremes ==
  ASSUME NEW n \in Nat, NEW T \in SUBSET (0..n), T # {}
  PROVE  /\ Min(T) \in T /\ \A t \in T : Min(T) <= t
         /\ Max(T) \in T /\ \A t \in T : t <= Max(T)
<1> DEFINE D == {n - t : t \in T}
<1>1. PICK x \in T : \A y \in T : x <= y
  <2>1. T \subseteq Nat
    OBVIOUS
  <2> QED  BY <2>1, LeastExists
<1>2. PICK d \in D : \A e \in D : d <= e
  <2>1. D \subseteq Nat
    <3> SUFFICES ASSUME NEW t \in T PROVE n - t \in Nat
      OBVIOUS
    <3>1. t \in 0..n
      OBVIOUS
    <3> QED  BY <3>1
  <2>2. D # {}
    OBVIOUS
  <2> HIDE DEF D
  <2> QED  BY <2>1, <2>2, LeastExists
<1>3. PICK m \in T : d = n - m
  OBVIOUS
<1>4. \A y \in T : m >= y
  <2> SUFFICES ASSUME NEW y \in T PROVE m >= y
    OBVIOUS
  <2>1. n - y \in D
    OBVIOUS
  <2>2. n - m <= n - y
    BY <1>2, <1>3, <2>1
  <2> QED  BY <2>2
<1>5. Min(T) \in T /\ \A t \in T : Min(T) <= t
  BY <1>1 DEF Min
<1>6. Max(T) \in T /\ \A t \in T : Max(T) >= t
  BY <1>4 DEF Max
<1> QED  BY <1>5, <1>6

-----------------------------------------------------------------------------
(* The parts of the model.                                                 *)

LEMMA Parameters ==
  /\ Capacity \in Nat /\ Silent \in Nat /\ Lost \in Nat /\ Stale \in Nat /\ HoldMax \in Nat
  /\ MaxTime \in Nat /\ MaxRestarts \in Nat /\ Silent <= Lost
  /\ \A s \in Serials : /\ Launch[s] \in 0..MaxTime /\ Launch[s] \in Nat
                        /\ Land[s] \in 0..MaxTime /\ Land[s] \in Nat
                        /\ Launch[s] <= Land[s]
  /\ None \notin Nat
BY BackfillAssumption DEF None

LEMMA FlightFields ==
  ASSUME NEW f \in Flight
  PROVE  /\ f # NoFlight /\ f.state \in {"air", "closed", "down"}
         /\ f.first \in 0..MaxTime /\ f.last \in 0..MaxTime /\ f.last \in Int
BY Parameters DEF Flight, NoFlight

(* A request is taken only without a fetch under way and with room left.   *)
LEMMA AcceptedForm ==
  ASSUME TypeOK, NEW asks \in SUBSET Serials, NEW q \in Accepted(asks)
  PROVE  /\ q \in Seq(Serials) /\ Distinct(q)
         /\ ToSet(q) \subseteq asks /\ ToSet(q) \cap inFlight = {}
         /\ Len(pending) + Len(q) <= Capacity
<1> DEFINE S == asks \ inFlight
           n == Cardinality(S)
           room == Capacity - Len(pending)
<1>1. PICK p \in SetToSeqs(S) : q = FirstFitting(p)
  BY DEF Accepted
<1>2. n \in Nat
  BY BackfillAssumption, FS_Subset, FS_CardinalityType
<1>3. p \in [1..n -> S] /\ \A i, j \in 1..n : i # j => p[i] # p[j]
  BY <1>1 DEF SetToSeqs
<1> HIDE DEF n, S
<1>4. p \in Seq(S) /\ Len(p) = n
  BY <1>2, <1>3
<1>5. room \in Nat
  BY Parameters DEF TypeOK
<1> DEFINE k == Min({Len(p), room})
<1>6. k \in Nat /\ k <= n /\ k <= room
  <2>1. PICK m \in Nat : n <= m /\ room <= m
    BY <1>2, <1>5
  <2>2. {Len(p), room} \subseteq 0..m /\ {Len(p), room} # {}
    BY <1>2, <1>4, <1>5, <2>1
  <2> HIDE DEF room
  <2>3. k \in {Len(p), room} /\ \A t \in {Len(p), room} : k <= t
    BY <2>2, Extremes
  <2> QED  BY <1>2, <1>4, <1>5, <2>3
<1>7. q = SubSeq(p, 1, k)
  BY <1>1 DEF FirstFitting
<1> HIDE DEF k, room
<1>8. /\ q \in Seq(S) /\ Len(q) = k /\ \A i \in 1..k : q[i] = p[i]
  BY <1>4, <1>6, <1>7
<1>9. Distinct(q)
  <2> SUFFICES ASSUME NEW i \in 1..Len(q), NEW j \in 1..Len(q), q[i] = q[j] PROVE i = j
    BY DEF Distinct
  <2>1. i \in 1..n /\ j \in 1..n /\ p[i] = p[j]
    BY <1>2, <1>6, <1>8
  <2> QED  BY <1>3, <2>1
<1>10. ToSet(q) \subseteq S
  BY <1>8 DEF ToSet
<1>11. q \in Seq(Serials)
  BY <1>8 DEF S
<1>12. Len(pending) + Len(q) <= Capacity
  <2>1. Len(pending) \in Nat /\ Capacity \in Nat
    BY Parameters DEF TypeOK
  <2> QED  BY <1>6, <1>8, <2>1 DEF room
<1> QED  BY <1>9, <1>10, <1>11, <1>12 DEF S

(* A rebuilt flight is of the same sonde, and what is not newer than the   *)
(* history or was kept is in it.                                           *)
LEMMA RebuiltForm ==
  ASSUME NEW s \in Serials, NEW upto \in 0..MaxTime \cup {None},
         flight[s] \in Flight \cup {NoFlight}, now \in 0..MaxTime,
         upto # None => Launch[s] <= upto /\ upto <= now,
         \A t \in kept[s] : t \in Launch[s]..Land[s] /\ t <= now
  PROVE  LET f == Rebuilt(s, upto)
         IN  \/ f = flight[s]
             \/ /\ f \in Flight /\ f.last \in Launch[s]..Land[s] /\ f.last <= now
                /\ f.state # "closed" /\ InAir(s) /\ upto # None
                /\ flight[s].last \in Launch[s]..Land[s]
                     /\ (flight[s].last <= upto \/ flight[s].last \in kept[s])
                   => f.last >= flight[s].last
<1> DEFINE f == Rebuilt(s, upto)
           M == Merged(s, upto)
<1>1. CASE ~(InAir(s) /\ upto # None /\ Adds(s, upto))
  BY <1>1 DEF Rebuilt
<1>2. CASE InAir(s) /\ upto # None /\ Adds(s, upto)
  <2>1. upto \in Nat /\ Launch[s] <= upto /\ upto <= now
    BY <1>2
  <2>2. f = [state |-> IF Land[s] \in M THEN "down" ELSE "air", first |-> Min(M), last |-> Max(M)]
    BY <1>2 DEF Rebuilt
  <2>3. M = {t \in Launch[s]..Land[s] : t <= upto} \cup {t \in kept[s] : t > upto}
    BY DEF Merged, History
  <2> HIDE DEF M, f
  <2>4. \A t \in M : t \in Launch[s]..Land[s] /\ t <= now
    BY <2>1, <2>3, Parameters
  <2>5. Launch[s] \in M
    BY <2>1, <2>3, Parameters
  <2>6. M \in SUBSET (0..MaxTime)
    BY <2>4, Parameters
  <2>7. /\ Min(M) \in M
        /\ Max(M) \in M /\ \A t \in M : t <= Max(M)
    BY <2>5, <2>6, Extremes, Parameters
  <2>8. f \in Flight /\ f.last = Max(M) /\ f.state # "closed"
    BY <2>2, <2>6, <2>7 DEF Flight
  <2>9. ASSUME flight[s].last \in Launch[s]..Land[s],
               flight[s].last <= upto \/ flight[s].last \in kept[s]
        PROVE  f.last >= flight[s].last
    <3>1. flight[s].last \in M
      BY <2>1, <2>3, <2>9, Parameters
    <3> QED  BY <2>4, <2>7, <2>8, <3>1
  <2> QED  BY <1>2, <2>4, <2>7, <2>8, <2>9 DEF f
<1> QED  BY <1>1, <1>2

LEMMA FetchedForm ==
  ASSUME TypeOK, NEW r \in ToSet(results)
  PROVE  r \in [serial: Serials, upto: 0..MaxTime \cup {None}]
<1> DEFINE R == [serial: Serials, upto: 0..MaxTime \cup {None}]
<1>1. results \in Seq(R)
  BY DEF TypeOK
<1> HIDE DEF R
<1>2. DOMAIN results = 1..Len(results) /\ \A i \in 1..Len(results) : results[i] \in R
  BY <1>1
<1>3. r \in R
  BY <1>2 DEF ToSet
<1> QED  BY <1>3 DEF R

(* The result that is applied to a sonde is one of those fetched.          *)
LEMMA AnsweredForm ==
  ASSUME NEW s \in Answered
  PROVE  \E r \in ToSet(results) : r.serial = s /\ UptoOf(s) = r.upto
<1>1. \E r \in ToSet(results) : r.serial = s
  BY DEF Answered
<1> QED  BY <1>1 DEF UptoOf

-----------------------------------------------------------------------------
(* The steps.                                                              *)

LEMMA InitHolds == Init => IInv
<1> SUFFICES ASSUME Init PROVE IInv
  OBVIOUS
<1>1. /\ ToSet(pending) = {} /\ ToSet(results) = {} /\ Answered = {} /\ Being = {}
      /\ Len(pending) = 0 /\ Len(results) = 0
  BY DEF Init, ToSet, Answered, Being
<1>2. TypeOK
  <2>1. now \in 0..MaxTime /\ restarts \in 0..MaxRestarts /\ Len(pending) <= Capacity
    BY <1>1, Parameters DEF Init
  <2> QED  BY <2>1 DEF Init, TypeOK
<1>3. Queues
  BY <1>1 DEF Init, Queues, Distinct
<1>4. Holds
  BY DEF Init, Holds
<1>5. Aired
  <2>1. \A s \in onAir : now \in Launch[s]..Land[s]
    BY Parameters DEF Init
  <2> QED  BY <1>1, <2>1 DEF Init, Aired
<1>6. Caught
  BY <1>1 DEF Init, Caught
<1> QED  BY <1>2, <1>3, <1>4, <1>5, <1>6 DEF Init, IInv, GhostsAreReleased

LEMMA RequestKeeps ==
  ASSUME TypeOK, Queues, NEW asks \in SUBSET Serials, NEW q \in Accepted(asks), Request(q)
  PROVE  /\ pending' \in Seq(Serials) /\ Len(pending') <= Capacity
         /\ inFlight' = inFlight \cup ToSet(q) /\ buffered' = buffered \cup ToSet(q)
         /\ inFlight' \subseteq Serials /\ buffered' \subseteq Serials
         /\ fetching' = fetching /\ results' = results
         /\ ToSet(q) \subseteq asks /\ ToSet(q) \cap inFlight = {}
         /\ Queues'
<1>1. /\ q \in Seq(Serials) /\ Distinct(q)
      /\ ToSet(q) \subseteq asks /\ ToSet(q) \cap inFlight = {}
      /\ Len(pending) + Len(q) <= Capacity
  BY AcceptedForm
<1>2. /\ pending' = pending \o q
      /\ inFlight' = inFlight \cup ToSet(q) /\ buffered' = buffered \cup ToSet(q)
      /\ fetching' = fetching /\ results' = results
  BY DEF Request
<1>3. pending \in Seq(Serials) /\ Distinct(pending) /\ ToSet(pending) \subseteq inFlight
  BY DEF TypeOK, Queues
<1>4. /\ pending' \in Seq(Serials) /\ Len(pending') = Len(pending) + Len(q)
      /\ ToSet(pending') = ToSet(pending) \cup ToSet(q) /\ Distinct(pending')
  <2>1. ToSet(pending) \cap ToSet(q) = {}
    BY <1>1, <1>3
  <2> QED  BY <1>1, <1>2, <1>3, <2>1, ConcatDistinct
<1>5. Being' = Being /\ Answered' = Answered
  BY <1>2 DEF Being, Answered
<1>6. Queues'
  <2>1. Being \subseteq inFlight /\ Answered \subseteq inFlight
    BY DEF Queues
  <2>2. /\ ToSet(pending') \cap Being' = {} /\ Answered' \cap Being' = {}
        /\ ToSet(pending') \cap Answered' = {}
        /\ inFlight' = ToSet(pending') \cup Being' \cup Answered'
        /\ buffered' = inFlight'
    BY <1>1, <1>2, <1>4, <1>5, <2>1 DEF Queues
  <2>3. \A i, j \in 1..Len(results') : results'[i].serial = results'[j].serial => i = j
    BY <1>2 DEF Queues
  <2> QED  BY <1>4, <2>2, <2>3 DEF Queues
<1>7. inFlight' \subseteq Serials /\ buffered' \subseteq Serials
  BY <1>1, <1>2 DEF TypeOK
<1> QED  BY <1>1, <1>2, <1>4, <1>6, <1>7

(* A sonde without a fetch under way is in nobody's hands.                 *)
LEMMA NotUnderway ==
  ASSUME Queues, NEW s, s \notin inFlight
  PROVE  /\ s \notin ToSet(pending)
         /\ ~(fetching # Nobody /\ fetching.serial = s)
         /\ \A r \in ToSet(results) : r.serial # s
BY DEF Queues, Being, Answered

LEMMA HearNewKeeps ==
  ASSUME IInv, NEW s \in Serials, HearNew(s)
  PROVE  IInv'
<1> DEFINE asks == IF WorthAsking(s) THEN {s} ELSE {}
<1>1. PICK q \in Accepted(asks) :
        /\ Request(q)
        /\ kept' = IF q # <<>> THEN [kept EXCEPT ![s] = {now}] ELSE kept
  BY DEF HearNew
<1>2. /\ s \in onAir /\ flight[s] = NoFlight
      /\ flight' = [flight EXCEPT ![s] = [state |-> "air", first |-> now, last |-> now]]
      /\ requested' = requested \cup asks
      /\ onAir' = onAir \ {s}
      /\ skipped' = IF s \in buffered THEN skipped \cup {s} ELSE skipped \ {s}
      /\ mode' = "other"
      /\ UNCHANGED <<now, recovered, hold, restarts, asked, tried>>
  BY DEF HearNew
<1>3. asks \in SUBSET Serials
  OBVIOUS
<1> HIDE DEF asks
<1>4. /\ pending' \in Seq(Serials) /\ Len(pending') <= Capacity
      /\ inFlight' = inFlight \cup ToSet(q) /\ buffered' = buffered \cup ToSet(q)
      /\ inFlight' \subseteq Serials /\ buffered' \subseteq Serials
      /\ fetching' = fetching /\ results' = results
      /\ Queues'
  BY <1>1, <1>3, RequestKeeps DEF IInv
<1>5. now \in 0..MaxTime /\ now \in Launch[s]..Land[s]
  BY <1>2 DEF IInv, TypeOK, Aired
<1>6. kept' \in [Serials -> SUBSET (0..MaxTime)] /\ kept'[s] \in {kept[s], {now}}
      /\ \A t \in Serials : t # s => kept'[t] = kept[t]
  BY <1>1, <1>5 DEF IInv, TypeOK
<1>7. /\ flight' \in [Serials -> Flight \cup {NoFlight}]
      /\ flight'[s].last = now
      /\ \A t \in Serials : t # s => flight'[t] = flight[t]
  BY <1>2, <1>5 DEF IInv, TypeOK, Flight
<1>8. TypeOK'
  BY <1>2, <1>3, <1>4, <1>6, <1>7 DEF IInv, TypeOK
<1>9. Holds'
  BY <1>2, <1>4 DEF IInv, Holds
<1>10. Aired'
  <2>1. \A t \in onAir' : now' \in Launch[t]..Land[t]
    BY <1>2 DEF IInv, Aired
  <2>2. \A t \in Serials : \A x \in kept'[t] : x \in Launch[t]..Land[t] /\ x <= now'
    BY <1>2, <1>5, <1>6, Parameters DEF IInv, Aired
  <2>3. \A t \in Serials : flight'[t] # NoFlight =>
          flight'[t].last \in Launch[t]..Land[t] /\ flight'[t].last <= now'
    BY <1>2, <1>5, <1>7, Parameters DEF IInv, Aired
  <2> QED  BY <1>2, <1>4, <2>1, <2>2, <2>3 DEF IInv, Aired
<1>11. Caught'
  <2> SUFFICES ASSUME NEW t \in Serials \ skipped', flight'[t] # NoFlight
               PROVE  /\ fetching' # Nobody /\ fetching'.serial = t =>
                           flight'[t].last <= fetching'.asked \/ flight'[t].last \in kept'[t]
                      /\ \A r \in ToSet(results') : r.serial = t /\ r.upto # None =>
                           flight'[t].last <= r.upto \/ flight'[t].last \in kept'[t]
    BY DEF Caught
  <2>1. CASE t = s
    <3>1. s \notin inFlight
      BY <1>2, <2>1 DEF IInv, Queues
    <3> QED  BY <1>4, <2>1, <3>1, NotUnderway DEF IInv
  <2>2. CASE t # s
    BY <1>2, <1>4, <1>6, <1>7, <2>2 DEF IInv, Caught
  <2> QED  BY <2>1, <2>2
<1> QED  BY <1>2, <1>4, <1>8, <1>9, <1>10, <1>11 DEF IInv, GhostsAreReleased

LEMMA HearTrackedForm ==
  ASSUME TypeOK, NEW s \in Serials, NEW resumed \in BOOLEAN, HearTracked(s, resumed)
  PROVE  /\ flight' \in [Serials -> Flight \cup {NoFlight}]
         /\ flight'[s].last = now
         /\ InAir(s) => flight'[s].state # "closed"
         /\ \A t \in Serials : t # s => flight'[t] = flight[t]
<1> DEFINE st == IF flight[s].state = "down" \/ (flight[s].state = "closed" /\ ~resumed)
                 THEN flight[s].state
                 ELSE IF now = Land[s] THEN "down" ELSE "air"
           f == [flight[s] EXCEPT !.last = now, !.state = st]
<1>1. flight[s] \in Flight /\ now \in 0..MaxTime /\ flight \in [Serials -> Flight \cup {NoFlight}]
  BY DEF TypeOK, HearTracked
<1>2. flight' = [flight EXCEPT ![s] = f]
  BY <1>1 DEF HearTracked
<1>3. st \in {"air", "closed", "down"} /\ (InAir(s) => st # "closed")
  BY <1>1, FlightFields DEF InAir
<1> HIDE DEF st
<1>4. f \in Flight /\ f.last = now /\ f.state = st
  BY <1>1, <1>3 DEF Flight
<1> HIDE DEF f
<1> QED  BY <1>1, <1>2, <1>3, <1>4

LEMMA HearTrackedKeeps ==
  ASSUME IInv, NEW s \in Serials, NEW resumed \in BOOLEAN, HearTracked(s, resumed)
  PROVE  IInv'
<1>1. /\ s \in onAir /\ flight[s] # NoFlight
      /\ kept' = IF s \in buffered THEN [kept EXCEPT ![s] = @ \cup {now}] ELSE kept
      /\ onAir' = onAir \ {s} /\ mode' = "other"
      /\ UNCHANGED <<now, fetcher, buffered, requested, recovered, hold, restarts, asked, tried,
                     skipped>>
  BY DEF HearTracked, KeptWith
<1>2. UNCHANGED <<pending, fetching, results, inFlight>>
  BY <1>1 DEF fetcher
<1>3. /\ flight' \in [Serials -> Flight \cup {NoFlight}]
      /\ flight'[s].last = now
      /\ \A t \in Serials : t # s => flight'[t] = flight[t]
  BY HearTrackedForm DEF IInv
<1>4. now \in 0..MaxTime /\ now \in Launch[s]..Land[s]
  BY <1>1 DEF IInv, TypeOK, Aired
<1>5. /\ kept' \in [Serials -> SUBSET (0..MaxTime)]
      /\ kept'[s] = IF s \in buffered THEN kept[s] \cup {now} ELSE kept[s]
      /\ \A t \in Serials : t # s => kept'[t] = kept[t]
  BY <1>1, <1>4 DEF IInv, TypeOK
<1>6. TypeOK'
  BY <1>1, <1>2, <1>3, <1>5 DEF IInv, TypeOK
<1>7. Queues'
  BY <1>1, <1>2 DEF IInv, Queues, Being, Answered
<1>8. Holds'
  BY <1>1, <1>2 DEF IInv, Holds
<1>9. Aired'
  <2>1. \A t \in onAir' : now' \in Launch[t]..Land[t]
    BY <1>1 DEF IInv, Aired
  <2>2. \A t \in Serials : \A x \in kept'[t] : x \in Launch[t]..Land[t] /\ x <= now'
    BY <1>1, <1>4, <1>5, Parameters DEF IInv, Aired
  <2>3. \A t \in Serials : flight'[t] # NoFlight =>
          flight'[t].last \in Launch[t]..Land[t] /\ flight'[t].last <= now'
    BY <1>1, <1>3, <1>4, Parameters DEF IInv, Aired
  <2> QED  BY <1>1, <1>2, <2>1, <2>2, <2>3 DEF IInv, Aired
<1>10. Caught'
  <2> SUFFICES ASSUME NEW t \in Serials \ skipped', flight'[t] # NoFlight
               PROVE  /\ fetching' # Nobody /\ fetching'.serial = t =>
                           flight'[t].last <= fetching'.asked \/ flight'[t].last \in kept'[t]
                      /\ \A r \in ToSet(results') : r.serial = t /\ r.upto # None =>
                           flight'[t].last <= r.upto \/ flight'[t].last \in kept'[t]
    BY DEF Caught
  <2>1. CASE t = s /\ s \in buffered
    BY <1>3, <1>5, <2>1
  <2>2. CASE t = s /\ s \notin buffered
    <3>1. s \notin inFlight
      BY <2>2 DEF IInv, Queues
    <3> QED  BY <1>2, <2>2, <3>1, NotUnderway DEF IInv
  <2>3. CASE t # s
    BY <1>1, <1>2, <1>3, <1>5, <2>3 DEF IInv, Caught
  <2> QED  BY <2>1, <2>2, <2>3
<1> QED  BY <1>1, <1>6, <1>7, <1>8, <1>9, <1>10 DEF IInv, GhostsAreReleased

LEMMA TakeKeeps ==
  ASSUME IInv, Take
  PROVE  IInv'
<1> DEFINE h == Head(pending)
<1>1. /\ fetching = Nobody /\ pending # <<>>
      /\ fetching' = [serial |-> h, asked |-> now] /\ pending' = Tail(pending)
      /\ mode' = "other"
      /\ UNCHANGED <<now, onAir, flight, results, inFlight, restarts, asked, tried, skipped>>
      /\ UNCHANGED <<buffered, kept, requested, recovered, hold>>
  BY DEF Take, bookkeeping
<1>2. /\ h \in Serials /\ pending' \in Seq(Serials) /\ Len(pending') = Len(pending) - 1
      /\ ToSet(pending) = {h} \cup ToSet(pending')
      /\ Distinct(pending') /\ h \notin ToSet(pending')
  BY <1>1, TailDistinct DEF IInv, TypeOK, Queues
<1> HIDE DEF h
<1>3. now \in 0..MaxTime /\ fetching' # Nobody /\ fetching'.serial = h /\ fetching'.asked = now
  BY <1>1, Parameters DEF IInv, TypeOK, Nobody
<1>4. TypeOK'
  <2>1. Len(pending') <= Capacity
    BY <1>2, Parameters DEF IInv, TypeOK
  <2>2. fetching' \in [serial: Serials, asked: 0..MaxTime] \cup {Nobody}
    BY <1>1, <1>2, <1>3
  <2> QED  BY <1>1, <1>2, <2>1, <2>2 DEF IInv, TypeOK
<1>5. Queues'
  <2>1. Being = {} /\ Being' = {h} /\ Answered' = Answered
    BY <1>1, <1>3 DEF Being, Answered
  <2>2. /\ ToSet(pending') \cap Being' = {} /\ Answered' \cap Being' = {}
        /\ ToSet(pending') \cap Answered' = {}
        /\ inFlight' = ToSet(pending') \cup Being' \cup Answered'
        /\ buffered' = inFlight'
    BY <1>1, <1>2, <2>1 DEF IInv, Queues
  <2>3. \A i, j \in 1..Len(results') : results'[i].serial = results'[j].serial => i = j
    BY <1>1 DEF IInv, Queues
  <2> QED  BY <1>2, <2>2, <2>3 DEF Queues
<1>6. Holds'
  BY <1>1 DEF IInv, Holds
<1>7. Aired'
  BY <1>1, <1>3 DEF IInv, Aired
<1>8. Caught'
  BY <1>1, <1>3 DEF IInv, Caught, Aired
<1> QED  BY <1>1, <1>4, <1>5, <1>6, <1>7, <1>8 DEF IInv, GhostsAreReleased

LEMMA ReturnKeeps ==
  ASSUME IInv, fetching # Nobody, NEW upto \in {None} \cup fetching.asked..now, Return(upto)
  PROVE  IInv'
<1> DEFINE s == fetching.serial
           x == [serial |-> s, upto |-> upto]
           R == [serial: Serials, upto: 0..MaxTime \cup {None}]
<1>1. /\ upto = None \/ upto >= Launch[s]
      /\ results' = Append(results, x) /\ fetching' = Nobody /\ mode' = "other"
      /\ UNCHANGED <<now, onAir, flight, pending, inFlight, restarts, asked, tried, skipped>>
      /\ UNCHANGED <<buffered, kept, requested, recovered, hold>>
  BY DEF Return, bookkeeping
<1>2. /\ s \in Serials /\ fetching.asked \in 0..MaxTime /\ now \in 0..MaxTime
      /\ results \in Seq(R)
  BY DEF IInv, TypeOK
<1>3. /\ upto \in 0..MaxTime \cup {None}
      /\ upto # None => Launch[s] <= upto /\ fetching.asked <= upto /\ upto <= now
  BY <1>1, <1>2, Parameters
<1>4. x \in R /\ x.serial = s /\ x.upto = upto
  BY <1>2, <1>3
<1>5. Being = {s} /\ Being' = {}
  BY <1>1 DEF Being
<1> HIDE DEF s, x, R
<1>6. /\ results' \in Seq(R)
      /\ Len(results') = Len(results) + 1 /\ ToSet(results') = ToSet(results) \cup {x}
      /\ \A i \in 1..Len(results) : results'[i] = results[i]
      /\ results'[Len(results) + 1] = x
  BY <1>1, <1>2, <1>4, AppendSet
<1>7. Answered' = Answered \cup {s}
  BY <1>4, <1>6 DEF Answered
<1>8. TypeOK'
  BY <1>1, <1>6 DEF IInv, TypeOK, R
<1>9. Queues'
  <2>1. /\ ToSet(pending') \cap Being' = {} /\ Answered' \cap Being' = {}
        /\ ToSet(pending') \cap Answered' = {}
        /\ inFlight' = ToSet(pending') \cup Being' \cup Answered'
        /\ buffered' = inFlight' /\ Distinct(pending')
    BY <1>1, <1>5, <1>7 DEF IInv, Queues
  <2>2. ASSUME NEW i \in 1..Len(results'), NEW j \in 1..Len(results'),
               results'[i].serial = results'[j].serial
        PROVE  i = j
    <3>1. Len(results) \in Nat
      BY <1>2
    <3>2. \A k \in 1..Len(results) : results[k].serial # s
      <4> SUFFICES ASSUME NEW k \in 1..Len(results) PROVE results[k].serial # s
        OBVIOUS
      <4>1. results[k] \in ToSet(results)
        BY <1>2 DEF ToSet
      <4> QED  BY <1>5, <4>1 DEF IInv, Queues, Answered
    <3>3. CASE i \in 1..Len(results) /\ j \in 1..Len(results)
      BY <1>6, <2>2, <3>3 DEF IInv, Queues
    <3>4. CASE i = Len(results) + 1 \/ j = Len(results) + 1
      BY <1>4, <1>6, <2>2, <3>1, <3>2, <3>4
    <3> QED  BY <1>6, <3>1, <3>3, <3>4
  <2> QED  BY <2>1, <2>2 DEF Queues
<1>10. Holds'
  BY <1>1 DEF IInv, Holds
<1>11. Aired'
  BY <1>1, <1>3, <1>4, <1>6 DEF IInv, Aired
<1>12. Caught'
  <2> SUFFICES ASSUME NEW t \in Serials \ skipped, flight[t] # NoFlight,
                      NEW r \in ToSet(results'), r.serial = t, r.upto # None
               PROVE  flight[t].last <= r.upto \/ flight[t].last \in kept[t]
    BY <1>1 DEF Caught
  <2>1. CASE r \in ToSet(results)
    BY <2>1 DEF IInv, Caught
  <2>2. CASE r = x
    <3>1. flight[t].last <= fetching.asked \/ flight[t].last \in kept[t]
      BY <1>4, <2>2 DEF IInv, Caught, s
    <3>2. flight[t].last \in 0..MaxTime
      BY FlightFields DEF IInv, TypeOK
    <3>3. fetching.asked <= r.upto /\ r.upto \in 0..MaxTime
      BY <1>3, <1>4, <2>2
    <3> QED  BY <1>2, <3>1, <3>2, <3>3
  <2> QED  BY <1>6, <2>1, <2>2
<1> QED  BY <1>1, <1>8, <1>9, <1>10, <1>11, <1>12 DEF IInv, GhostsAreReleased

LEMMA PassKeeps ==
  ASSUME IInv, Pass
  PROVE  IInv'
<1>1. /\ now < MaxTime /\ now' = now + 1
      /\ onAir' = {s \in Serials : now' \in Launch[s]..Land[s]} /\ mode' = "other"
      /\ UNCHANGED <<flight, restarts, asked, tried, skipped>>
      /\ UNCHANGED <<pending, fetching, results, inFlight>>
      /\ UNCHANGED <<buffered, kept, requested, recovered, hold>>
  BY DEF Pass, fetcher, bookkeeping
<1>2. now \in 0..MaxTime /\ now' \in 0..MaxTime /\ now <= now' /\ onAir' \subseteq Serials
  BY <1>1, Parameters DEF IInv, TypeOK
<1>3. TypeOK'
  BY <1>1, <1>2 DEF IInv, TypeOK
<1>4. Queues'
  BY <1>1 DEF IInv, Queues, Being, Answered
<1>5. Holds'
  <2>1. \A s \in Serials : asked[s] \in Int /\ HoldMax \in Int
    BY Parameters DEF IInv, TypeOK, None
  <2> QED  BY <1>1, <1>2, <2>1 DEF IInv, Holds
<1>6. Aired'
  <2>1. \A s \in onAir' : now' \in Launch[s]..Land[s]
    BY <1>1
  <2>2. \A s \in Serials : \A t \in kept'[s] : t \in Launch[s]..Land[s] /\ t <= now'
    BY <1>1, <1>2, Parameters DEF IInv, Aired
  <2>3. \A s \in Serials : flight'[s] # NoFlight =>
          flight'[s].last \in Launch[s]..Land[s] /\ flight'[s].last <= now'
    BY <1>1, <1>2, Parameters DEF IInv, Aired
  <2>4. fetching' # Nobody => fetching'.asked <= now'
    <3>1. fetching # Nobody => fetching.asked \in 0..MaxTime
      BY DEF IInv, TypeOK
    <3> QED  BY <1>1, <1>2, <3>1 DEF IInv, Aired
  <2>5. \A r \in ToSet(results') : r.upto # None => Launch[r.serial] <= r.upto /\ r.upto <= now'
    <3> SUFFICES ASSUME NEW r \in ToSet(results), r.upto # None
                 PROVE  Launch[r.serial] <= r.upto /\ r.upto <= now'
      BY <1>1
    <3>1. r.upto \in 0..MaxTime
      BY FetchedForm DEF IInv
    <3> QED  BY <1>2, <3>1 DEF IInv, Aired
  <2> QED  BY <2>1, <2>2, <2>3, <2>4, <2>5 DEF Aired
<1>7. Caught'
  BY <1>1 DEF IInv, Caught
<1> QED  BY <1>1, <1>3, <1>4, <1>5, <1>6, <1>7 DEF IInv, GhostsAreReleased

LEMMA RestartKeeps ==
  ASSUME IInv, Restart
  PROVE  IInv'
<1>1. /\ restarts < MaxRestarts /\ restarts' = restarts + 1
      /\ flight' = [s \in Serials |-> IF InAir(s) THEN flight[s] ELSE NoFlight]
      /\ pending' = <<>> /\ fetching' = Nobody /\ results' = <<>> /\ inFlight' = {}
      /\ buffered' = {} /\ kept' = [s \in Serials |-> {}]
      /\ requested' = {} /\ recovered' = {}
      /\ hold' = [s \in Serials |-> None] /\ asked' = [s \in Serials |-> None]
      /\ tried' = [s \in Serials |-> None]
      /\ skipped' = {} /\ mode' = "other" /\ now' = now /\ onAir' = onAir
  BY DEF Restart
<1>2. /\ ToSet(pending') = {} /\ ToSet(results') = {} /\ Answered' = {} /\ Being' = {}
      /\ Len(pending') = 0 /\ Len(results') = 0
  BY <1>1 DEF ToSet, Answered, Being
<1>3. TypeOK'
  <2>1. restarts' \in 0..MaxRestarts /\ Len(pending') <= Capacity
    BY <1>1, <1>2, Parameters DEF IInv, TypeOK
  <2>2. flight' \in [Serials -> Flight \cup {NoFlight}]
    BY <1>1 DEF IInv, TypeOK
  <2> QED  BY <1>1, <2>1, <2>2 DEF IInv, TypeOK
<1>4. Queues'
  BY <1>1, <1>2 DEF Queues, Distinct
<1>5. Holds'
  BY <1>1 DEF Holds
<1>6. Aired'
  BY <1>1, <1>2 DEF IInv, Aired
<1>7. Caught'
  BY <1>1, <1>2 DEF Caught
<1> QED  BY <1>1, <1>3, <1>4, <1>5, <1>6, <1>7 DEF IInv, GhostsAreReleased

(* What applying the results makes of each flight.                         *)
LEMMA AppliedForm ==
  ASSUME IInv, ApplyBackfills, NEW s \in Serials
  PROVE  \/ flight'[s] = flight[s]
         \/ /\ s \in Answered
            /\ flight'[s] \in Flight /\ flight'[s].last \in Launch[s]..Land[s]
            /\ flight'[s].last <= now /\ flight'[s].state # "closed" /\ InAir(s)
            /\ s \notin skipped => flight'[s].last >= flight[s].last
<1>1. flight'[s] = IF s \in Answered THEN Rebuilt(s, UptoOf(s)) ELSE flight[s]
  BY DEF ApplyBackfills
<1>2. CASE s \in Answered
  <2>1. PICK r \in ToSet(results) : r.serial = s /\ UptoOf(s) = r.upto
    BY <1>2, AnsweredForm
  <2>2. r.upto \in 0..MaxTime \cup {None}
    BY FetchedForm DEF IInv
  <2>3. /\ flight[s] \in Flight \cup {NoFlight} /\ now \in 0..MaxTime
        /\ r.upto # None => Launch[s] <= r.upto /\ r.upto <= now
        /\ \A t \in kept[s] : t \in Launch[s]..Land[s] /\ t <= now
    BY <2>1 DEF IInv, TypeOK, Aired
  <2>4. ASSUME InAir(s), r.upto # None, s \notin skipped
        PROVE  /\ flight[s].last \in Launch[s]..Land[s]
               /\ flight[s].last <= r.upto \/ flight[s].last \in kept[s]
    <3>1. flight[s] # NoFlight
      BY <2>4 DEF InAir, NoFlight
    <3> QED  BY <2>1, <2>4, <3>1 DEF IInv, Aired, Caught
  <2>5. \/ flight'[s] = flight[s]
        \/ /\ flight'[s] \in Flight /\ flight'[s].last \in Launch[s]..Land[s]
           /\ flight'[s].last <= now
           /\ flight'[s].state # "closed" /\ InAir(s) /\ r.upto # None
           /\ flight[s].last \in Launch[s]..Land[s]
                /\ (flight[s].last <= r.upto \/ flight[s].last \in kept[s])
              => flight'[s].last >= flight[s].last
    BY <1>1, <1>2, <2>1, <2>2, <2>3, RebuiltForm
  <2> QED  BY <1>2, <2>4, <2>5
<1>3. CASE s \notin Answered
  BY <1>1, <1>3
<1> QED  BY <1>2, <1>3

LEMMA ApplyKeeps ==
  ASSUME IInv, ApplyBackfills
  PROVE  IInv'
<1>1. /\ results' = <<>>
      /\ inFlight' = inFlight \ Answered /\ buffered' = buffered \ Answered
      /\ kept' = [s \in Serials |-> IF s \in Answered THEN {} ELSE kept[s]]
      /\ hold' = [s \in Serials |-> IF s \in Answered THEN None ELSE hold[s]]
      /\ asked' = [s \in Serials |-> IF s \in Answered THEN None ELSE asked[s]]
      /\ mode' = "other"
      /\ UNCHANGED <<now, onAir, pending, fetching, requested, recovered, restarts, tried, skipped>>
  BY DEF ApplyBackfills
<1>2. ToSet(results') = {} /\ Answered' = {} /\ Len(results') = 0 /\ Being' = Being
  BY <1>1 DEF ToSet, Answered, Being
<1>3. TypeOK'
  <2>1. flight' \in [Serials -> Flight \cup {NoFlight}]
    <3>1. \A s \in Serials : flight'[s] \in Flight \cup {NoFlight}
      BY AppliedForm DEF IInv, TypeOK
    <3>2. flight' = [s \in Serials |-> IF s \in Answered THEN Rebuilt(s, UptoOf(s)) ELSE flight[s]]
      BY DEF ApplyBackfills
    <3> QED  BY <3>1, <3>2
  <2>2. results' \in Seq([serial: Serials, upto: 0..MaxTime \cup {None}])
    BY <1>1
  <2>3. /\ kept' \in [Serials -> SUBSET (0..MaxTime)]
        /\ hold' \in [Serials -> 0..MaxTime \cup {None}]
        /\ asked' \in [Serials -> 0..MaxTime \cup {None}]
    BY <1>1 DEF IInv, TypeOK
  <2> QED  BY <1>1, <2>1, <2>2, <2>3 DEF IInv, TypeOK
<1>4. Queues'
  BY <1>1, <1>2 DEF IInv, Queues
<1>5. Holds'
  BY <1>1 DEF IInv, Holds
<1>6. Aired'
  <2>1. \A s \in Serials : \A t \in kept'[s] : t \in Launch[s]..Land[s] /\ t <= now
    BY <1>1 DEF IInv, Aired
  <2>2. \A s \in Serials : flight'[s] # NoFlight =>
          flight'[s].last \in Launch[s]..Land[s] /\ flight'[s].last <= now
    BY AppliedForm DEF IInv, Aired
  <2> QED  BY <1>1, <1>2, <2>1, <2>2 DEF IInv, Aired
<1>7. Caught'
  <2> SUFFICES ASSUME NEW s \in Serials \ skipped, flight'[s] # NoFlight,
                      fetching # Nobody, fetching.serial = s
               PROVE  flight'[s].last <= fetching.asked \/ flight'[s].last \in kept'[s]
    BY <1>1, <1>2 DEF Caught
  <2>1. s \notin Answered
    BY DEF IInv, Queues, Being
  <2>2. flight'[s] = flight[s] /\ kept'[s] = kept[s]
    BY <1>1, <2>1, AppliedForm
  <2> QED  BY <2>2 DEF IInv, Caught
<1> QED  BY <1>1, <1>3, <1>4, <1>5, <1>6, <1>7 DEF IInv, GhostsAreReleased

(* What a tick makes of each flight, its hold and its fetch.               *)
LEMMA TickForm ==
  ASSUME IInv, NEW outside \in Outsides, NEW q \in Accepted(Recoveries(outside)),
         Tick(outside, q), NEW s \in Serials
  PROVE  /\ flight'[s] \in Flight \cup {NoFlight}
         /\ flight'[s] # NoFlight => /\ flight[s] # NoFlight
                                     /\ flight'[s].last = flight[s].last
         /\ flight'[s].state = "air" => InAir(s) /\ (Gap(s) > Lost => hold'[s] # None)
         /\ InAir(s) /\ flight'[s].state = "closed" =>
              Gap(s) > Lost /\ hold'[s] = None /\ s \notin outside
         /\ s \in ToSet(q) => /\ hold'[s] = now /\ asked'[s] = now /\ tried'[s] = now
                              /\ s \in recovered' /\ s \notin inFlight
         /\ s \notin ToSet(q) => /\ asked'[s] = asked[s] /\ tried'[s] = tried[s]
                                 /\ hold'[s] \in {hold[s], None}
                                 /\ hold[s] # None =>
                                      (hold'[s] # None <=> now - hold[s] <= HoldMax)
<1> DEFINE held == hold'[s] # None
<1>1. /\ flight'[s] = IF s \in outside THEN NoFlight ELSE Swept(s, held)
      /\ hold'[s] = HoldAfter(s, ToSet(q))
      /\ asked'[s] = IF s \in ToSet(q) THEN now ELSE asked[s]
      /\ tried'[s] = IF s \in ToSet(q) /\ tried[s] = None THEN now ELSE tried[s]
      /\ recovered' = recovered \cup Recoveries(outside)
  BY DEF Tick
<1>2. flight[s] \in Flight \cup {NoFlight} /\ now \in 0..MaxTime /\ now # None
  BY Parameters DEF IInv, TypeOK
<1>3. ToSet(q) \subseteq Recoveries(outside) /\ ToSet(q) \cap inFlight = {}
  <2>1. Recoveries(outside) \in SUBSET Serials
    BY DEF Recoveries
  <2> QED  BY <2>1, AcceptedForm DEF IInv
<1>4. s \in ToSet(q) => /\ hold'[s] = now /\ asked'[s] = now /\ tried'[s] = now
                        /\ s \in recovered' /\ s \notin inFlight
  <2> SUFFICES ASSUME s \in ToSet(q)
               PROVE  /\ hold'[s] = now /\ asked'[s] = now /\ tried'[s] = now
                      /\ s \in recovered' /\ s \notin inFlight
    OBVIOUS
  <2>1. s \in Recoveries(outside) /\ s \notin inFlight
    BY <1>3
  <2>2. tried[s] = None
    BY <2>1 DEF Recoveries, AsksFor, IInv, Holds
  <2> QED  BY <1>1, <2>1, <2>2 DEF HoldAfter
<1>5. s \notin ToSet(q) => /\ asked'[s] = asked[s] /\ tried'[s] = tried[s]
                           /\ hold'[s] \in {hold[s], None}
                           /\ hold[s] # None =>
                                (hold'[s] # None <=> now - hold[s] <= HoldMax)
  <2> SUFFICES ASSUME s \notin ToSet(q)
               PROVE  /\ hold'[s] \in {hold[s], None}
                      /\ hold[s] # None => (hold'[s] # None <=> now - hold[s] <= HoldMax)
    BY <1>1
  <2>1. HoldAfter(s, ToSet(q)) = IF hold[s] # None /\ now - hold[s] > HoldMax THEN None ELSE hold[s]
    BY DEF HoldAfter
  <2>2. hold[s] \in 0..MaxTime \cup {None}
    BY DEF IInv, TypeOK
  <2> QED  BY <1>1, <1>2, <2>1, <2>2, Parameters
<1> HIDE DEF held
<1>6. /\ flight'[s] \in Flight \cup {NoFlight}
      /\ flight'[s] # NoFlight => flight[s] # NoFlight /\ flight'[s].last = flight[s].last
      /\ flight'[s].state = "air" => InAir(s) /\ (Gap(s) > Lost => held)
      /\ InAir(s) /\ flight'[s].state = "closed" => Gap(s) > Lost /\ ~held /\ s \notin outside
  <2>1. CASE s \in outside
    BY <1>1, <2>1 DEF NoFlight
  <2>2. CASE s \notin outside /\ InAir(s) /\ Gap(s) > Lost /\ ~held
    <3>1. flight'[s] = [flight[s] EXCEPT !.state = "closed"]
      BY <1>1, <2>2 DEF Swept, InAir
    <3>2. flight[s] \in Flight
      BY <1>2, <2>2 DEF InAir, NoFlight
    <3>3. flight'[s] \in Flight /\ flight'[s].last = flight[s].last /\ flight'[s].state = "closed"
      <4> DEFINE f == flight[s]
                 g == [f EXCEPT !.state = "closed"]
      <4>1. f \in Flight /\ flight'[s] = g
        BY <3>1, <3>2
      <4> HIDE DEF f
      <4>2. g \in Flight /\ g.last = f.last /\ g.state = "closed"
        BY <4>1 DEF Flight
      <4> QED  BY <4>1, <4>2 DEF f
    <3> QED  BY <2>2, <3>2, <3>3, FlightFields
  <2>3. CASE s \notin outside /\ flight[s].state \in {"closed", "down"} /\ Gap(s) > Stale
    <3>1. flight'[s] = NoFlight
      BY <1>1, <2>3 DEF Swept, InAir
    <3> QED  BY <3>1 DEF NoFlight
  <2>4. CASE /\ s \notin outside /\ ~(InAir(s) /\ Gap(s) > Lost /\ ~held)
             /\ ~(flight[s].state \in {"closed", "down"} /\ Gap(s) > Stale)
    <3>1. flight'[s] = flight[s]
      BY <1>1, <2>4 DEF Swept
    <3> QED  BY <1>2, <2>4, <3>1 DEF InAir
  <2> QED  BY <2>1, <2>2, <2>3, <2>4
<1> QED  BY <1>4, <1>5, <1>6 DEF held

LEMMA TickKeeps ==
  ASSUME IInv, NEW outside \in Outsides, NEW q \in Accepted(Recoveries(outside)),
         Tick(outside, q)
  PROVE  IInv'
<1> DEFINE accepted == ToSet(q)
<1>1. /\ Request(q)
      /\ kept' = [s \in Serials |-> IF s \in accepted THEN {} ELSE kept[s]]
      /\ recovered' = recovered \cup Recoveries(outside)
      /\ hold' = [s \in Serials |-> HoldAfter(s, accepted)]
      /\ asked' = [s \in Serials |-> IF s \in accepted THEN now ELSE asked[s]]
      /\ tried' = [s \in Serials |-> IF s \in accepted /\ tried[s] = None THEN now ELSE tried[s]]
      /\ flight' = [s \in Serials |-> IF s \in outside THEN NoFlight
                                      ELSE Swept(s, hold'[s] # None)]
      /\ mode' = "tick"
      /\ UNCHANGED <<now, onAir, requested, restarts, skipped>>
  BY DEF Tick
<1>2. Recoveries(outside) \in SUBSET Serials
  BY DEF Recoveries
<1>3. /\ pending' \in Seq(Serials) /\ Len(pending') <= Capacity
      /\ inFlight' = inFlight \cup accepted /\ buffered' = buffered \cup accepted
      /\ inFlight' \subseteq Serials /\ buffered' \subseteq Serials
      /\ fetching' = fetching /\ results' = results
      /\ Queues'
  BY <1>1, <1>2, RequestKeeps DEF IInv
<1>4. /\ now \in 0..MaxTime /\ HoldMax \in Nat /\ None \notin Nat
      /\ \A s \in Serials : /\ hold[s] \in 0..MaxTime \cup {None}
                            /\ asked[s] \in 0..MaxTime \cup {None}
                            /\ tried[s] \in 0..MaxTime \cup {None}
  BY Parameters DEF IInv, TypeOK
<1>5. TypeOK'
  <2>1. \A s \in Serials : /\ flight'[s] \in Flight \cup {NoFlight}
                           /\ hold'[s] \in 0..MaxTime \cup {None}
                           /\ asked'[s] \in 0..MaxTime \cup {None}
                           /\ tried'[s] \in 0..MaxTime \cup {None}
    <3> SUFFICES ASSUME NEW s \in Serials
                 PROVE  /\ flight'[s] \in Flight \cup {NoFlight}
                        /\ hold'[s] \in 0..MaxTime \cup {None}
                        /\ asked'[s] \in 0..MaxTime \cup {None}
                        /\ tried'[s] \in 0..MaxTime \cup {None}
      OBVIOUS
    <3> QED  BY <1>4, TickForm
  <2>2. /\ flight' \in [Serials -> Flight \cup {NoFlight}]
        /\ hold' \in [Serials -> 0..MaxTime \cup {None}]
        /\ asked' \in [Serials -> 0..MaxTime \cup {None}]
        /\ tried' \in [Serials -> 0..MaxTime \cup {None}]
    <3>1. /\ flight' = [s \in Serials |-> flight'[s]] /\ hold' = [s \in Serials |-> hold'[s]]
          /\ asked' = [s \in Serials |-> asked'[s]] /\ tried' = [s \in Serials |-> tried'[s]]
      BY <1>1
    <3> QED  BY <2>1, <3>1
  <2>3. kept' \in [Serials -> SUBSET (0..MaxTime)]
    BY <1>1 DEF IInv, TypeOK
  <2>4. recovered' \subseteq Serials
    BY <1>1, <1>2 DEF IInv, TypeOK
  <2> QED  BY <1>1, <1>3, <2>2, <2>3, <2>4 DEF IInv, TypeOK
<1>6. Holds'
  <2> SUFFICES ASSUME NEW s \in Serials
               PROVE  /\ hold'[s] # None => /\ s \in inFlight' /\ asked'[s] = hold'[s]
                                            /\ tried'[s] = hold'[s]
                      /\ asked'[s] # None /\ hold'[s] = None => now' - asked'[s] > HoldMax
                      /\ tried'[s] # None => s \in recovered'
    BY DEF Holds
  <2>1. CASE s \in accepted
    BY <1>3, <1>4, <2>1, TickForm
  <2>2. CASE s \notin accepted
    <3>1. /\ asked'[s] = asked[s] /\ tried'[s] = tried[s] /\ hold'[s] \in {hold[s], None}
          /\ hold[s] # None => (hold'[s] # None <=> now - hold[s] <= HoldMax)
      BY <2>2, TickForm
    <3>2. /\ hold[s] # None => s \in inFlight /\ asked[s] = hold[s] /\ tried[s] = hold[s]
          /\ asked[s] # None /\ hold[s] = None => now - asked[s] > HoldMax
          /\ tried[s] # None => s \in recovered
      BY DEF IInv, Holds
    <3>3. asked[s] # None /\ hold'[s] = None => now - asked[s] > HoldMax
      BY <1>4, <3>1, <3>2
    <3> QED  BY <1>1, <1>3, <3>1, <3>2, <3>3
  <2> QED  BY <2>1, <2>2
<1>7. Aired'
  <2>1. \A s \in Serials : \A t \in kept'[s] : t \in Launch[s]..Land[s] /\ t <= now
    BY <1>1 DEF IInv, Aired
  <2>2. \A s \in Serials : flight'[s] # NoFlight =>
          flight'[s].last \in Launch[s]..Land[s] /\ flight'[s].last <= now
    BY TickForm DEF IInv, Aired
  <2> QED  BY <1>1, <1>3, <2>1, <2>2 DEF IInv, Aired
<1>8. Caught'
  <2> SUFFICES ASSUME NEW s \in Serials \ skipped, flight'[s] # NoFlight
               PROVE  /\ fetching # Nobody /\ fetching.serial = s =>
                           flight'[s].last <= fetching.asked \/ flight'[s].last \in kept'[s]
                      /\ \A r \in ToSet(results) : r.serial = s /\ r.upto # None =>
                           flight'[s].last <= r.upto \/ flight'[s].last \in kept'[s]
    BY <1>1, <1>3 DEF Caught
  <2>1. flight[s] # NoFlight /\ flight'[s].last = flight[s].last
    BY TickForm
  <2>2. CASE s \in accepted
    <3>1. s \notin inFlight
      BY <2>2, TickForm
    <3> QED  BY <3>1, NotUnderway DEF IInv
  <2>3. CASE s \notin accepted
    <3>1. kept'[s] = kept[s]
      BY <1>1, <2>3
    <3> QED  BY <2>1, <3>1 DEF IInv, Caught
  <2> QED  BY <2>2, <2>3
<1>9. GhostsAreReleased'
  <2> SUFFICES ASSUME NEW s \in Serials, flight'[s].state = "air", now' - flight'[s].last > Lost
               PROVE  tried'[s] # None /\ now' - tried'[s] <= HoldMax
    BY DEF GhostsAreReleased, InAir, Gap
  <2>1. InAir(s) /\ now' = now /\ flight'[s].last = flight[s].last
    <3>1. flight'[s] # NoFlight
      BY DEF NoFlight
    <3> QED  BY <1>1, <3>1, TickForm
  <2>2. hold'[s] # None
    BY <2>1, TickForm DEF Gap
  <2>3. tried'[s] = hold'[s]
    BY <1>6, <2>2 DEF Holds
  <2>4. now - hold'[s] <= HoldMax
    BY <1>4, <2>2, TickForm
  <2> QED  BY <2>1, <2>2, <2>3, <2>4
<1> QED  BY <1>5, <1>3, <1>6, <1>7, <1>8, <1>9 DEF IInv

LEMMA StepKeeps == IInv /\ [Next]_vars => IInv'
<1> SUFFICES ASSUME IInv, [Next]_vars PROVE IInv'
  OBVIOUS
<1>1. CASE \E s \in Serials : HearNew(s)
  BY <1>1, HearNewKeeps
<1>2. CASE \E s \in Serials : \E resumed \in BOOLEAN : HearTracked(s, resumed)
  BY <1>2, HearTrackedKeeps
<1>3. CASE ApplyBackfills
  BY <1>3, ApplyKeeps
<1>4. CASE \E outside \in Outsides : \E q \in Accepted(Recoveries(outside)) : Tick(outside, q)
  BY <1>4, TickKeeps
<1>5. CASE Take
  BY <1>5, TakeKeeps
<1>6. CASE fetching # Nobody /\ \E upto \in {None} \cup fetching.asked..now : Return(upto)
  BY <1>6, ReturnKeeps
<1>7. CASE Pass
  BY <1>7, PassKeeps
<1>8. CASE Restart
  BY <1>8, RestartKeeps
<1>9. CASE UNCHANGED vars
  <2>1. TypeOK' /\ Holds' /\ Aired' /\ Caught' /\ GhostsAreReleased'
    BY <1>9 DEF IInv, vars, fetcher, bookkeeping, TypeOK, Holds, Aired, Caught,
                GhostsAreReleased, InAir, Gap
  <2>2. Queues'
    BY <1>9 DEF IInv, vars, fetcher, bookkeeping, Queues, Being, Answered
  <2> QED  BY <2>1, <2>2 DEF IInv
<1> QED  BY <1>1, <1>2, <1>3, <1>4, <1>5, <1>6, <1>7, <1>8, <1>9 DEF Next

LEMMA InvHolds == Spec => []IInv
BY InitHolds, StepKeeps, PTL DEF Spec

-----------------------------------------------------------------------------
(* The theorems.                                                           *)

(* TypeOK: the queue of requests never exceeds its capacity, and every     *)
(* instant remembered is one that has been.                                *)
THEOREM TypeCorrect == Spec => []TypeOK
<1>1. IInv => TypeOK
  BY DEF IInv
<1> QED  BY <1>1, InvHolds, PTL

(* The sondes in the queues and the worker's hands, in order.              *)
LEMMA UnderwayForm ==
  ASSUME TypeOK, Queues
  PROVE  IsInjective(Underway) /\ ToSet(Underway) = inFlight
<1> DEFINE b == IF fetching = Nobody THEN <<>> ELSE <<fetching.serial>>
           c == [i \in 1..Len(results) |-> results[i].serial]
           R == [serial: Serials, upto: 0..MaxTime \cup {None}]
<1>1. b \in Seq(Serials) /\ Distinct(b) /\ ToSet(b) = Being
  <2>1. CASE fetching = Nobody
    BY <2>1 DEF Distinct, ToSet, Being
  <2>2. CASE fetching # Nobody
    <3>1. fetching.serial \in Serials
      BY <2>2 DEF TypeOK
    <3>2. b = <<fetching.serial>> /\ Being = {fetching.serial}
      BY <2>2 DEF Being
    <3>3. Len(b) = 1 /\ b[1] = fetching.serial /\ DOMAIN b = 1..1 /\ b \in Seq(Serials)
      BY <3>1, <3>2
    <3> HIDE DEF b
    <3>4. ToSet(b) = {b[1]}
      BY <3>3 DEF ToSet
    <3> QED  BY <3>2, <3>3, <3>4 DEF Distinct
  <2> QED  BY <2>1, <2>2
<1>2. results \in Seq(R) /\ Len(results) \in Nat
  BY DEF TypeOK
<1>3. \A i \in 1..Len(results) : results[i] \in R /\ results[i].serial \in Serials
  <2> SUFFICES ASSUME NEW i \in 1..Len(results)
               PROVE  results[i] \in R /\ results[i].serial \in Serials
    OBVIOUS
  <2>1. results[i] \in R
    <3> HIDE DEF R
    <3> QED  BY <1>2
  <2> QED  BY <2>1
<1>4. c \in Seq(Serials) /\ Len(c) = Len(results) /\ \A i \in 1..Len(c) : c[i] = results[i].serial
  BY <1>2, <1>3
<1>5. ToSet(results) = {results[i] : i \in 1..Len(results)}
  <2>1. DOMAIN results = 1..Len(results)
    <3> HIDE DEF R
    <3> QED  BY <1>2
  <2> QED  BY <2>1 DEF ToSet
<1> HIDE DEF b, c, R
<1>6. Distinct(c)
  BY <1>4 DEF Distinct, Queues
<1>7. ToSet(c) = Answered
  <2>1. DOMAIN c = 1..Len(c)
    BY <1>4
  <2>2. ToSet(c) = {c[i] : i \in 1..Len(c)}
    BY <2>1 DEF ToSet
  <2> QED  BY <1>4, <1>5, <2>2 DEF Answered
<1>8. pending \in Seq(Serials)
  BY DEF TypeOK
<1> DEFINE d == pending \o b
<1>9. d \in Seq(Serials) /\ ToSet(d) = ToSet(pending) \cup Being /\ Distinct(d)
  BY <1>1, <1>8, ConcatDistinct DEF Queues
<1>10. Underway = d \o c
  BY DEF Underway, b, c
<1> HIDE DEF d
<1>11. ToSet(d) \cap ToSet(c) = {}
  BY <1>7, <1>9 DEF Queues
<1>12. /\ Underway \in Seq(Serials)
       /\ ToSet(Underway) = ToSet(d) \cup ToSet(c) /\ Distinct(Underway)
  BY <1>4, <1>6, <1>9, <1>10, <1>11, ConcatDistinct
<1>13. ToSet(Underway) = inFlight
  BY <1>7, <1>9, <1>12 DEF Queues
<1>14. DOMAIN Underway = 1..Len(Underway)
  BY <1>12
<1> QED  BY <1>12, <1>13, <1>14 DEF IsInjective, Distinct

(* OneFetchEach: the consumer's bookkeeping and the fetcher's agree; no    *)
(* sonde is fetched twice at once, and none is buffered for or held        *)
(* without a fetch that will end it.                                       *)
THEOREM OneFetch == Spec => []OneFetchEach
<1>1. IInv => OneFetchEach
  BY UnderwayForm DEF IInv, OneFetchEach, Queues, Holds
<1> QED  BY <1>1, InvHolds, PTL

(* GhostsAreReleased: after a tick, a flight in mid-air that is silent for *)
(* longer than the timeout has a recovery that is not overdue.             *)
THEOREM GhostsLetGo == Spec => []GhostsAreReleased
<1>1. IInv => GhostsAreReleased
  BY DEF IInv
<1> QED  BY <1>1, InvHolds, PTL

(* RebuildKeepsHeard: no step takes a flight back behind a frame already   *)
(* heard of it.                                                            *)
LEMMA KeepsHeardStep ==
  ASSUME IInv, [Next]_vars, NEW s \in Serials \ skipped,
         flight[s] # NoFlight, flight'[s] # NoFlight
  PROVE  flight'[s].last >= flight[s].last
<1>1. flight[s] \in Flight /\ flight[s].last \in Int /\ flight[s].last <= now
  BY FlightFields DEF IInv, TypeOK, Aired
<1>2. CASE flight'[s] = flight[s]
  BY <1>1, <1>2
<1>3. CASE \E t \in Serials : HearNew(t)
  <2>1. PICK t \in Serials : HearNew(t)
    BY <1>3
  <2>2. t # s /\ flight' = [flight EXCEPT ![t] = [state |-> "air", first |-> now, last |-> now]]
    BY <2>1 DEF HearNew
  <2>3. flight'[s] = flight[s]
    BY <2>2 DEF IInv, TypeOK
  <2> QED  BY <1>1, <2>3
<1>4. CASE \E t \in Serials : \E resumed \in BOOLEAN : HearTracked(t, resumed)
  <2>1. flight'[s].last = now \/ flight'[s] = flight[s]
    BY <1>4, HearTrackedForm DEF IInv
  <2>2. now \in Int
    BY DEF IInv, TypeOK
  <2> QED  BY <1>1, <2>1, <2>2
<1>5. CASE ApplyBackfills
  <2>1. flight'[s] = flight[s] \/ flight'[s].last >= flight[s].last
    BY <1>5, AppliedForm
  <2> QED  BY <1>1, <2>1
<1>6. CASE \E outside \in Outsides : \E q \in Accepted(Recoveries(outside)) : Tick(outside, q)
  <2>1. flight'[s].last = flight[s].last
    BY <1>6, TickForm
  <2> QED  BY <1>1, <2>1
<1>7. CASE Take
  BY <1>1, <1>7 DEF Take
<1>8. CASE fetching # Nobody /\ \E upto \in {None} \cup fetching.asked..now : Return(upto)
  BY <1>1, <1>8 DEF Return
<1>9. CASE Pass
  BY <1>1, <1>9 DEF Pass
<1>10. CASE Restart
  <2>1. flight'[s] \in {flight[s], NoFlight}
    BY <1>10 DEF Restart
  <2> QED  BY <1>1, <2>1
<1>11. CASE UNCHANGED vars
  BY <1>1, <1>11 DEF vars
<1> QED  BY <1>3, <1>4, <1>5, <1>6, <1>7, <1>8, <1>9, <1>10, <1>11 DEF Next

THEOREM RebuildSafe == Spec => RebuildKeepsHeard
<1>1. IInv /\ [Next]_vars =>
        [\A s \in Serials \ skipped :
           flight[s] # NoFlight /\ flight'[s] # NoFlight => flight'[s].last >= flight[s].last]_vars
  BY KeepsHeardStep
<1> QED  BY <1>1, InvHolds, PTL DEF Spec, RebuildKeepsHeard

(* SweepWaitsForHistory: only a tick closes a flight out, and only one     *)
(* whose recovery it has asked for and no longer waits for.                *)
LEMMA SweepWaitsStep ==
  ASSUME IInv, IInv', [Next]_vars, NEW s \in Serials, InAir(s), flight'[s].state = "closed"
  PROVE  /\ s \in recovered' \cup inFlight'
         /\ asked'[s] # None => now - asked'[s] > HoldMax
<1>1. flight[s] \in Flight /\ flight'[s] # flight[s]
  BY DEF IInv, TypeOK, InAir, NoFlight
<1>2. CASE \E t \in Serials : HearNew(t)
  <2>1. PICK t \in Serials : HearNew(t)
    BY <1>2
  <2>2. flight[t] = NoFlight
        /\ flight' = [flight EXCEPT ![t] = [state |-> "air", first |-> now, last |-> now]]
    BY <2>1 DEF HearNew
  <2>3. t # s
    BY <1>1, <2>2, FlightFields
  <2>4. flight'[s] = flight[s]
    BY <2>2, <2>3 DEF IInv, TypeOK
  <2> QED  BY <1>1, <2>4
<1>3. CASE \E t \in Serials : \E resumed \in BOOLEAN : HearTracked(t, resumed)
  BY <1>1, <1>3, HearTrackedForm DEF IInv
<1>4. CASE ApplyBackfills
  BY <1>1, <1>4, AppliedForm
<1>5. CASE \E outside \in Outsides : \E q \in Accepted(Recoveries(outside)) : Tick(outside, q)
  <2>1. PICK outside \in Outsides : \E q \in Accepted(Recoveries(outside)) : Tick(outside, q)
    BY <1>5
  <2>2. PICK q \in Accepted(Recoveries(outside)) : Tick(outside, q)
    BY <2>1
  <2>3. Gap(s) > Lost /\ hold'[s] = None /\ s \notin outside
    BY <2>2, TickForm
  <2>4. /\ recovered' = recovered \cup Recoveries(outside) /\ now' = now
        /\ inFlight' = inFlight \cup ToSet(q)
    BY <2>2 DEF Tick, Request
  <2>5. s \in recovered' \cup inFlight'
    <3>1. Gap(s) >= Silent
      <4>1. flight[s].last \in Int /\ now \in Int
        BY <1>1, FlightFields DEF IInv, TypeOK
      <4> QED  BY <2>3, <4>1, Parameters DEF Gap
    <3>2. s \in buffered \/ s \in recovered \/ s \in Recoveries(outside)
      BY <2>3, <3>1 DEF Recoveries, AsksFor
    <3> QED  BY <2>4, <3>2 DEF IInv, Queues
  <2>6. asked'[s] # None => now - asked'[s] > HoldMax
    <3>1. Holds'
      BY DEF IInv
    <3> QED  BY <2>3, <2>4, <3>1 DEF Holds
  <2> QED  BY <2>5, <2>6
<1>6. CASE Take
  BY <1>1, <1>6 DEF Take
<1>7. CASE fetching # Nobody /\ \E upto \in {None} \cup fetching.asked..now : Return(upto)
  BY <1>1, <1>7 DEF Return
<1>8. CASE Pass
  BY <1>1, <1>8 DEF Pass
<1>9. CASE Restart
  <2>1. flight'[s] \in {flight[s], NoFlight}
    BY <1>9 DEF Restart
  <2> QED  BY <1>1, <2>1 DEF NoFlight
<1>10. CASE UNCHANGED vars
  BY <1>1, <1>10 DEF vars
<1> QED  BY <1>2, <1>3, <1>4, <1>5, <1>6, <1>7, <1>8, <1>9, <1>10 DEF Next

THEOREM SweepWaits == Spec => SweepWaitsForHistory
<1>1. IInv /\ IInv' /\ [Next]_vars =>
        [\A s \in Serials : InAir(s) /\ flight'[s].state = "closed" =>
           /\ s \in recovered' \cup inFlight'
           /\ asked'[s] # None => now - asked'[s] > HoldMax]_vars
  BY SweepWaitsStep
<1> QED  BY <1>1, InvHolds, PTL DEF Spec, SweepWaitsForHistory
=============================================================================
