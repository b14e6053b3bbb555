---------------------------- MODULE PipelineProofs ----------------------------
(***************************************************************************)
(* Proofs about what lies before the tracker and behind it: for any queue, *)
(* batch, timers and stream, that a backlog silences no sonde; for any     *)
(* levels, speeds and bounds, that a published prediction is sound; and    *)
(* for any number of fetches, that a page left alone shows what the store  *)
(* holds.  At the end, that the joined specification implements each of    *)
(* its parts.                                                              *)
(***************************************************************************)
EXTENDS MCPipeline, ReorderBufferProofs, FiniteSetTheorems, SequenceTheorems

-----------------------------------------------------------------------------
(* The raw queue.                                                          *)

Ages == 0..Old \cup {Other}

(* Older frames are handled before newer ones.                             *)
Fifo ==
  /\ \A i, j \in 1..Len(raw) :
       i < j /\ raw[i] # Other /\ raw[j] # Other => raw[j] <= raw[i]
  /\ \A i \in 1..Len(raw) : raw[i] # Other => raw[i] <= silent

(* A frame sent since the queue last dropped one is queued, unless it, or  *)
(* a newer one, was handled.                                               *)
Waiting ==
  \A a \in 0..Timeout : a < Len(after) => silent <= a \/ \E i \in 1..Len(raw) : raw[i] = a

(* Behind it in the queue is all that came in after it.                    *)
Behind ==
  \A i \in 1..Len(raw) : raw[i] < Len(after) => after[raw[i] + 1] <= Len(raw) - i

QueueInv == IngestTypeOK /\ Fifo /\ Waiting /\ Behind /\ NotSilencedByBacklog

LEMMA MinOfTwo ==
  ASSUME NEW a \in Int, NEW b \in Int
  PROVE  Min({a, b}) = IF a <= b THEN a ELSE b
<1> DEFINE S == {a, b}
<1>1. \E x \in S : \A y \in S : x <= y
  OBVIOUS
<1>2. Min(S) \in S /\ \A y \in S : Min(S) <= y
  <2> HIDE DEF S
  <2> QED  BY <1>1 DEF Min
<1> QED  BY <1>2

LEMMA ConcatForm ==
  ASSUME NEW S, NEW a \in Seq(S), NEW b \in Seq(S)
  PROVE  /\ a \o b \in Seq(S) /\ Len(a \o b) = Len(a) + Len(b)
         /\ \A i \in 1..Len(a) + Len(b) : (a \o b)[i] = IF i <= Len(a) THEN a[i] ELSE b[i - Len(a)]
<1>1. a \o b \in Seq(S) /\ Len(a \o b) = Len(a) + Len(b)
  BY ConcatProperties
<1>2. \A i \in 1..Len(a) + Len(b) : (a \o b)[i] = IF i <= Len(a) THEN a[i] ELSE b[i - Len(a)]
  OBVIOUS
<1> QED  BY <1>1, <1>2

LEMMA PowerOfTwo == ASSUME NEW k \in Nat PROVE 2^k \in Nat
<1> DEFINE S == 1..k
<1>1. IsFiniteSet(S) /\ Cardinality(S) = k
  BY FS_Interval
<1>2. IsFiniteSet(SUBSET S) /\ Cardinality(SUBSET S) = 2^Cardinality(S)
  BY <1>1, FS_SUBSET
<1>3. Cardinality(SUBSET S) \in Nat
  BY <1>2, FS_CardinalityType
<1> HIDE DEF S
<1> QED  BY <1>1, <1>2, <1>3

LEMMA QueueParameters ==
  /\ QueueMax \in Nat \ {0} /\ Batch \in Nat \ {0} /\ Timeout \in Nat \ {0}
  /\ TickEvery \in Nat \ {0} /\ Base \in Nat /\ MaxDelay \in Nat \ {0}
  /\ Shed \in Nat /\ MaxAttempt \in Nat /\ Others \subseteq Nat
  /\ Old = Timeout + 1 /\ Old \in Nat /\ Other = Old + 1 /\ Other \notin 0..Old
BY IngestAssumption DEF Old, Other

LEMMA AgedForm ==
  ASSUME NEW a \in 0..Old
  PROVE  Aged(a) = (IF a < Old THEN a + 1 ELSE Old) /\ Aged(a) \in 0..Old
BY MinOfTwo, QueueParameters DEF Aged

LEMMA SentForm ==
  ASSUME NEW n \in Nat
  PROVE  /\ Sent(n) \in Seq(Ages) /\ Len(Sent(n)) = n + 1
         /\ \A i \in 1..n + 1 : Sent(n)[i] \in {Other, 0}
         /\ Sent(n)[n + 1] = 0
<1> DEFINE o == [i \in 1..n |-> Other]
           z == <<0>>
           c == o \o z
<1>1. o \in Seq(Ages) /\ Len(o) = n /\ \A i \in 1..n : o[i] = Other
  BY DEF Ages
<1>2. z \in Seq(Ages) /\ Len(z) = 1 /\ z[1] = 0
  BY QueueParameters DEF Ages
<1> HIDE DEF o, z
<1>3. c \in Seq(Ages) /\ Len(c) = Len(o) + Len(z)
  BY <1>1, <1>2, ConcatForm
<1>4. \A i \in 1..Len(o) + Len(z) : c[i] = IF i <= Len(o) THEN o[i] ELSE z[i - Len(o)]
  BY <1>1, <1>2, ConcatForm
<1> HIDE DEF c
<1>5. \A i \in 1..n + 1 : c[i] \in {Other, 0}
  <2> SUFFICES ASSUME NEW i \in 1..n + 1 PROVE c[i] \in {Other, 0}
    OBVIOUS
  <2>1. CASE i <= n
    BY <1>1, <1>2, <1>4, <2>1
  <2>2. CASE i = n + 1
    BY <1>1, <1>2, <1>4, <2>2
  <2> QED  BY <2>1, <2>2
<1>6. c[n + 1] = 0
  BY <1>1, <1>2, <1>4
<1>7. Sent(n) = c
  BY DEF Sent, c, o, z
<1> QED  BY <1>1, <1>2, <1>3, <1>5, <1>6, <1>7

(* put_nowait() of some frames: those for which there is room, in order.   *)
LEMMA QueuedForm ==
  ASSUME NEW q \in Seq(Ages), NEW f \in Seq(Ages), Len(q) <= QueueMax
  PROVE  LET c == Queued(q, f)
         IN  /\ c \in Seq(Ages) /\ Len(q) <= Len(c) /\ Len(c) <= QueueMax
             /\ Len(c) <= Len(q) + Len(f)
             /\ Len(q) + Len(f) <= QueueMax => Len(c) = Len(q) + Len(f)
             /\ \A i \in 1..Len(q) : c[i] = q[i]
             /\ \A i \in 1..Len(c) : i > Len(q) => c[i] = f[i - Len(q)]
<1> DEFINE room == QueueMax - Len(q)
           k == Min({room, Len(f)})
           g == SubSeq(f, 1, k)
           c == q \o g
<1>1. k = (IF room <= Len(f) THEN room ELSE Len(f)) /\ k \in 0..Len(f) /\ room \in Nat
  <2>1. Len(q) \in Nat /\ Len(f) \in Nat /\ room \in Nat
    BY QueueParameters
  <2> QED  BY <2>1, MinOfTwo
<1> HIDE DEF k
<1>2. g \in Seq(Ages) /\ Len(g) = k /\ \A i \in 1..k : g[i] = f[i]
  BY <1>1
<1> HIDE DEF g
<1>3. c \in Seq(Ages) /\ Len(c) = Len(q) + k
  BY <1>2, ConcatForm
<1>4. \A i \in 1..Len(q) + Len(g) : c[i] = IF i <= Len(q) THEN q[i] ELSE g[i - Len(q)]
  BY <1>2, ConcatForm
<1> HIDE DEF c
<1>5. \A i \in 1..Len(q) : c[i] = q[i]
  BY <1>1, <1>2, <1>4
<1>6. ASSUME NEW i \in 1..Len(c), i > Len(q) PROVE c[i] = f[i - Len(q)]
  <2>1. i - Len(q) \in 1..k /\ c[i] = g[i - Len(q)]
    BY <1>1, <1>2, <1>3, <1>4, <1>6
  <2> QED  BY <1>2, <2>1
<1>7. Len(q) <= Len(c) /\ Len(c) <= QueueMax /\ Len(c) <= Len(q) + Len(f)
      /\ (Len(q) + Len(f) <= QueueMax => Len(c) = Len(q) + Len(f))
  BY <1>1, <1>3, QueueParameters
<1>8. Queued(q, f) = c
  BY DEF Queued, c, g, k
<1> QED  BY <1>3, <1>5, <1>6, <1>7, <1>8

LEMMA QueueFields ==
  ASSUME IngestTypeOK
  PROVE  /\ raw \in Seq(Ages) /\ Len(raw) \in Nat /\ Len(raw) <= QueueMax
         /\ \A i \in 1..Len(raw) : raw[i] \in Ages
         /\ silent \in 0..Old /\ flood \in Nat
         /\ after \in Seq(Nat) /\ Len(after) \in 0..Timeout
         /\ \A k \in 1..Len(after) : after[k] \in Nat
<1>1. raw \in Seq(Ages)
  BY DEF IngestTypeOK, Ages
<1>2. Len(raw) \in Nat /\ \A i \in 1..Len(raw) : raw[i] \in Ages
  BY <1>1
<1>3. after \in Seq(Nat) /\ Len(after) <= Timeout
  BY DEF IngestTypeOK
<1>4. Len(after) \in Nat /\ \A k \in 1..Len(after) : after[k] \in Nat
  BY <1>3
<1>5. Len(after) \in 0..Timeout
  BY <1>3, <1>4, QueueParameters
<1> QED  BY <1>1, <1>2, <1>3, <1>4, <1>5 DEF IngestTypeOK

(* The count after each frame, one unit later.                             *)
LEMMA CountedForm ==
  ASSUME IngestTypeOK, NEW n \in Nat
  PROVE  LET c == Counted(n)
         IN  /\ c \in Seq(Nat) /\ Len(c) \in 0..Timeout /\ Len(c) <= Len(after) + 1
             /\ \A k \in 1..Len(c) : /\ k = 1 => c[k] = 0
                                     /\ k > 1 => /\ k - 1 \in 1..Len(after)
                                                 /\ c[k] = after[k - 1] + n + 1
<1> DEFINE m == Min({Len(after) + 1, Timeout})
           c == [k \in 1..m |-> IF k = 1 THEN 0 ELSE after[k - 1] + n + 1]
<1>1. /\ Len(after) \in 0..Timeout /\ \A k \in 1..Len(after) : after[k] \in Nat
  BY QueueFields
<1>2. m \in 0..Timeout /\ m <= Len(after) + 1
  BY <1>1, MinOfTwo, QueueParameters
<1>3. Counted(n) = c
  BY DEF Counted
<1> HIDE DEF m
<1>4. \A k \in 1..m : /\ (IF k = 1 THEN 0 ELSE after[k - 1] + n + 1) \in Nat
                      /\ k > 1 => k - 1 \in 1..Len(after)
  BY <1>1, <1>2, QueueParameters
<1>5. m \in Nat
  BY <1>2, QueueParameters
<1>6. c \in Seq(Nat) /\ Len(c) = m
  <2>1. c \in [1..m -> Nat]
    BY <1>4
  <2> HIDE DEF c
  <2>2. c \in Seq(Nat)
    BY <1>5, <2>1
  <2> QED  BY <1>5, <2>1, <2>2, LenProperties
<1>7. \A k \in 1..m : c[k] = IF k = 1 THEN 0 ELSE after[k - 1] + n + 1
  OBVIOUS
<1> HIDE DEF c
<1> QED  BY <1>2, <1>3, <1>4, <1>6, <1>7

(* What a unit of time makes of the queue.                                 *)
LEMMA PassForm ==
  ASSUME IngestTypeOK, NEW n \in Others, Pass(n)
  PROVE  /\ raw' \in Seq(Ages) /\ Len(raw') <= QueueMax /\ Len(raw) <= Len(raw')
         /\ \A i \in 1..Len(raw) : raw'[i] = IF raw[i] = Other THEN Other ELSE Aged(raw[i])
         /\ \A i \in 1..Len(raw') : i > Len(raw) => raw'[i] \in {Other, 0}
         /\ Enqueued(n) => Len(raw') = Len(raw) + n + 1 /\ raw'[Len(raw')] = 0
<1> DEFINE older == [i \in DOMAIN raw |-> IF raw[i] = Other THEN Other ELSE Aged(raw[i])]
<1>1. raw \in Seq(Ages) /\ DOMAIN raw = 1..Len(raw) /\ Len(raw) \in Nat /\ Len(raw) <= QueueMax
      /\ \A i \in 1..Len(raw) : raw[i] \in Ages
  BY QueueFields
<1>2. n \in Nat
  BY QueueParameters
<1>3. \A i \in 1..Len(raw) : (IF raw[i] = Other THEN Other ELSE Aged(raw[i])) \in Ages
  BY <1>1, AgedForm DEF Ages
<1>4. older \in Seq(Ages) /\ Len(older) = Len(raw)
      /\ \A i \in 1..Len(raw) : older[i] = IF raw[i] = Other THEN Other ELSE Aged(raw[i])
  BY <1>1, <1>3
<1>5. raw' = IF stream = 0 THEN Queued(older, Sent(n)) ELSE older
  BY DEF Pass
<1> HIDE DEF older
<1>6. CASE stream = 0
  <2> DEFINE f == Sent(n)
             c == Queued(older, f)
  <2>1. f \in Seq(Ages) /\ Len(f) = n + 1 /\ f[n + 1] = 0
        /\ (\A i \in 1..n + 1 : f[i] \in {Other, 0})
    BY <1>2, SentForm
  <2>2. raw' = c
    BY <1>5, <1>6
  <2> HIDE DEF f
  <2>3. /\ c \in Seq(Ages) /\ Len(older) <= Len(c) /\ Len(c) <= QueueMax
        /\ Len(c) <= Len(older) + Len(f)
        /\ Len(older) + Len(f) <= QueueMax => Len(c) = Len(older) + Len(f)
        /\ \A i \in 1..Len(older) : c[i] = older[i]
        /\ \A i \in 1..Len(c) : i > Len(older) => c[i] = f[i - Len(older)]
    BY <1>1, <1>4, <2>1, QueuedForm
  <2> HIDE DEF c
  <2>4. Len(c) \in Nat
    BY <2>3
  <2>5. \A i \in 1..Len(c) : i > Len(raw) => c[i] \in {Other, 0}
    <3> SUFFICES ASSUME NEW i \in 1..Len(c), i > Len(raw) PROVE c[i] \in {Other, 0}
      OBVIOUS
    <3>1. i - Len(raw) \in 1..n + 1
      BY <1>1, <1>2, <1>4, <2>1, <2>3, <2>4
    <3> QED  BY <1>4, <2>1, <2>3, <3>1
  <2>6. ASSUME Enqueued(n) PROVE Len(c) = Len(raw) + n + 1 /\ c[Len(c)] = 0
    <3>1. Len(older) + Len(f) <= QueueMax
      BY <1>1, <1>2, <1>4, <2>1, <2>6, QueueParameters DEF Enqueued
    <3>2. Len(c) = Len(raw) + n + 1
      BY <1>1, <1>2, <1>4, <2>1, <2>3, <3>1
    <3>3. c[Len(c)] = f[n + 1]
      <4>1. Len(c) \in 1..Len(c) /\ Len(c) > Len(older) /\ Len(c) - Len(older) = n + 1
        BY <1>1, <1>2, <1>4, <3>2
      <4> QED  BY <2>3, <4>1
    <3> QED  BY <2>1, <3>2, <3>3
  <2> QED  BY <1>4, <2>2, <2>3, <2>5, <2>6
<1>7. CASE stream # 0
  <2>1. raw' = older
    BY <1>5, <1>7
  <2>2. \A i \in 1..Len(older) : ~(i > Len(raw))
    BY <1>1, <1>4
  <2>3. ~Enqueued(n)
    BY <1>7 DEF Enqueued
  <2> QED  BY <1>1, <1>4, <2>1, <2>2, <2>3
<1> QED  BY <1>6, <1>7

LEMMA PassKeeps ==
  ASSUME QueueInv, NEW n \in Others, Pass(n)
  PROVE  QueueInv'
<1>1. /\ raw' \in Seq(Ages) /\ Len(raw') <= QueueMax /\ Len(raw) <= Len(raw')
      /\ \A i \in 1..Len(raw) : raw'[i] = IF raw[i] = Other THEN Other ELSE Aged(raw[i])
      /\ \A i \in 1..Len(raw') : i > Len(raw) => raw'[i] \in {Other, 0}
      /\ Enqueued(n) => Len(raw') = Len(raw) + n + 1 /\ raw'[Len(raw')] = 0
  BY PassForm DEF QueueInv
<1>2. /\ silent' = Aged(silent) /\ after' = IF Enqueued(n) THEN Counted(n) ELSE <<>>
      /\ stream' = IF stream > 0 THEN stream - 1 ELSE 0
      /\ sinceTick' = Min({sinceTick + 1, TickEvery})
      /\ UNCHANGED <<attempt, at, taken, gone, flood>>
  BY DEF Pass
<1>3. /\ raw \in Seq(Ages) /\ Len(raw) \in Nat /\ \A i \in 1..Len(raw) : raw[i] \in Ages
      /\ silent \in 0..Old /\ Len(after) \in 0..Timeout
  BY QueueFields DEF QueueInv
<1>4. Len(raw') \in Nat /\ n \in Nat
  BY <1>1, QueueParameters
<1>5. /\ silent' = (IF silent < Old THEN silent + 1 ELSE Old) /\ silent' \in 0..Old
  BY <1>2, <1>3, AgedForm
<1>5a. /\ after' \in Seq(Nat) /\ Len(after') \in 0..Timeout /\ Len(after') <= Len(after) + 1
       /\ Len(after') > 0 => Enqueued(n)
       /\ \A k \in 1..Len(after') : /\ k = 1 => after'[k] = 0
                                    /\ k > 1 => /\ k - 1 \in 1..Len(after)
                                                /\ after'[k] = after[k - 1] + n + 1
  <2>1. CASE Enqueued(n)
    BY <1>2, <1>4, <2>1, CountedForm DEF QueueInv
  <2>2. CASE ~Enqueued(n)
    <3>1. after' = <<>> /\ Len(after') = 0
      BY <1>2, <2>2
    <3> QED  BY <1>3, <3>1, QueueParameters
  <2> QED  BY <2>1, <2>2
<1>6. IngestTypeOK'
  <2>1. raw' \in Seq(0..Old \cup {Other})
    BY <1>1 DEF Ages
  <2>2. stream' \in 0..MaxDelay
    BY <1>2, QueueParameters DEF QueueInv, IngestTypeOK
  <2>3. sinceTick' \in 0..TickEvery
    BY <1>2, MinOfTwo, QueueParameters DEF QueueInv, IngestTypeOK
  <2> QED  BY <1>1, <1>2, <1>5, <1>5a, <2>1, <2>2, <2>3 DEF QueueInv, IngestTypeOK
<1>7. ASSUME NEW i \in 1..Len(raw)
      PROVE  /\ raw'[i] = IF raw[i] = Other THEN Other ELSE IF raw[i] < Old THEN raw[i] + 1 ELSE Old
             /\ raw'[i] # Other => raw[i] # Other /\ raw'[i] \in 0..Old
             /\ raw[i] \in Ages
  <2>1. CASE raw[i] = Other
    BY <1>1, <1>3, <2>1
  <2>2. CASE raw[i] # Other
    <3>1. raw[i] \in 0..Old
      BY <1>3, <2>2 DEF Ages
    <3> QED  BY <1>1, <1>3, <2>2, <3>1, AgedForm
  <2> QED  BY <2>1, <2>2
<1>8. Fifo'
  <2>1. ASSUME NEW i \in 1..Len(raw'), raw'[i] # Other PROVE raw'[i] <= silent'
    <3>1. CASE i \in 1..Len(raw)
      <4>1. raw[i] # Other /\ raw[i] \in 0..Old
            /\ raw'[i] = IF raw[i] < Old THEN raw[i] + 1 ELSE Old
        BY <1>7, <2>1, <3>1 DEF Ages
      <4>2. raw[i] <= silent
        BY <3>1, <4>1 DEF QueueInv, Fifo
      <4> QED  BY <1>3, <1>5, <4>1, <4>2, QueueParameters
    <3>2. CASE i \notin 1..Len(raw)
      <4>1. raw'[i] = 0
        BY <1>1, <1>3, <1>4, <2>1, <3>2
      <4> QED  BY <1>5, <4>1
    <3> QED  BY <3>1, <3>2
  <2>2. ASSUME NEW i \in 1..Len(raw'), NEW j \in 1..Len(raw'), i < j,
               raw'[i] # Other, raw'[j] # Other
        PROVE  raw'[j] <= raw'[i]
    <3>1. CASE j \in 1..Len(raw)
      <4>1. i \in 1..Len(raw)
        BY <1>3, <1>4, <2>2, <3>1
      <4>2. /\ raw[i] # Other /\ raw[i] \in 0..Old
            /\ raw'[i] = IF raw[i] < Old THEN raw[i] + 1 ELSE Old
            /\ raw[j] # Other /\ raw[j] \in 0..Old
            /\ raw'[j] = IF raw[j] < Old THEN raw[j] + 1 ELSE Old
        BY <1>7, <2>2, <3>1, <4>1 DEF Ages
      <4>3. raw[j] <= raw[i]
        BY <2>2, <3>1, <4>1, <4>2 DEF QueueInv, Fifo
      <4> QED  BY <4>2, <4>3, QueueParameters
    <3>2. CASE j \notin 1..Len(raw)
      <4>1. raw'[j] = 0
        BY <1>1, <1>3, <1>4, <2>2, <3>2
      <4>2. raw'[i] \in 0..Old
        <5>1. CASE i \in 1..Len(raw)
          BY <1>7, <2>2, <5>1
        <5>2. CASE i \notin 1..Len(raw)
          BY <1>1, <1>3, <1>4, <2>2, <5>2, QueueParameters
        <5> QED  BY <5>1, <5>2
      <4> QED  BY <4>1, <4>2
    <3> QED  BY <3>1, <3>2
  <2> QED  BY <2>1, <2>2 DEF Fifo
<1>9. Waiting'
  <2> SUFFICES ASSUME NEW a \in 0..Timeout, a < Len(after'), ~(silent' <= a)
               PROVE  \E i \in 1..Len(raw') : raw'[i] = a
    BY DEF Waiting
  <2>1. Enqueued(n)
    BY <1>5a
  <2>2. CASE a = 0
    <3>1. Len(raw') \in 1..Len(raw') /\ raw'[Len(raw')] = 0
      BY <1>1, <1>3, <1>4, <2>1
    <3> QED  BY <2>2, <3>1
  <2>3. CASE a > 0
    <3>1. a - 1 \in 0..Timeout /\ a - 1 < Len(after) /\ ~(silent <= a - 1)
      BY <1>3, <1>5, <1>5a, <2>3, QueueParameters
    <3>2. PICK i \in 1..Len(raw) : raw[i] = a - 1
      BY <3>1 DEF QueueInv, Waiting
    <3>3. raw[i] \in 0..Old /\ raw[i] < Old /\ raw[i] # Other
      BY <3>1, <3>2, QueueParameters
    <3>4. raw'[i] = a /\ i \in 1..Len(raw')
      BY <1>1, <1>3, <1>4, <1>7, <3>2, <3>3
    <3> QED  BY <3>4
  <2> QED  BY <2>2, <2>3
<1>10. Behind'
  <2> SUFFICES ASSUME NEW i \in 1..Len(raw'), raw'[i] < Len(after')
               PROVE  after'[raw'[i] + 1] <= Len(raw') - i
    BY DEF Behind
  <2>1. Enqueued(n) /\ raw'[i] \in Nat /\ raw'[i] # Other /\ raw'[i] + 1 \in 1..Len(after')
        /\ raw'[i] < Timeout
    <3>1. raw'[i] \in Ages
      BY <1>1
    <3> QED  BY <1>5a, <3>1, QueueParameters DEF Ages
  <2>2. CASE i \in 1..Len(raw)
    <3>1. /\ raw[i] # Other /\ raw[i] \in 0..Old
          /\ raw'[i] = IF raw[i] < Old THEN raw[i] + 1 ELSE Old
      BY <1>7, <2>1, <2>2 DEF Ages
    <3>2. raw'[i] = raw[i] + 1
      BY <2>1, <3>1, QueueParameters
    <3>3. raw[i] + 1 \in 1..Len(after) /\ after'[raw'[i] + 1] = after[raw[i] + 1] + n + 1
      <4> DEFINE k == raw'[i] + 1
      <4>1. k \in 1..Len(after') /\ k > 1 /\ k - 1 = raw[i] + 1
        BY <2>1, <3>1, <3>2
      <4> HIDE DEF k
      <4>2. k - 1 \in 1..Len(after) /\ after'[k] = after[k - 1] + n + 1
        BY <1>5a, <4>1
      <4> QED  BY <4>1, <4>2 DEF k
    <3>4. raw[i] < Len(after)
      BY <1>3, <3>1, <3>3
    <3>5. after[raw[i] + 1] <= Len(raw) - i
      BY <2>2, <3>4 DEF QueueInv, Behind
    <3>6. after[raw[i] + 1] \in Nat
      BY <3>3, QueueFields DEF QueueInv
    <3> DEFINE x == after[raw[i] + 1]
    <3>7. x \in Nat /\ x <= Len(raw) - i /\ after'[raw'[i] + 1] = x + n + 1
      BY <3>3, <3>5, <3>6
    <3> HIDE DEF x
    <3>8. Len(raw') = Len(raw) + n + 1
      BY <1>1, <2>1
    <3> QED  BY <1>3, <1>4, <2>2, <3>7, <3>8
  <2>3. CASE i \notin 1..Len(raw)
    <3>1. raw'[i] = 0
      BY <1>1, <1>3, <1>4, <2>1, <2>3
    <3>2. 1 \in 1..Len(after') /\ raw'[i] + 1 = 1
      BY <2>1, <3>1
    <3>3. after'[1] = 0
      BY <1>5a, <3>2
    <3>4. 0 <= Len(raw') - i
      BY <1>4
    <3> QED  BY <3>2, <3>3, <3>4
  <2> QED  BY <2>2, <2>3
<1>11. NotSilencedByBacklog'
  BY <1>2 DEF QueueInv, NotSilencedByBacklog
<1> QED  BY <1>6, <1>8, <1>9, <1>10, <1>11 DEF QueueInv

(* A frame is taken from the front of the queue.                           *)
LEMMA TakeKeeps ==
  ASSUME QueueInv, Take
  PROVE  QueueInv'
<1> DEFINE f == Head(raw)
<1>1. /\ at = "get" /\ raw # <<>> /\ taken < Batch /\ raw' = Tail(raw)
      /\ taken' = taken + 1 /\ sinceTick' = sinceTick /\ at' = "get"
      /\ stream' = stream /\ attempt' = attempt /\ after' = after
      /\ flood' = flood
      /\ IF f = Other THEN silent' = silent /\ gone' = gone
                      ELSE silent' = f /\ gone' = FALSE
  BY DEF Take, Handle, Loop
<1>2. /\ raw \in Seq(Ages) /\ Len(raw) \in Nat /\ Len(raw) <= QueueMax
      /\ \A i \in 1..Len(raw) : raw[i] \in Ages
      /\ silent \in 0..Old
  BY QueueFields DEF QueueInv
<1>3. /\ Len(raw) \in Nat \ {0} /\ f = raw[1] /\ f \in Ages
      /\ raw' \in Seq(Ages) /\ Len(raw') = Len(raw) - 1
      /\ \A i \in 1..Len(raw') : raw'[i] = raw[i + 1] /\ i + 1 \in 1..Len(raw)
  <2>1. /\ Len(raw) \in Nat \ {0} /\ f = raw[1] /\ f \in Ages
        /\ Tail(raw) \in Seq(Ages) /\ Len(Tail(raw)) = Len(raw) - 1
        /\ \A i \in 1..Len(Tail(raw)) : Tail(raw)[i] = raw[i + 1]
    BY <1>1, <1>2, HeadTailProperties
  <2> HIDE DEF f
  <2> QED  BY <1>1, <2>1
<1> HIDE DEF f
<1>4. /\ f # Other => f \in 0..Old /\ f <= silent
      /\ silent' \in 0..Old /\ silent' <= silent
  <2>1. f # Other => f \in 0..Old /\ f <= silent
    BY <1>3 DEF Ages, QueueInv, Fifo
  <2> QED  BY <1>1, <1>2, <2>1
<1>5. IngestTypeOK'
  <2>1. raw' \in Seq(0..Old \cup {Other})
    BY <1>3 DEF Ages
  <2>2. taken' \in 0..Batch
    BY <1>1, QueueParameters DEF QueueInv, IngestTypeOK
  <2>3. Len(raw') <= QueueMax
    BY <1>2, <1>3, QueueParameters
  <2>4. gone' \in BOOLEAN
    BY <1>1 DEF QueueInv, IngestTypeOK
  <2> QED  BY <1>1, <1>4, <2>1, <2>2, <2>3, <2>4 DEF QueueInv, IngestTypeOK
<1>6. Fifo'
  <2>1. ASSUME NEW i \in 1..Len(raw'), raw'[i] # Other PROVE raw'[i] <= silent'
    <3>1. raw'[i] = raw[i + 1] /\ i + 1 \in 1..Len(raw) /\ 1 \in 1..Len(raw) /\ 1 < i + 1
      BY <1>3
    <3>2. CASE f = Other
      BY <1>1, <2>1, <3>1, <3>2 DEF QueueInv, Fifo
    <3>3. CASE f # Other
      BY <1>1, <1>3, <2>1, <3>1, <3>3 DEF QueueInv, Fifo
    <3> QED  BY <3>2, <3>3
  <2>2. ASSUME NEW i \in 1..Len(raw'), NEW j \in 1..Len(raw'), i < j,
               raw'[i] # Other, raw'[j] # Other
        PROVE  raw'[j] <= raw'[i]
    <3>1. i + 1 \in 1..Len(raw) /\ j + 1 \in 1..Len(raw) /\ i + 1 < j + 1
      BY <1>3, <2>2
    <3> QED  BY <1>3, <2>2, <3>1 DEF QueueInv, Fifo
  <2> QED  BY <2>1, <2>2 DEF Fifo
<1>7. Waiting'
  <2> SUFFICES ASSUME NEW a \in 0..Timeout, a < Len(after), ~(silent' <= a)
               PROVE  \E i \in 1..Len(raw') : raw'[i] = a
    BY <1>1 DEF Waiting
  <2>1. ~(silent <= a)
    BY <1>2, <1>4
  <2>2. PICK i \in 1..Len(raw) : raw[i] = a
    BY <2>1 DEF QueueInv, Waiting
  <2>3. a # Other
    BY QueueParameters
  <2>4. i # 1
    BY <1>1, <1>3, <2>2, <2>3
  <2>5. i - 1 \in 1..Len(raw') /\ raw'[i - 1] = raw[i]
    BY <1>3, <2>4
  <2> QED  BY <2>2, <2>5
<1>8. Behind'
  <2> SUFFICES ASSUME NEW i \in 1..Len(raw'), raw'[i] < Len(after)
               PROVE  after[raw'[i] + 1] <= Len(raw') - i
    BY <1>1 DEF Behind
  <2>1. after[raw[i + 1] + 1] <= Len(raw) - (i + 1)
    BY <1>3 DEF QueueInv, Behind
  <2>2. Len(raw') - i = Len(raw) - (i + 1)
    BY <1>3
  <2> QED  BY <1>3, <2>1, <2>2
<1>9. NotSilencedByBacklog'
  BY <1>1 DEF QueueInv, NotSilencedByBacklog
<1> QED  BY <1>5, <1>6, <1>7, <1>8, <1>9 DEF QueueInv

(* Steps that leave the queue and what was heard of the sonde alone.       *)
LEMMA TimersKeep ==
  ASSUME QueueInv, IngestTypeOK', UNCHANGED <<raw, silent, gone, after, flood>>
  PROVE  QueueInv'
BY DEF QueueInv, Fifo, Waiting, Behind, NotSilencedByBacklog

LEMMA DelayForm ==
  ASSUME NEW k \in Nat
  PROVE  Delay(k) \in 0..MaxDelay
<1>1. 2^k \in Nat
  BY PowerOfTwo
<1> DEFINE p == 2^k
<1>2. p \in Nat /\ Delay(k) = Min({MaxDelay, Base * p})
  BY <1>1 DEF Delay
<1> HIDE DEF p
<1>3. Base * p \in Nat
  BY <1>2, QueueParameters
<1> DEFINE d == Base * p
<1>4. d \in Nat /\ Delay(k) = Min({MaxDelay, d})
  BY <1>2, <1>3
<1> HIDE DEF d
<1> QED  BY <1>4, MinOfTwo, QueueParameters

(* All that came in after the sonde's frame of a timeout ago is queued     *)
(* behind it when the sweep runs, and that is no more than is tolerated.   *)
LEMMA SweepKeeps ==
  ASSUME QueueInv, Tick
  PROVE  QueueInv'
<1>1. /\ sinceTick' = 0 /\ at' = "get"
      /\ UNCHANGED <<raw, taken, silent, stream, attempt, after>>
      /\ \/ UNCHANGED <<gone, flood>>
         \/ Len(raw) <= Shed /\ silent > Timeout /\ gone' = TRUE /\ flood' = Flood
  BY DEF Tick, Loop, CaughtUp, Sweep
<1>2. sinceTick' \in 0..TickEvery
  BY <1>1, QueueParameters
<1>3. CASE UNCHANGED <<gone, flood>>
  <2>1. IngestTypeOK'
    BY <1>1, <1>2, <1>3 DEF QueueInv, IngestTypeOK
  <2> QED  BY <1>1, <1>3, <2>1, TimersKeep
<1>4. CASE Len(raw) <= Shed /\ silent > Timeout /\ gone' = TRUE /\ flood' = Flood
  <2>1. flood' \in Nat /\ flood' <= Shed
    <3>1. CASE Len(after) # Timeout
      <4>1. flood' = 0
        BY <1>4, <3>1 DEF Flood
      <4> QED  BY <4>1, QueueParameters
    <3>2. CASE Len(after) = Timeout
      <4> DEFINE a == Timeout - 1
                 x == after[Timeout]
      <4>1. a \in 0..Timeout /\ a < Len(after) /\ ~(silent <= a) /\ a + 1 = Timeout
            /\ Timeout \in 1..Len(after)
        BY <1>4, <3>2, QueueParameters, QueueFields DEF QueueInv
      <4>2. PICK i \in 1..Len(raw) : raw[i] = a
        BY <4>1 DEF QueueInv, Waiting
      <4>3. x <= Len(raw) - i
        BY <4>1, <4>2 DEF QueueInv, Behind
      <4>4. x \in Nat /\ Len(raw) \in Nat
        BY <4>1, QueueFields DEF QueueInv
      <4>5. flood' = x + 1
        BY <1>4, <3>2 DEF Flood
      <4> HIDE DEF a, x
      <4> QED  BY <1>4, <4>2, <4>3, <4>4, <4>5, QueueParameters
    <3> QED  BY <3>1, <3>2
  <2>2. IngestTypeOK'
    BY <1>1, <1>2, <1>4, <2>1 DEF QueueInv, IngestTypeOK
  <2> QED  BY <1>1, <1>4, <2>1, <2>2 DEF QueueInv, Fifo, Waiting, Behind, NotSilencedByBacklog
<1> QED  BY <1>1, <1>3, <1>4

LEMMA QueueInit == IngestInit => QueueInv
<1> SUFFICES ASSUME IngestInit PROVE QueueInv
  OBVIOUS
<1>1. raw = <<>> /\ Len(raw) = 0 /\ after = <<>> /\ Len(after) = 0 /\ flood = 0
      /\ silent = Old
  BY DEF IngestInit
<1>2. IngestTypeOK
  BY <1>1, QueueParameters DEF IngestInit, IngestTypeOK
<1>3. Fifo /\ Waiting /\ Behind /\ NotSilencedByBacklog
  BY <1>1, QueueParameters DEF Fifo, Waiting, Behind, NotSilencedByBacklog
<1> QED  BY <1>2, <1>3 DEF QueueInv

LEMMA QueueStep == QueueInv /\ [IngestNext]_ingestVars => QueueInv'
<1> SUFFICES ASSUME QueueInv, [IngestNext]_ingestVars PROVE QueueInv'
  OBVIOUS
<1>1. CASE \E n \in Others : Pass(n)
  BY <1>1, PassKeeps
<1>2. CASE StreamFails
  <2>1. stream' \in 0..MaxDelay
    BY <1>2, DelayForm DEF StreamFails
  <2>2. attempt' \in 0..MaxAttempt
    BY <1>2, MinOfTwo, QueueParameters DEF StreamFails
  <2>3. IngestTypeOK'
    BY <1>2, <2>1, <2>2 DEF StreamFails, QueueInv, IngestTypeOK
  <2> QED  BY <1>2, <2>3, TimersKeep DEF StreamFails
<1>3. CASE ConnectFails
  <2>1. attempt \in 0..MaxAttempt
    BY DEF QueueInv, IngestTypeOK
  <2>2. stream' \in 0..MaxDelay
    <3>1. attempt \in Nat
      BY <2>1, QueueParameters
    <3> QED  BY <1>3, <3>1, DelayForm DEF ConnectFails
  <2>3. attempt' \in 0..MaxAttempt
    BY <1>3, <2>1, MinOfTwo, QueueParameters DEF ConnectFails
  <2>4. IngestTypeOK'
    BY <1>3, <2>2, <2>3 DEF ConnectFails, QueueInv, IngestTypeOK
  <2> QED  BY <1>3, <2>4, TimersKeep DEF ConnectFails
<1>4. CASE Take
  BY <1>4, TakeKeeps
<1>5. CASE Drained
  <2>1. IngestTypeOK'
    BY <1>5, QueueParameters DEF Drained, Loop, QueueInv, IngestTypeOK
  <2> QED  BY <1>5, <2>1, TimersKeep DEF Drained, Loop
<1>6. CASE Tick
  BY <1>6, SweepKeeps
<1>7. CASE NoTick
  <2>1. IngestTypeOK'
    BY <1>7 DEF NoTick, Loop, QueueInv, IngestTypeOK
  <2> QED  BY <1>7, <2>1, TimersKeep DEF NoTick, Loop
<1>8. CASE Restart
  <2>1. /\ raw' = <<>> /\ after' = <<>> /\ stream' = 0 /\ attempt' = 0 /\ at' = "get"
        /\ taken' = 0 /\ sinceTick' = TickEvery /\ UNCHANGED <<silent, gone, flood>>
    BY <1>8 DEF Restart
  <2>2. Len(raw') = 0 /\ Len(after') = 0
    BY <2>1
  <2>3. IngestTypeOK'
    BY <2>1, <2>2, QueueParameters DEF QueueInv, IngestTypeOK
  <2>4. Fifo' /\ Waiting' /\ Behind' /\ NotSilencedByBacklog'
    BY <2>1, <2>2 DEF QueueInv, Fifo, Waiting, Behind, NotSilencedByBacklog
  <2> QED  BY <2>3, <2>4 DEF QueueInv
<1>9. CASE UNCHANGED ingestVars
  <2>1. IngestTypeOK'
    BY <1>9 DEF ingestVars, QueueInv, IngestTypeOK
  <2> QED  BY <1>9, <2>1, TimersKeep DEF ingestVars
<1> QED  BY <1>1, <1>2, <1>3, <1>4, <1>5, <1>6, <1>7, <1>8, <1>9 DEF IngestNext

LEMMA QueueHolds == IngestSpec => []QueueInv
BY QueueInit, QueueStep, PTL DEF IngestSpec

(* IngestTypeOK: the raw queue never holds more than its capacity, and the *)
(* delay between two attempts to connect keeps within its maximum.         *)
THEOREM IngestTypeCorrect == IngestSpec => []IngestTypeOK
<1>1. QueueInv => IngestTypeOK
  BY DEF QueueInv
<1> QED  BY <1>1, QueueHolds, PTL

(* NotSilencedByBacklog: when the sweep closes a sonde whose frames were   *)
(* all put in the queue for a whole timeout, no more frames, of all sondes *)
(* together, have come in since its frame of that long ago than are        *)
(* tolerated as a backlog: at any rate of the stream.                      *)
THEOREM BacklogIsNoSilence == IngestSpec => []NotSilencedByBacklog
<1>1. QueueInv => NotSilencedByBacklog
  BY DEF QueueInv
<1> QED  BY <1>1, QueueHolds, PTL

-----------------------------------------------------------------------------
(* The page.                                                               *)

Names == {"flights", "accuracy", "alerts", "subscribers"}
Jobs == {None, "path", "truth", "retract"}
Cells == Content \cup {"air", "down"}
Tabled == [row: {None, "air", "down"}, track: Content, path: Content, pred: Content,
           truth: Content, sub: Content, alert: Content]
Fetch == [got: Seq(Cells), late: BOOLEAN]

PageTyped ==
  /\ view \in Views /\ db \in Tabled /\ job \in Jobs
  /\ up \in BOOLEAN /\ open \in BOOLEAN /\ flawed \in BOOLEAN
  /\ bells \subseteq Names
  /\ fetches \in Seq(Fetch) /\ Len(fetches) <= MaxFetches
  /\ \A i \in 1..Len(fetches) : Len(fetches[i].got) <= Len(Queries(view))
  /\ page \in Seq(Cells) /\ Len(page) \in {0, Len(Queries(view))}
  /\ writes \in 0..MaxWrites
  /\ deaf \in BOOLEAN /\ (deaf => view = "history")

(* A flight in the air has no landing, but for one to be retracted.        *)
Fits(d, j) ==
  /\ InTheAir(d) /\ j # "retract" => d.truth = None
  /\ d.row = None => d.truth = None
  /\ j = "truth" => IsDown(d)
Landings == Fits(db, job)

(* Whatever began before an overtaken fetch is overtaken as well.          *)
Overtaken ==
  \A i, j \in 1..Len(fetches) : i < j /\ fetches[j].late => fetches[i].late

(* The answers of a fetch so far are what the store would answer now, but  *)
(* for predictions of a flight that has no landing to be scored.           *)
Unscored(k, d) == view = "accuracy" /\ k = 2 /\ d.truth = None
Clean(f, d) ==
  \A k \in 1..Len(f.got) : f.got[k] = Answer(Queries(view)[k], d) \/ Unscored(k, d)

(* With nothing on its way to the page, its youngest fetch will bring what *)
(* the store holds; or no younger one than the last shown is running, and  *)
(* that one brought it.                                                    *)
Newest == fetches[Len(fetches)]
Settled == fetches = <<>> \/ Newest.late
UpToDate ==
  up /\ open /\ bells = {} /\ ~deaf =>
    IF Settled THEN flawed \/ page = Fresh(view, db) ELSE Clean(Newest, db)

PageInv == PageTyped /\ Landings /\ Overtaken /\ UpToDate

LEMMA PageParameters ==
  /\ Views \subseteq {"map", "flights", "accuracy", "history", "alerts"}
  /\ MaxFetches \in Nat /\ MaxFetches > 0 /\ MaxWrites \in Nat /\ None \in Content
BY DashboardAssumption DEF Content

LEMMA RecordFields ==
  ASSUME NEW d \in Tabled
  PROVE  /\ d.row \in {None, "air", "down"}
         /\ d.track \in Content /\ d.path \in Content /\ d.pred \in Content
         /\ d.truth \in Content /\ d.sub \in Content /\ d.alert \in Content
BY DEF Tabled

Questions == {"rows", "flight", "tracks", "paths", "latest", "series", "landings", "points",
              "subs", "items", "total"}

LEMMA QuestionsForm ==
  ASSUME NEW v \in Views
  PROVE  /\ Queries(v) \in Seq(Questions) /\ Len(Queries(v)) \in Nat \ {0}
         /\ Len(Queries(v)) >= 2
         /\ v = "history" => Len(Queries(v)) = 4 /\ Queries(v)[1] = "flight"
              /\ Queries(v)[2] = "series" /\ Queries(v)[3] = "landings" /\ Queries(v)[4] = "points"
         /\ v = "accuracy" => Len(Queries(v)) = 2 /\ Queries(v)[1] = "landings"
              /\ Queries(v)[2] = "series"
         /\ v = "flights" => Len(Queries(v)) = 2 /\ Queries(v)[1] = "rows"
              /\ Queries(v)[2] = "series"
         /\ v = "alerts" => Len(Queries(v)) = 2 /\ Queries(v)[1] = "items"
              /\ Queries(v)[2] = "total"
<1>1. v \in {"map", "flights", "accuracy", "history", "alerts"}
  BY PageParameters
<1>2. CASE v = "map"
  <2>1. Queries(v) = MapData
    BY <1>2 DEF Queries
  <2>2. MapData \in Seq(Questions) /\ Len(MapData) = 6
    BY DEF MapData, Questions
  <2> QED  BY <1>2, <2>1, <2>2
<1>3. CASE v = "flights"
  <2>1. Queries(v) = FlightList
    BY <1>3 DEF Queries
  <2>2. FlightList \in Seq(Questions) /\ Len(FlightList) = 2
        /\ FlightList[1] = "rows" /\ FlightList[2] = "series"
    BY DEF FlightList, Questions
  <2> QED  BY <1>3, <2>1, <2>2
<1>4. CASE v = "accuracy"
  <2>1. Queries(v) = Accuracy
    BY <1>4 DEF Queries
  <2>2. Accuracy \in Seq(Questions) /\ Len(Accuracy) = 2
        /\ Accuracy[1] = "landings" /\ Accuracy[2] = "series"
    BY DEF Accuracy, Questions
  <2> QED  BY <1>4, <2>1, <2>2
<1>5. CASE v = "history"
  <2>1. Queries(v) = FlightHistory
    BY <1>5 DEF Queries
  <2>2. FlightHistory \in Seq(Questions) /\ Len(FlightHistory) = 4
        /\ FlightHistory[1] = "flight" /\ FlightHistory[2] = "series"
        /\ FlightHistory[3] = "landings" /\ FlightHistory[4] = "points"
    BY DEF FlightHistory, Questions
  <2> QED  BY <1>5, <2>1, <2>2
<1>6. CASE v = "alerts"
  <2>1. Queries(v) = AlertPage
    BY <1>6 DEF Queries
  <2>2. AlertPage \in Seq(Questions) /\ Len(AlertPage) = 2
        /\ AlertPage[1] = "items" /\ AlertPage[2] = "total"
    BY DEF AlertPage, Questions
  <2> QED  BY <1>6, <2>1, <2>2
<1> QED  BY <1>1, <1>2, <1>3, <1>4, <1>5, <1>6

LEMMA AnswerForm ==
  ASSUME NEW d \in Tabled, NEW q \in Questions
  PROVE  Answer(q, d) \in Cells
<1>1. /\ d.row \in Cells /\ d.track \in Cells /\ d.path \in Cells /\ d.pred \in Cells
      /\ d.truth \in Cells /\ d.sub \in Cells /\ d.alert \in Cells /\ None \in Cells
  BY RecordFields, PageParameters DEF Cells
<1>2. Joined(d, "track") \in Cells /\ Joined(d, "path") \in Cells /\ Joined(d, "pred") \in Cells
  BY <1>1 DEF Joined
<1> QED  BY <1>1, <1>2 DEF Answer, Questions

(* What a view shows of a full set of answers.                             *)
LEMMA ShownForm ==
  ASSUME NEW v \in Views, NEW a \in Seq(Cells), Len(a) = Len(Queries(v))
  PROVE  Shown(v, a) \in Seq(Cells) /\ Len(Shown(v, a)) \in {0, Len(Queries(v))}
<1>1. <<>> \in Seq(Cells) /\ Len(<<>>) = 0
  OBVIOUS
<1>2. CASE v = "history"
  <2> DEFINE c == IF a[1] = "down" THEN a[4] ELSE None
  <2>1. Len(Queries(v)) = 4
    BY <1>2, QuestionsForm
  <2>2. a[1] \in Cells /\ a[2] \in Cells /\ a[3] \in Cells /\ a[4] \in Cells /\ None \in Cells
    BY <2>1, PageParameters DEF Cells
  <2>3. c \in Cells /\ Shown(v, a) = <<a[1], a[2], a[3], c>>
    BY <1>2, <2>2 DEF Shown
  <2> HIDE DEF c
  <2> QED  BY <2>1, <2>2, <2>3
<1>3. CASE v # "history"
  <2>1. Shown(v, a) \in {a, <<>>}
    BY <1>3 DEF Shown
  <2> QED  BY <1>1, <2>1
<1> QED  BY <1>2, <1>3

LEMMA FreshForm ==
  ASSUME NEW v \in Views, NEW d \in Tabled
  PROVE  LET a == [i \in DOMAIN Queries(v) |-> Answer(Queries(v)[i], d)]
         IN  /\ Fresh(v, d) = Shown(v, a)
             /\ a \in Seq(Cells) /\ Len(a) = Len(Queries(v))
             /\ \A k \in 1..Len(Queries(v)) : a[k] = Answer(Queries(v)[k], d)
             /\ Fresh(v, d) \in Seq(Cells) /\ Len(Fresh(v, d)) \in {0, Len(Queries(v))}
<1> DEFINE Q == Queries(v)
           a == [i \in DOMAIN Q |-> Answer(Q[i], d)]
<1>1. Q \in Seq(Questions) /\ Len(Q) \in Nat
  BY QuestionsForm
<1> HIDE DEF Q
<1>2. DOMAIN Q = 1..Len(Q) /\ \A i \in 1..Len(Q) : Q[i] \in Questions
  BY <1>1
<1>3. \A i \in 1..Len(Q) : Answer(Q[i], d) \in Cells
  BY <1>2, AnswerForm
<1>4. a \in Seq(Cells) /\ Len(a) = Len(Q) /\ \A k \in 1..Len(Q) : a[k] = Answer(Q[k], d)
  BY <1>1, <1>2, <1>3
<1>5. Fresh(v, d) = Shown(v, a)
  BY DEF Fresh, Q
<1> HIDE DEF a
<1>6. Shown(v, a) \in Seq(Cells) /\ Len(Shown(v, a)) \in {0, Len(Q)}
  BY <1>4, ShownForm DEF Q
<1> QED  BY <1>4, <1>5, <1>6 DEF Q, a

(* Answers that agree where the view shows them are shown alike.           *)
LEMMA SameShown ==
  ASSUME NEW v \in Views, NEW d \in Tabled, NEW a \in Seq(Cells), Len(a) = Len(Queries(v)),
         \A k \in 1..Len(a) : \/ a[k] = Answer(Queries(v)[k], d)
                              \/ v = "accuracy" /\ k = 2 /\ d.truth = None
  PROVE  Shown(v, a) = Fresh(v, d)
<1> DEFINE b == [i \in DOMAIN Queries(v) |-> Answer(Queries(v)[i], d)]
<1>1. /\ Fresh(v, d) = Shown(v, b) /\ b \in Seq(Cells) /\ Len(b) = Len(Queries(v))
      /\ \A k \in 1..Len(Queries(v)) : b[k] = Answer(Queries(v)[k], d)
  BY FreshForm
<1> HIDE DEF b
<1>2. CASE v = "accuracy" /\ d.truth = None
  <2>1. Len(a) = 2 /\ Len(Queries(v)) = 2 /\ Queries(v)[1] = "landings"
        /\ Answer("landings", d) = None
    BY <1>2, QuestionsForm DEF Answer
  <2>2. a[1] = None /\ b[1] = None
    BY <1>1, <2>1
  <2>3. Shown(v, a) = <<>> /\ Shown(v, b) = <<>>
    BY <1>2, <2>2 DEF Shown
  <2> QED  BY <1>1, <2>3
<1>3. CASE ~(v = "accuracy" /\ d.truth = None)
  <2>1. \A k \in 1..Len(a) : a[k] = b[k]
    BY <1>1, <1>3
  <2>2. a = b
    BY <1>1, <2>1
  <2> QED  BY <1>1, <2>2
<1> QED  BY <1>2, <1>3

(* What a commit leaves alone that rings no name the view is fetched for.  *)
Untold(new) ==
  /\ view = "map" => /\ new.row = db.row /\ new.track = db.track /\ new.path = db.path
                     /\ new.pred = db.pred /\ new.truth = db.truth /\ new.sub = db.sub
  /\ view = "flights" => new.row = db.row /\ new.pred = db.pred
  /\ view = "accuracy" => /\ new.truth = db.truth
                          /\ new.pred = db.pred \/ db.truth = None
  /\ view = "history" => new.row = db.row /\ new.track = db.track
  /\ view = "alerts" => new.alert = db.alert

LEMMA HeardNames ==
  ASSUME view \in Views, NEW names, names \cap Refetch(view) = {}
  PROVE  /\ "flights" \in names => view \in {"accuracy", "alerts"}
         /\ "accuracy" \in names => view \in {"history", "alerts"}
         /\ "alerts" \in names => view # "alerts"
         /\ "subscribers" \in names => view # "map"
<1>1. view \in {"map", "flights", "accuracy", "history", "alerts"}
  BY PageParameters
<1>2. /\ view = "map" => Refetch(view) = {"flights", "accuracy", "subscribers"}
      /\ view = "flights" => Refetch(view) = {"flights", "accuracy"}
      /\ view = "accuracy" => Refetch(view) = {"accuracy"}
      /\ view = "history" => Refetch(view) = {"flights"}
      /\ view = "alerts" => Refetch(view) = {"alerts"}
  BY DEF Refetch
<1> QED  BY <1>1, <1>2

LEMMA HistoryShown ==
  ASSUME "history" \in Views, NEW d \in Tabled
  PROVE  Fresh("history", d) =
           <<d.row, d.pred, d.truth, IF d.row = "down" THEN d.track ELSE None>>
<1> DEFINE v == "history"
           a == [i \in DOMAIN Queries(v) |-> Answer(Queries(v)[i], d)]
<1>1. /\ Fresh(v, d) = Shown(v, a) /\ Len(Queries(v)) = 4
      /\ \A k \in 1..Len(Queries(v)) : a[k] = Answer(Queries(v)[k], d)
  BY FreshForm, QuestionsForm
<1>2. a[1] = Answer("flight", d) /\ a[2] = Answer("series", d)
      /\ a[3] = Answer("landings", d) /\ a[4] = Answer("points", d)
  BY <1>1, QuestionsForm
<1> HIDE DEF a
<1>3. Answer("flight", d) = d.row /\ Answer("series", d) = d.pred
      /\ Answer("landings", d) = d.truth /\ Answer("points", d) = d.track
  BY DEF Answer
<1>4. Shown(v, a) = <<a[1], a[2], a[3], IF a[1] = "down" THEN a[4] ELSE None>>
  BY DEF Shown
<1> QED  BY <1>1, <1>2, <1>3, <1>4

LEMMA AnswersKept ==
  ASSUME view \in Views, db \in Tabled, NEW new \in Tabled, Untold(new),
         view = "history" => Fresh(view, new) = Fresh(view, db)
  PROVE  \A k \in 1..Len(Queries(view)) :
           \/ Answer(Queries(view)[k], db) = Answer(Queries(view)[k], new)
           \/ Unscored(k, new)
<1>1. view \in {"map", "flights", "accuracy", "history", "alerts"}
  BY PageParameters
<1>2. CASE view = "map"
  <2>1. Queries(view) = MapData
    BY <1>2 DEF Queries
  <2>2. \A k \in 1..Len(MapData) :
          MapData[k] \in {"rows", "tracks", "paths", "latest", "landings", "subs"}
    BY DEF MapData
  <2>3. /\ new.row = db.row /\ new.track = db.track /\ new.path = db.path
        /\ new.pred = db.pred /\ new.truth = db.truth /\ new.sub = db.sub
    BY <1>2 DEF Untold
  <2>4. \A q \in {"rows", "tracks", "paths", "latest", "landings", "subs"} :
          Answer(q, db) = Answer(q, new)
    BY <2>3 DEF Answer, Joined, InTheAir
  <2> QED  BY <2>1, <2>2, <2>4
<1>3. CASE view = "flights"
  <2>1. Answer("rows", db) = Answer("rows", new) /\ Answer("series", db) = Answer("series", new)
    BY <1>3 DEF Answer, InTheAir, Untold
  <2>2. Len(Queries(view)) = 2 /\ Queries(view)[1] = "rows" /\ Queries(view)[2] = "series"
    BY <1>3, QuestionsForm
  <2> QED  BY <2>1, <2>2
<1>4. CASE view = "accuracy"
  <2>1. /\ Answer("landings", db) = Answer("landings", new)
        /\ Answer("series", db) = Answer("series", new) \/ new.truth = None
    BY <1>4 DEF Answer, Untold
  <2>2. Len(Queries(view)) = 2 /\ Queries(view)[1] = "landings" /\ Queries(view)[2] = "series"
    BY <1>4, QuestionsForm
  <2> QED  BY <1>4, <2>1, <2>2 DEF Unscored
<1>5. CASE view = "history"
  <2>1. new.row = db.row /\ new.track = db.track
    BY <1>5 DEF Untold
  <2>2. new.pred = db.pred /\ new.truth = db.truth
    BY <1>5, HistoryShown
  <2>3. \A q \in {"flight", "series", "landings", "points"} : Answer(q, db) = Answer(q, new)
    BY <2>1, <2>2 DEF Answer
  <2>4. /\ Len(Queries(view)) = 4 /\ Queries(view)[1] = "flight" /\ Queries(view)[2] = "series"
        /\ Queries(view)[3] = "landings" /\ Queries(view)[4] = "points"
    BY <1>5, QuestionsForm
  <2> QED  BY <2>3, <2>4
<1>6. CASE view = "alerts"
  <2>1. Answer("items", db) = Answer("items", new) /\ Answer("total", db) = Answer("total", new)
    BY <1>6 DEF Answer, Untold
  <2>2. Len(Queries(view)) = 2 /\ Queries(view)[1] = "items" /\ Queries(view)[2] = "total"
    BY <1>6, QuestionsForm
  <2> QED  BY <2>1, <2>2
<1> QED  BY <1>1, <1>2, <1>3, <1>4, <1>5, <1>6

LEMMA UntoldKeeps ==
  ASSUME view \in Views, db \in Tabled, NEW new \in Tabled, Untold(new),
         view = "history" => Fresh(view, new) = Fresh(view, db)
  PROVE  /\ Fresh(view, new) = Fresh(view, db)
         /\ \A f \in Fetch : Clean(f, db) /\ Len(f.got) <= Len(Queries(view)) => Clean(f, new)
<1>1. \A k \in 1..Len(Queries(view)) :
        \/ Answer(Queries(view)[k], db) = Answer(Queries(view)[k], new)
        \/ Unscored(k, new)
  BY AnswersKept
<1>2. Fresh(view, new) = Fresh(view, db)
  <2> DEFINE a == [i \in DOMAIN Queries(view) |-> Answer(Queries(view)[i], db)]
  <2>1. /\ Fresh(view, db) = Shown(view, a) /\ a \in Seq(Cells) /\ Len(a) = Len(Queries(view))
        /\ \A k \in 1..Len(Queries(view)) : a[k] = Answer(Queries(view)[k], db)
    BY FreshForm
  <2> HIDE DEF a
  <2>2. \A k \in 1..Len(a) : \/ a[k] = Answer(Queries(view)[k], new)
                             \/ view = "accuracy" /\ k = 2 /\ new.truth = None
    BY <1>1, <2>1 DEF Unscored
  <2>3. Shown(view, a) = Fresh(view, new)
    BY <2>1, <2>2, SameShown
  <2> QED  BY <2>1, <2>3
<1>3. ASSUME NEW f \in Fetch, Clean(f, db), Len(f.got) <= Len(Queries(view)) PROVE Clean(f, new)
  <2> SUFFICES ASSUME NEW k \in 1..Len(f.got)
               PROVE  f.got[k] = Answer(Queries(view)[k], new) \/ Unscored(k, new)
    BY DEF Clean
  <2>1. Len(f.got) \in Nat /\ Len(Queries(view)) \in Nat
    BY QuestionsForm DEF Fetch
  <2>2. k \in 1..Len(Queries(view))
    BY <1>3, <2>1
  <2>3. f.got[k] = Answer(Queries(view)[k], db) \/ Unscored(k, db)
    BY <1>3 DEF Clean
  <2>4. Unscored(k, db) => Unscored(k, new)
    BY DEF Unscored, Untold
  <2> QED  BY <1>1, <2>2, <2>3, <2>4
<1> QED  BY <1>2, <1>3

LEMMA CommitKeeps ==
  ASSUME PageInv, NEW new \in Tabled, NEW names \in SUBSET Names, NEW next \in Jobs,
         Commit(new, names, next), Fits(new, next),
         names \cap Refetch(view) = {} => Untold(new)
  PROVE  PageInv'
<1>1. PageTyped /\ Landings /\ Overtaken /\ UpToDate
  BY DEF PageInv
<1>2. /\ db' = new /\ job' = next /\ writes' = writes + 1 /\ writes < MaxWrites
      /\ bells' = (IF up THEN bells \cup (names \cap Refetch(view)) ELSE bells)
      /\ deaf' = (/\ view = "history" /\ names \cap Refetch(view) = {}
                  /\ deaf \/ Fresh(view, new) # Fresh(view, db))
      /\ UNCHANGED <<view, up, fetches, page, open, flawed>>
  BY DEF Commit
<1>3. PageTyped'
  <2>1. writes' \in 0..MaxWrites
    BY <1>1, <1>2, PageParameters DEF PageTyped
  <2>2. bells' \subseteq Names
    BY <1>1, <1>2 DEF PageTyped
  <2>3. deaf' \in BOOLEAN /\ (deaf' => view' = "history")
    BY <1>2
  <2> QED  BY <1>1, <1>2, <2>1, <2>2, <2>3 DEF PageTyped
<1>4. Landings' /\ Overtaken'
  BY <1>1, <1>2 DEF Landings, Overtaken, Fits, InTheAir, IsDown
<1>5. UpToDate'
  <2> SUFFICES ASSUME up, open, bells' = {}, ~deaf'
               PROVE  IF Settled THEN flawed \/ page = Fresh(view, new) ELSE Clean(Newest, new)
    BY <1>2 DEF UpToDate, Settled, Newest, Clean, Unscored
  <2>1. bells = {} /\ names \cap Refetch(view) = {}
    BY <1>2
  <2>2. ~deaf /\ (view = "history" => Fresh(view, new) = Fresh(view, db))
    BY <1>1, <1>2, <2>1 DEF PageTyped
  <2>3. view \in Views /\ db \in Tabled /\ fetches \in Seq(Fetch)
        /\ \A i \in 1..Len(fetches) : Len(fetches[i].got) <= Len(Queries(view))
    BY <1>1 DEF PageTyped
  <2>4. /\ Fresh(view, new) = Fresh(view, db)
        /\ \A f \in Fetch : Clean(f, db) /\ Len(f.got) <= Len(Queries(view)) => Clean(f, new)
    BY <2>1, <2>2, <2>3, UntoldKeeps
  <2>5. IF Settled THEN flawed \/ page = Fresh(view, db) ELSE Clean(Newest, db)
    BY <1>1, <2>1, <2>2 DEF UpToDate
  <2>6. ~Settled => Newest \in Fetch /\ Len(Newest.got) <= Len(Queries(view))
    <3> SUFFICES ASSUME fetches # <<>>
                 PROVE  Newest \in Fetch /\ Len(Newest.got) <= Len(Queries(view))
      BY DEF Settled
    <3>1. Len(fetches) \in 1..Len(fetches)
      BY <2>3
    <3> QED  BY <2>3, <3>1 DEF Newest
  <2> QED  BY <2>4, <2>5, <2>6
<1> QED  BY <1>3, <1>4, <1>5 DEF PageInv

LEMMA WriteKeeps ==
  ASSUME PageInv, Write
  PROVE  PageInv'
<1>1. PageTyped /\ Landings
  BY DEF PageInv
<1>2. /\ view \in Views /\ db \in Tabled /\ job \in Jobs /\ None \in Content
      /\ view \in {"map", "flights", "accuracy", "history", "alerts"}
      /\ Versions \subseteq Content /\ None \in Jobs
  BY <1>1, PageParameters DEF PageTyped, Content, Jobs
<1>3. /\ db.row \in {None, "air", "down"} /\ db.track \in Content /\ db.path \in Content
      /\ db.pred \in Content /\ db.truth \in Content /\ db.sub \in Content /\ db.alert \in Content
  BY <1>2, RecordFields
<1>4. /\ db.row = "air" /\ job # "retract" => db.truth = None
      /\ db.row = None => db.truth = None
      /\ job = "truth" => db.row = "down"
  BY <1>1 DEF Landings, Fits, InTheAir, IsDown
<1>5. \A s \in SUBSET {"flights", "accuracy", "alerts", "subscribers"} : s \in SUBSET Names
  BY DEF Names
<1>6. None = "none"
  BY DEF None
<1>7. ASSUME NEW v \in Versions, KeepTrack(v) PROVE PageInv'
  <2> DEFINE new == [db EXCEPT !.track = v]
  <2>1. db.row = "air" /\ job = None /\ Commit(new, {"flights"}, None)
    BY <1>7 DEF KeepTrack, InTheAir
  <2>2. /\ new \in Tabled /\ new.row = db.row /\ new.path = db.path /\ new.pred = db.pred
        /\ new.truth = db.truth /\ new.sub = db.sub /\ new.alert = db.alert
    BY <1>2 DEF Tabled
  <2> HIDE DEF new
  <2>3. Fits(new, None)
    BY <1>4, <1>6, <2>1, <2>2 DEF Fits, InTheAir, IsDown
  <2>4. {"flights"} \cap Refetch(view) = {} => Untold(new)
    BY <1>2, <2>2, HeardNames DEF Untold
  <2> QED  BY <1>2, <1>5, <2>1, <2>2, <2>3, <2>4, CommitKeeps
<1>8. ASSUME NEW v \in Versions, SavePrediction(v) PROVE PageInv'
  <2> DEFINE new == [db EXCEPT !.pred = v]
  <2>1. db.row = "air" /\ job = None /\ Commit(new, {"flights"}, "path")
    BY <1>8 DEF SavePrediction, InTheAir
  <2>2. /\ new \in Tabled /\ new.row = db.row /\ new.track = db.track /\ new.path = db.path
        /\ new.truth = db.truth /\ new.sub = db.sub /\ new.alert = db.alert
    BY <1>2 DEF Tabled
  <2> HIDE DEF new
  <2>3. db.truth = None /\ Fits(new, "path")
    BY <1>4, <1>6, <2>1, <2>2 DEF Fits, InTheAir, IsDown
  <2>4. {"flights"} \cap Refetch(view) = {} => Untold(new)
    BY <1>2, <2>2, <2>3, HeardNames DEF Untold
  <2>5. "path" \in Jobs
    BY DEF Jobs
  <2> QED  BY <1>2, <1>5, <2>1, <2>2, <2>3, <2>4, <2>5, CommitKeeps
<1>9. ASSUME NEW v \in Versions, RecordLanding(v) PROVE PageInv'
  <2> DEFINE new == [db EXCEPT !.truth = v]
  <2>1. db.row = "down" /\ Commit(new, {"accuracy"}, None)
    BY <1>4, <1>9 DEF RecordLanding, IsDown
  <2>2. /\ new \in Tabled /\ new.row = db.row /\ new.track = db.track /\ new.path = db.path
        /\ new.pred = db.pred /\ new.sub = db.sub /\ new.alert = db.alert
    BY <1>2 DEF Tabled
  <2> HIDE DEF new
  <2>3. Fits(new, None)
    BY <1>6, <2>1, <2>2 DEF Fits, InTheAir, IsDown
  <2>4. {"accuracy"} \cap Refetch(view) = {} => Untold(new)
    BY <1>2, <2>2, HeardNames DEF Untold
  <2> QED  BY <1>2, <1>5, <2>1, <2>2, <2>3, <2>4, CommitKeeps
<1>10. ASSUME NEW v \in Content, PushAlert(v) \/ (ClearAlerts /\ v = None) PROVE PageInv'
  <2> DEFINE new == [db EXCEPT !.alert = v]
  <2>1. Commit(new, {"alerts"}, job)
    BY <1>10 DEF PushAlert, ClearAlerts
  <2>2. /\ new \in Tabled /\ new.row = db.row /\ new.track = db.track /\ new.path = db.path
        /\ new.pred = db.pred /\ new.truth = db.truth /\ new.sub = db.sub
    BY <1>2 DEF Tabled
  <2> HIDE DEF new
  <2>3. Fits(new, job)
    BY <1>4, <2>2 DEF Fits, InTheAir, IsDown
  <2>4. {"alerts"} \cap Refetch(view) = {} => Untold(new)
    BY <1>2, <2>2, HeardNames DEF Untold
  <2> QED  BY <1>2, <1>5, <2>1, <2>2, <2>3, <2>4, CommitKeeps
<1>11. ASSUME NEW v \in Versions, NEW row \in {"air", "down"}, NEW next \in {None, "truth"},
              Rebuild(row, v, next)
       PROVE  PageInv'
  <2> DEFINE new == [db EXCEPT !.row = row, !.track = v, !.path = None, !.pred = None]
  <2>1. db.row = "air" /\ job = None /\ Commit(new, {"flights"}, next)
        /\ (next # None => row = "down")
    BY <1>11 DEF Rebuild, InTheAir
  <2>2. /\ new \in Tabled /\ new.row = row /\ new.truth = db.truth
        /\ new.sub = db.sub /\ new.alert = db.alert
    BY <1>2, <1>3 DEF Tabled
  <2> HIDE DEF new
  <2>3. db.truth = None /\ Fits(new, next)
    BY <1>4, <1>6, <2>1, <2>2 DEF Fits, InTheAir, IsDown
  <2>4. {"flights"} \cap Refetch(view) = {} => Untold(new)
    BY <1>2, <2>2, <2>3, HeardNames DEF Untold
  <2>5. next \in Jobs
    BY <1>11 DEF Jobs
  <2> QED  BY <1>2, <1>5, <2>1, <2>2, <2>3, <2>4, <2>5, CommitKeeps
<1>12. ASSUME NEW v \in Content, SaveSubscriber(v) PROVE PageInv'
  <2> DEFINE new == [db EXCEPT !.sub = v]
  <2>1. Commit(new, {"subscribers"}, job)
    BY <1>12 DEF SaveSubscriber
  <2>2. /\ new \in Tabled /\ new.row = db.row /\ new.track = db.track /\ new.path = db.path
        /\ new.pred = db.pred /\ new.truth = db.truth /\ new.alert = db.alert
    BY <1>2 DEF Tabled
  <2> HIDE DEF new
  <2>3. Fits(new, job)
    BY <1>4, <2>2 DEF Fits, InTheAir, IsDown
  <2>4. {"subscribers"} \cap Refetch(view) = {} => Untold(new)
    BY <1>2, <2>2, HeardNames DEF Untold
  <2> QED  BY <1>2, <1>5, <2>1, <2>2, <2>3, <2>4, CommitKeeps
<1>13. CASE BeginFlight
  <2> DEFINE new == [db EXCEPT !.row = "air"]
  <2>1. db.row = None /\ job = None /\ Commit(new, {"flights"}, None)
    BY <1>13 DEF BeginFlight
  <2>2. /\ new \in Tabled /\ new.row = "air" /\ new.track = db.track /\ new.path = db.path
        /\ new.pred = db.pred /\ new.truth = db.truth /\ new.sub = db.sub /\ new.alert = db.alert
    BY <1>2 DEF Tabled
  <2> HIDE DEF new
  <2>3. Fits(new, None)
    BY <1>4, <1>6, <2>1, <2>2 DEF Fits, InTheAir, IsDown
  <2>4. {"flights"} \cap Refetch(view) = {} => Untold(new)
    BY <1>2, <2>2, HeardNames DEF Untold
  <2> QED  BY <1>2, <1>5, <2>1, <2>2, <2>3, <2>4, CommitKeeps
<1>14. CASE SavePath
  <2> DEFINE new == [db EXCEPT !.path = db.pred]
  <2>1. job = "path" /\ Commit(new, {"flights"}, None)
    BY <1>14 DEF SavePath
  <2>2. /\ new \in Tabled /\ new.row = db.row /\ new.track = db.track
        /\ new.pred = db.pred /\ new.truth = db.truth /\ new.sub = db.sub /\ new.alert = db.alert
    BY <1>2, <1>3 DEF Tabled
  <2> HIDE DEF new
  <2>3. Fits(new, None)
    BY <1>4, <1>6, <2>1, <2>2 DEF Fits, InTheAir, IsDown
  <2>4. {"flights"} \cap Refetch(view) = {} => Untold(new)
    BY <1>2, <2>2, HeardNames DEF Untold
  <2> QED  BY <1>2, <1>5, <2>1, <2>2, <2>3, <2>4, CommitKeeps
<1>15. CASE Resume
  <2> DEFINE new == [db EXCEPT !.row = "air"]
  <2>1. Commit(new, {"flights"}, "retract")
    BY <1>15 DEF Resume
  <2>2. /\ new \in Tabled /\ new.row = "air" /\ new.track = db.track /\ new.path = db.path
        /\ new.pred = db.pred /\ new.truth = db.truth /\ new.sub = db.sub /\ new.alert = db.alert
    BY <1>2 DEF Tabled
  <2> HIDE DEF new
  <2>3. Fits(new, "retract")
    BY <1>6, <2>1, <2>2 DEF Fits, InTheAir, IsDown
  <2>4. {"flights"} \cap Refetch(view) = {} => Untold(new)
    BY <1>2, <2>2, HeardNames DEF Untold
  <2>5. "retract" \in Jobs
    BY DEF Jobs
  <2> QED  BY <1>2, <1>5, <2>1, <2>2, <2>3, <2>4, <2>5, CommitKeeps
<1>16. CASE RetractLanding
  <2> DEFINE new == [db EXCEPT !.truth = None, !.alert = None]
  <2>1. Commit(new, {"accuracy", "alerts"}, None)
    BY <1>16 DEF RetractLanding
  <2>2. /\ new \in Tabled /\ new.row = db.row /\ new.track = db.track /\ new.path = db.path
        /\ new.pred = db.pred /\ new.truth = None /\ new.sub = db.sub
    BY <1>2 DEF Tabled
  <2> HIDE DEF new
  <2>3. Fits(new, None)
    BY <1>6, <2>2 DEF Fits, InTheAir, IsDown
  <2>4. {"accuracy", "alerts"} \cap Refetch(view) = {} => Untold(new)
    BY <1>2, <2>2, HeardNames DEF Untold
  <2> QED  BY <1>2, <1>5, <2>1, <2>2, <2>3, <2>4, CommitKeeps
<1>17. CASE ClearAccuracy
  <2> DEFINE new == [db EXCEPT !.truth = None,
                               !.pred = IF IsDown(db) THEN None ELSE @,
                               !.path = IF IsDown(db) THEN None ELSE @]
  <2>1. Commit(new, {"accuracy"}, job)
    BY <1>17 DEF ClearAccuracy
  <2>2. /\ new \in Tabled /\ new.row = db.row /\ new.track = db.track
        /\ new.truth = None /\ new.sub = db.sub /\ new.alert = db.alert
    BY <1>2, <1>3 DEF Tabled
  <2> HIDE DEF new
  <2>3. Fits(new, job)
    BY <1>4, <2>2 DEF Fits, InTheAir, IsDown
  <2>4. {"accuracy"} \cap Refetch(view) = {} => Untold(new)
    BY <1>2, <2>2, HeardNames DEF Untold
  <2> QED  BY <1>2, <1>5, <2>1, <2>2, <2>3, <2>4, CommitKeeps
<1>18. ASSUME NEW next \in {None, "truth"}, Land(next) PROVE PageInv'
  <2> DEFINE new == [db EXCEPT !.row = "down"]
  <2>1. Commit(new, {"flights"}, next)
    BY <1>18 DEF Land
  <2>2. /\ new \in Tabled /\ new.row = "down" /\ new.track = db.track /\ new.path = db.path
        /\ new.pred = db.pred /\ new.truth = db.truth /\ new.sub = db.sub /\ new.alert = db.alert
    BY <1>2 DEF Tabled
  <2> HIDE DEF new
  <2>3. Fits(new, next)
    BY <1>6, <2>2 DEF Fits, InTheAir, IsDown
  <2>4. {"flights"} \cap Refetch(view) = {} => Untold(new)
    BY <1>2, <2>2, HeardNames DEF Untold
  <2>5. next \in Jobs
    BY <1>18 DEF Jobs
  <2> QED  BY <1>2, <1>5, <2>1, <2>2, <2>3, <2>4, <2>5, CommitKeeps
<1> QED  BY <1>2, <1>7, <1>8, <1>9, <1>10, <1>11, <1>12, <1>13, <1>14, <1>15, <1>16, <1>17, <1>18
            DEF Write

LEMMA RefreshKeeps ==
  ASSUME PageInv, Room, Refresh, UNCHANGED <<view, db, job, writes, page, open, flawed>>,
         up' \in BOOLEAN, bells' \subseteq Names
  PROVE  PageInv'
<1> DEFINE f == [got |-> <<>>, late |-> FALSE]
<1>1. PageTyped /\ Landings /\ Overtaken /\ UpToDate
  BY DEF PageInv
<1>2. /\ fetches' = (IF open /\ ~Final THEN Append(fetches, f) ELSE fetches)
      /\ deaf' = (deaf \/ Final) /\ Len(fetches) < MaxFetches
  BY DEF Refresh, Started, Room
<1>3. /\ f \in Fetch /\ f.late = FALSE /\ f.got = <<>> /\ Len(f.got) = 0
      /\ Len(Queries(view)) \in Nat
  BY <1>1, QuestionsForm DEF Fetch, PageTyped
<1> HIDE DEF f
<1>4. fetches \in Seq(Fetch) /\ Len(fetches) \in Nat /\ MaxFetches \in Nat
      /\ \A i \in 1..Len(fetches) : Len(fetches[i].got) <= Len(Queries(view))
  BY <1>1, PageParameters DEF PageTyped
<1>5. deaf' \in BOOLEAN /\ (deaf' => view = "history")
  BY <1>1, <1>2 DEF PageTyped, Final
<1>6. CASE open /\ ~Final
  <2>1. /\ fetches' \in Seq(Fetch) /\ Len(fetches') = Len(fetches) + 1
        /\ fetches'[Len(fetches) + 1] = f
        /\ \A i \in 1..Len(fetches) : fetches'[i] = fetches[i]
    BY <1>2, <1>3, <1>4, <1>6
  <2>2. \A i \in 1..Len(fetches') : Len(fetches'[i].got) <= Len(Queries(view))
    BY <1>3, <1>4, <2>1
  <2>3. PageTyped'
    BY <1>1, <1>2, <1>4, <1>5, <2>1, <2>2 DEF PageTyped
  <2>4. Overtaken'
    BY <1>1, <1>3, <1>4, <2>1 DEF Overtaken
  <2>5. Newest' = f /\ fetches' # <<>> /\ ~Settled'
    BY <1>3, <1>4, <2>1 DEF Newest, Settled
  <2>6. Clean(Newest, db)'
    BY <1>3, <2>5 DEF Clean
  <2> QED  BY <1>1, <2>3, <2>4, <2>5, <2>6 DEF PageInv, UpToDate, Landings
<1>7. CASE ~(open /\ ~Final)
  <2>1. fetches' = fetches
    BY <1>2, <1>7
  <2>2. PageTyped'
    BY <1>1, <1>5, <2>1 DEF PageTyped
  <2>3. Overtaken'
    BY <1>1, <2>1 DEF Overtaken
  <2>4. ~open' \/ deaf'
    BY <1>2, <1>7
  <2> QED  BY <1>1, <2>2, <2>3, <2>4 DEF PageInv, UpToDate, Landings
<1> QED  BY <1>6, <1>7

(* A fetch that ends leaves the others, in their order.                    *)
LEMMA EndedForm ==
  ASSUME fetches \in Seq(Fetch), NEW i \in 1..Len(fetches)
  PROVE  /\ Ended(i) \in Seq(Fetch) /\ Len(Ended(i)) = Len(fetches) - 1
         /\ \A j \in 1..Len(fetches) - 1 :
              LET old == fetches[IF j < i THEN j ELSE j + 1]
              IN  Ended(i)[j].got = old.got /\ Ended(i)[j].late = (old.late \/ j < i)
<1> DEFINE r == RemoveAt(fetches, i)
           n == Len(fetches)
           front == SubSeq(fetches, 1, i - 1)
           back == SubSeq(fetches, i + 1, Len(fetches))
<1>1. n \in Nat /\ i \in Int /\ 1 <= i /\ i <= n
  OBVIOUS
<1>2. front \in Seq(Fetch) /\ Len(front) = i - 1 /\ \A j \in 1..i - 1 : front[j] = fetches[j]
  BY <1>1, SubSeqProperties
<1>3. back \in Seq(Fetch) /\ Len(back) = n - i
      /\ \A j \in 1..n - i : back[j] = fetches[i + j]
  BY <1>1, SubSeqProperties
<1>4. r = front \o back
  BY DEF RemoveAt
<1> HIDE DEF r, front, back
<1>5. /\ r \in Seq(Fetch) /\ Len(r) = n - 1
      /\ \A j \in 1..n - 1 : r[j] = IF j <= i - 1 THEN front[j] ELSE back[j - (i - 1)]
  <2>1. Len(front) + Len(back) = n - 1
    BY <1>1, <1>2, <1>3
  <2>2. /\ front \o back \in Seq(Fetch) /\ Len(front \o back) = Len(front) + Len(back)
        /\ \A j \in 1..Len(front) + Len(back) :
             (front \o back)[j] = IF j <= Len(front) THEN front[j] ELSE back[j - Len(front)]
    BY <1>2, <1>3, ConcatForm
  <2> QED  BY <1>2, <1>4, <2>1, <2>2
<1>6. \A j \in 1..n - 1 : r[j] = fetches[IF j < i THEN j ELSE j + 1]
  <2> SUFFICES ASSUME NEW j \in 1..n - 1 PROVE r[j] = fetches[IF j < i THEN j ELSE j + 1]
    OBVIOUS
  <2>1. CASE j < i
    BY <1>1, <1>2, <1>5, <2>1
  <2>2. CASE ~(j < i)
    <3>1. j - (i - 1) \in 1..n - i /\ i + (j - (i - 1)) = j + 1
      BY <1>1, <2>2
    <3> QED  BY <1>1, <1>3, <1>5, <2>2, <3>1
  <2> QED  BY <2>1, <2>2
<1> DEFINE e == [j \in DOMAIN r |-> [r[j] EXCEPT !.late = @ \/ j < i]]
<1>7. Ended(i) = e
  BY DEF Ended, r
<1>8. DOMAIN r = 1..n - 1
  BY <1>1, <1>5
<1>9. \A j \in 1..n - 1 : r[j] \in Fetch
  BY <1>5
<1>10. \A j \in 1..n - 1 : /\ [r[j] EXCEPT !.late = @ \/ j < i] \in Fetch
                           /\ [r[j] EXCEPT !.late = @ \/ j < i].got = r[j].got
                           /\ [r[j] EXCEPT !.late = @ \/ j < i].late = (r[j].late \/ j < i)
  BY <1>9 DEF Fetch
<1>11. /\ \A j \in 1..n - 1 : e[j] = [r[j] EXCEPT !.late = @ \/ j < i]
       /\ e \in [1..n - 1 -> Fetch] /\ DOMAIN e = 1..n - 1
  BY <1>8, <1>10
<1> HIDE DEF e
<1>12. e \in Seq(Fetch) /\ Len(e) = n - 1
  BY <1>1, <1>11
<1>13. ASSUME NEW j \in 1..n - 1
       PROVE  e[j].got = r[j].got /\ e[j].late = (r[j].late \/ j < i)
  <2> DEFINE g == [r[j] EXCEPT !.late = @ \/ j < i]
  <2>1. e[j] = g /\ g.got = r[j].got /\ g.late = (r[j].late \/ j < i)
    BY <1>10, <1>11
  <2> HIDE DEF g
  <2> QED  BY <2>1
<1> QED  BY <1>6, <1>7, <1>12, <1>13

LEMMA QueryKeeps ==
  ASSUME PageInv, NEW i \in 1..Len(fetches), Query(i)
  PROVE  PageInv'
<1>1. PageTyped /\ Landings /\ Overtaken /\ UpToDate
  BY DEF PageInv
<1> DEFINE k == Len(fetches[i].got) + 1
           f == [fetches[i] EXCEPT !.got = Append(@, Answer(Queries(view)[Len(@) + 1], db))]
<1>2. /\ Len(fetches[i].got) # Len(Queries(view))
      /\ fetches' = [fetches EXCEPT ![i] = f]
      /\ UNCHANGED <<view, db, job, writes, up, bells, page, open, flawed, deaf>>
  BY DEF Query, Answered, Rest
<1>3. /\ fetches \in Seq(Fetch) /\ view \in Views /\ db \in Tabled
      /\ \A j \in 1..Len(fetches) : Len(fetches[j].got) <= Len(Queries(view))
  BY <1>1 DEF PageTyped
<1>4. /\ fetches[i] \in Fetch /\ fetches[i].got \in Seq(Cells) /\ Len(fetches[i].got) \in Nat
      /\ Len(Queries(view)) \in Nat /\ k \in 1..Len(Queries(view))
  <2>1. fetches[i] \in Fetch
    BY <1>3
  <2>2. fetches[i].got \in Seq(Cells)
    BY <2>1 DEF Fetch
  <2>3. Len(fetches[i].got) \in Nat /\ Len(Queries(view)) \in Nat
    BY <1>3, <2>2, QuestionsForm
  <2>4. Len(fetches[i].got) <= Len(Queries(view)) /\ Len(fetches[i].got) # Len(Queries(view))
    BY <1>2, <1>3
  <2> QED  BY <2>1, <2>2, <2>3, <2>4
<1>5. Queries(view)[k] \in Questions
  BY <1>3, <1>4, QuestionsForm
<1>6. Answer(Queries(view)[k], db) \in Cells
  BY <1>3, <1>5, AnswerForm
<1> DEFINE a == Answer(Queries(view)[k], db)
<1> HIDE DEF a
<1>7. f \in Fetch /\ f.late = fetches[i].late /\ f.got = Append(fetches[i].got, a)
  <2> DEFINE g == Append(fetches[i].got, a)
  <2>1. g \in Seq(Cells)
    BY <1>4, <1>6 DEF a
  <2>2. f = [fetches[i] EXCEPT !.got = g]
    BY DEF a
  <2> HIDE DEF f, g
  <2>3. f \in Fetch /\ f.late = fetches[i].late /\ f.got = g
    BY <1>4, <2>1, <2>2 DEF Fetch
  <2> QED  BY <2>3 DEF g
<1> HIDE DEF f
<1>8. /\ f.got \in Seq(Cells) /\ Len(f.got) = k /\ f.got[k] = a
      /\ \A j \in 1..Len(fetches[i].got) : f.got[j] = fetches[i].got[j]
  BY <1>4, <1>6, <1>7 DEF a
<1>9. /\ fetches' \in Seq(Fetch) /\ Len(fetches') = Len(fetches) /\ fetches'[i] = f
      /\ \A j \in 1..Len(fetches) : j # i => fetches'[j] = fetches[j]
  BY <1>2, <1>3, <1>7
<1>10. \A j \in 1..Len(fetches) : fetches'[j].late = fetches[j].late
  BY <1>7, <1>9
<1>11. \A j \in 1..Len(fetches) : Len(fetches'[j].got) <= Len(Queries(view))
  <2> SUFFICES ASSUME NEW j \in 1..Len(fetches)
               PROVE  Len(fetches'[j].got) <= Len(Queries(view))
    OBVIOUS
  <2>1. k <= Len(Queries(view))
    BY <1>4
  <2>2. CASE j = i
    BY <1>8, <1>9, <2>1, <2>2
  <2>3. CASE j # i
    BY <1>3, <1>9, <2>3
  <2> QED  BY <2>2, <2>3
<1>12. PageTyped'
  BY <1>1, <1>2, <1>9, <1>11 DEF PageTyped
<1>13. Overtaken'
  BY <1>1, <1>9, <1>10 DEF Overtaken
<1>14. UpToDate'
  <2> SUFFICES ASSUME up, open, bells = {}, ~deaf
               PROVE  IF Settled' THEN flawed \/ page = Fresh(view, db) ELSE Clean(Newest', db)
    BY <1>2 DEF UpToDate, Clean, Unscored
  <2>1. IF Settled THEN flawed \/ page = Fresh(view, db) ELSE Clean(Newest, db)
    BY <1>1 DEF UpToDate
  <2>2. /\ Len(fetches) \in 1..Len(fetches) /\ fetches # <<>> /\ fetches' # <<>>
        /\ Newest' = fetches'[Len(fetches)]
    BY <1>3, <1>9 DEF Newest
  <2>3. Settled' = Settled
    BY <1>10, <2>2 DEF Settled, Newest
  <2>4. ASSUME Clean(Newest, db) PROVE Clean(Newest', db)
    <3>1. CASE i # Len(fetches)
      BY <1>9, <2>2, <2>4, <3>1 DEF Newest
    <3>2. CASE i = Len(fetches)
      <4>1. Newest' = f /\ Newest = fetches[i]
        BY <1>9, <2>2, <3>2 DEF Newest
      <4> SUFFICES ASSUME NEW j \in 1..k
                   PROVE  f.got[j] = Answer(Queries(view)[j], db) \/ Unscored(j, db)
        BY <1>8, <4>1 DEF Clean
      <4>2. CASE j = k
        BY <1>8, <4>2 DEF a
      <4>3. CASE j # k
        <5>1. j \in 1..Len(fetches[i].got)
          BY <1>4, <4>3
        <5>2. fetches[i].got[j] = Answer(Queries(view)[j], db) \/ Unscored(j, db)
          BY <2>4, <4>1, <5>1 DEF Clean
        <5> QED  BY <1>8, <5>1, <5>2
      <4> QED  BY <4>2, <4>3
    <3> QED  BY <3>1, <3>2
  <2> QED  BY <2>1, <2>3, <2>4
<1> QED  BY <1>1, <1>2, <1>12, <1>13, <1>14 DEF PageInv, Landings

(* The two ways for a fetch to end leave the ones that are left in order.  *)
LEMMA EndKeeps ==
  ASSUME PageTyped, Overtaken, NEW i \in 1..Len(fetches), fetches' = Ended(i), view' = view
  PROVE  /\ fetches' \in Seq(Fetch) /\ Len(fetches') <= MaxFetches
         /\ \A j \in 1..Len(fetches') : Len(fetches'[j].got) <= Len(Queries(view))
         /\ Overtaken'
         /\ IF i = Len(fetches) \/ fetches[Len(fetches)].late THEN Settled'
            ELSE ~Settled' /\ Newest'.got = fetches[Len(fetches)].got
<1> DEFINE n == Len(fetches)
<1>1. /\ fetches \in Seq(Fetch) /\ n \in Nat /\ n <= MaxFetches /\ MaxFetches \in Nat
      /\ \A j \in 1..n : Len(fetches[j].got) <= Len(Queries(view))
      /\ i \in Int /\ 1 <= i /\ i <= n
  BY PageParameters DEF PageTyped
<1>2. /\ fetches' \in Seq(Fetch) /\ Len(fetches') = n - 1
      /\ \A j \in 1..n - 1 :
           LET old == fetches[IF j < i THEN j ELSE j + 1]
           IN  fetches'[j].got = old.got /\ fetches'[j].late = (old.late \/ j < i)
  BY <1>1, EndedForm
<1>3. \A j \in 1..n - 1 : (IF j < i THEN j ELSE j + 1) \in 1..n
  BY <1>1
<1>4. \A j \in 1..Len(fetches') : Len(fetches'[j].got) <= Len(Queries(view))
  BY <1>1, <1>2, <1>3
<1>5. Overtaken'
  <2> SUFFICES ASSUME NEW j \in 1..n - 1, NEW m \in 1..n - 1, j < m, fetches'[m].late
               PROVE  fetches'[j].late
    BY <1>2 DEF Overtaken
  <2>1. CASE j < i
    BY <1>2, <2>1
  <2>2. CASE ~(j < i)
    <3>1. fetches'[m].late = fetches[m + 1].late /\ fetches'[j].late = fetches[j + 1].late
      <4>1. fetches \in Seq(Fetch) /\ m + 1 \in 1..n /\ j + 1 \in 1..n /\ ~(m < i)
        BY <1>1, <2>2
      <4>2. fetches[m + 1] \in Fetch /\ fetches[j + 1] \in Fetch
        BY <4>1
      <4>3. fetches[m + 1].late \in BOOLEAN /\ fetches[j + 1].late \in BOOLEAN
        BY <4>2 DEF Fetch
      <4> QED  BY <1>2, <2>2, <4>1, <4>3
    <3>2. m + 1 \in 1..n /\ j + 1 \in 1..n /\ j + 1 < m + 1
      BY <1>1
    <3> QED  BY <3>1, <3>2 DEF Overtaken
  <2> QED  BY <2>1, <2>2
<1>6. ASSUME i = n PROVE Settled'
  <2>1. CASE n = 1
    <3>1. fetches' = <<>>
      BY <1>2, <2>1
    <3> QED  BY <3>1 DEF Settled
  <2>2. CASE n # 1
    <3>1. n - 1 \in 1..n - 1 /\ n - 1 < i
      BY <1>1, <1>6, <2>2
    <3>2. Newest' = fetches'[n - 1] /\ fetches'[n - 1].late
      BY <1>2, <3>1 DEF Newest
    <3> QED  BY <3>2 DEF Settled
  <2> QED  BY <2>1, <2>2
<1>7. ASSUME i # n
      PROVE  IF fetches[n].late THEN Settled' ELSE ~Settled' /\ Newest'.got = fetches[n].got
  <2>1. n - 1 \in 1..n - 1 /\ ~(n - 1 < i) /\ (n - 1) + 1 = n /\ n \in 1..n
    BY <1>1, <1>7
  <2>2. Newest' = fetches'[n - 1] /\ fetches' # <<>>
    BY <1>1, <1>2, <2>1 DEF Newest
  <2>3. fetches[n].late \in BOOLEAN
    <3>1. fetches[n] \in Fetch
      BY <1>1, <2>1
    <3> QED  BY <3>1 DEF Fetch
  <2>4. fetches'[n - 1].got = fetches[n].got /\ fetches'[n - 1].late = fetches[n].late
    BY <1>2, <2>1, <2>3
  <2> QED  BY <2>2, <2>4 DEF Settled
<1> QED  BY <1>1, <1>2, <1>4, <1>5, <1>6, <1>7

LEMMA ShowKeeps ==
  ASSUME PageInv, NEW i \in 1..Len(fetches), Show(i)
  PROVE  PageInv'
<1> DEFINE f == fetches[i]
           n == Len(fetches)
<1>1. PageTyped /\ Landings /\ Overtaken /\ UpToDate
  BY DEF PageInv
<1>2. /\ Len(f.got) = Len(Queries(view)) /\ fetches' = Ended(i)
      /\ UNCHANGED <<view, db, job, writes, up, bells>>
      /\ \/ open' = FALSE /\ UNCHANGED <<page, flawed, deaf>>
         \/ page' = Shown(view, f.got) /\ flawed' = f.late /\ UNCHANGED <<open, deaf>>
  BY DEF Show, Answered, Rest
<1>3. /\ fetches' \in Seq(Fetch) /\ Len(fetches') <= MaxFetches
      /\ \A j \in 1..Len(fetches') : Len(fetches'[j].got) <= Len(Queries(view))
      /\ Overtaken'
      /\ IF i = n \/ fetches[n].late THEN Settled' ELSE ~Settled' /\ Newest'.got = fetches[n].got
  BY <1>1, <1>2, EndKeeps
<1>4. view \in Views /\ db \in Tabled /\ f \in Fetch
  BY <1>1 DEF PageTyped
<1>5. f.got \in Seq(Cells) /\ f.late \in BOOLEAN
  BY <1>4 DEF Fetch
<1>6. Shown(view, f.got) \in Seq(Cells) /\ Len(Shown(view, f.got)) \in {0, Len(Queries(view))}
  BY <1>2, <1>4, <1>5, ShownForm
<1>7. CASE open' = FALSE /\ UNCHANGED <<page, flawed, deaf>>
  <2>1. PageTyped'
    BY <1>1, <1>2, <1>3, <1>7 DEF PageTyped
  <2> QED  BY <1>1, <1>2, <1>3, <1>7, <2>1 DEF PageInv, UpToDate, Landings
<1>8. CASE page' = Shown(view, f.got) /\ flawed' = f.late /\ UNCHANGED <<open, deaf>>
  <2>1. PageTyped'
    BY <1>1, <1>2, <1>3, <1>5, <1>6, <1>8 DEF PageTyped
  <2>2. UpToDate'
    <3> SUFFICES ASSUME up, open, bells = {}, ~deaf
                 PROVE  IF Settled' THEN f.late \/ Shown(view, f.got) = Fresh(view, db)
                        ELSE Clean(Newest', db)
      BY <1>2, <1>8 DEF UpToDate, Clean, Unscored
    <3>1. IF Settled THEN TRUE ELSE Clean(Newest, db)
      BY <1>1 DEF UpToDate
    <3>2. fetches # <<>> /\ n \in 1..n /\ n \in Nat /\ i <= n /\ Newest = fetches[n]
      BY <1>1 DEF PageTyped, Newest
    <3>3. fetches[n].late => f.late
      BY <1>1, <3>2 DEF Overtaken
    <3>4. CASE fetches[n].late
      BY <1>3, <3>3, <3>4
    <3>5. CASE ~fetches[n].late
      <4>1. Clean(fetches[n], db)
        BY <3>1, <3>2, <3>5 DEF Settled
      <4>2. CASE i = n
        <5>1. \A k \in 1..Len(f.got) : \/ f.got[k] = Answer(Queries(view)[k], db)
                                       \/ view = "accuracy" /\ k = 2 /\ db.truth = None
          BY <4>1, <4>2 DEF Clean, Unscored
        <5>2. Shown(view, f.got) = Fresh(view, db)
          BY <1>2, <1>4, <1>5, <5>1, SameShown
        <5> QED  BY <1>3, <4>2, <5>2
      <4>3. CASE i # n
        <5>1. ~Settled' /\ Newest'.got = fetches[n].got
          BY <1>3, <3>5, <4>3
        <5> QED  BY <4>1, <5>1 DEF Clean
      <4> QED  BY <4>2, <4>3
    <3> QED  BY <3>4, <3>5
  <2> QED  BY <1>1, <1>2, <1>3, <2>1, <2>2 DEF PageInv, Landings
<1> QED  BY <1>2, <1>7, <1>8

LEMMA FailureKeeps ==
  ASSUME PageInv, NEW i \in 1..Len(fetches), FetchFails(i)
  PROVE  PageInv'
<1> DEFINE n == Len(fetches)
<1>1. PageTyped /\ Landings /\ Overtaken /\ UpToDate
  BY DEF PageInv
<1>2. /\ fetches' = Ended(i) /\ UNCHANGED <<view, db, job, writes, up, bells, page, deaf>>
      /\ \/ open' = FALSE /\ UNCHANGED flawed
         \/ flawed' = TRUE /\ UNCHANGED open
  BY DEF FetchFails, Rest
<1>3. /\ fetches' \in Seq(Fetch) /\ Len(fetches') <= MaxFetches
      /\ \A j \in 1..Len(fetches') : Len(fetches'[j].got) <= Len(Queries(view))
      /\ Overtaken'
      /\ IF i = n \/ fetches[n].late THEN Settled' ELSE ~Settled' /\ Newest'.got = fetches[n].got
  BY <1>1, <1>2, EndKeeps
<1>4. PageTyped'
  BY <1>1, <1>2, <1>3 DEF PageTyped
<1>5. UpToDate'
  <2> SUFFICES ASSUME up, open, bells = {}, ~deaf, ~Settled'
               PROVE  Clean(Newest', db)
    BY <1>2 DEF UpToDate, Clean, Unscored
  <2>1. ~fetches[n].late /\ Newest'.got = fetches[n].got
    BY <1>3
  <2>2. fetches # <<>> /\ Newest = fetches[n]
    BY <1>1 DEF PageTyped, Newest
  <2>3. Clean(fetches[n], db)
    BY <1>1, <2>1, <2>2 DEF UpToDate, Settled
  <2> QED  BY <2>1, <2>3 DEF Clean
<1> QED  BY <1>1, <1>2, <1>3, <1>4, <1>5 DEF PageInv, Landings

LEMMA PageStep ==
  ASSUME PageInv, [DashNext]_dashVars
  PROVE  PageInv'
<1>1. PageTyped /\ Landings /\ Overtaken /\ UpToDate
  BY DEF PageInv
<1>2. up \in BOOLEAN /\ bells \subseteq Names /\ DOMAIN fetches = 1..Len(fetches)
  BY <1>1 DEF PageTyped
<1>3. CASE Write
  BY <1>3, WriteKeeps
<1>4. ASSUME NEW n \in bells, Ring(n) PROVE PageInv'
  <2>1. Room /\ Refresh /\ UNCHANGED <<view, db, job, writes, page, open, flawed>>
        /\ up' \in BOOLEAN /\ bells' \subseteq Names
    BY <1>2, <1>4 DEF Ring, Rest
  <2> QED  BY <2>1, RefreshKeeps
<1>5. CASE GoDown
  <2>1. /\ up' = FALSE /\ bells' = {}
        /\ UNCHANGED <<view, db, job, writes, fetches, page, open, flawed, deaf>>
    BY <1>5 DEF GoDown, Rest
  <2> QED  BY <1>1, <2>1 DEF PageInv, PageTyped, Landings, Overtaken, UpToDate
<1>6. CASE ComeUp
  <2>1. Room /\ Refresh /\ UNCHANGED <<view, db, job, writes, page, open, flawed>>
        /\ up' \in BOOLEAN /\ bells' \subseteq Names
    BY <1>2, <1>6 DEF ComeUp, Rest
  <2> QED  BY <2>1, RefreshKeeps
<1>7. CASE Timer
  <2>1. Room /\ Refresh /\ UNCHANGED <<view, db, job, writes, page, open, flawed>>
        /\ up' \in BOOLEAN /\ bells' \subseteq Names
    BY <1>2, <1>7 DEF Timer, Rest
  <2> QED  BY <2>1, RefreshKeeps
<1>8. ASSUME NEW i \in 1..Len(fetches), Query(i) \/ Show(i) \/ FetchFails(i) PROVE PageInv'
  BY <1>8, QueryKeeps, ShowKeeps, FailureKeeps
<1>9. CASE UNCHANGED dashVars
  BY <1>1, <1>9 DEF dashVars, PageInv, PageTyped, Landings, Overtaken, UpToDate,
                    Settled, Newest, Clean, Unscored
<1> QED  BY <1>2, <1>3, <1>4, <1>5, <1>6, <1>7, <1>8, <1>9 DEF DashNext

LEMMA PageInit ==
  ASSUME DashInit
  PROVE  PageInv
<1>1. view \in Views /\ None \in Content /\ Versions \subseteq Content
      /\ MaxFetches \in Nat /\ MaxFetches > 0 /\ MaxWrites \in Nat
  BY PageParameters DEF DashInit, Content
<1>2. /\ job = None /\ up = TRUE /\ bells = {} /\ fetches = <<>> /\ page = Fresh(view, db)
      /\ open = (view = "history" => db.row # None)
      /\ flawed = FALSE /\ deaf = FALSE /\ writes = 0
  BY DEF DashInit
<1>3. db \in Tabled /\ (db.row = "air" => db.truth = None) /\ (db.row = None => db.truth = None)
  <2>1. CASE db = [row |-> None, track |-> None, path |-> None, pred |-> None,
                   truth |-> None, sub |-> None, alert |-> None]
    BY <1>1, <2>1 DEF Tabled
  <2>2. ASSUME NEW v \in Versions,
               db = [row |-> "air", track |-> v, path |-> v, pred |-> v,
                     truth |-> None, sub |-> v, alert |-> v]
        PROVE  db \in Tabled /\ (db.row = "air" => db.truth = None)
               /\ (db.row = None => db.truth = None)
    BY <1>1, <2>2 DEF Tabled
  <2>3. ASSUME NEW v \in Versions,
               db = [row |-> "down", track |-> v, path |-> v, pred |-> v,
                     truth |-> v, sub |-> v, alert |-> v]
        PROVE  db \in Tabled /\ (db.row = "air" => db.truth = None)
               /\ (db.row = None => db.truth = None)
    BY <1>1, <2>3 DEF Tabled, None
  <2> QED  BY <2>1, <2>2, <2>3 DEF DashInit
<1>4. page \in Seq(Cells) /\ Len(page) \in {0, Len(Queries(view))}
  BY <1>1, <1>2, <1>3, FreshForm
<1>5. fetches \in Seq(Fetch) /\ Len(fetches) = 0
  BY <1>2
<1>6. PageTyped
  <2>1. open \in BOOLEAN /\ up \in BOOLEAN /\ flawed \in BOOLEAN /\ deaf \in BOOLEAN /\ ~deaf
    BY <1>2
  <2>2. job \in Jobs /\ bells \subseteq Names
    BY <1>2 DEF Jobs
  <2>3. writes \in 0..MaxWrites /\ Len(fetches) <= MaxFetches
        /\ \A i \in 1..Len(fetches) : Len(fetches[i].got) <= Len(Queries(view))
    BY <1>1, <1>2, <1>5
  <2> QED  BY <1>1, <1>2, <1>3, <1>4, <1>5, <2>1, <2>2, <2>3 DEF PageTyped
<1>7. Landings
  BY <1>2, <1>3 DEF Landings, Fits, InTheAir, IsDown, None
<1>8. Overtaken /\ UpToDate
  BY <1>2, <1>5 DEF Overtaken, UpToDate, Settled
<1> QED  BY <1>6, <1>7, <1>8 DEF PageInv

LEMMA PageHolds == DashSpec => []PageInv
BY PageInit, PageStep, PTL DEF DashSpec

(* The page, the store and the fetches between them keep their types.      *)
THEOREM DashTypeCorrect == DashSpec => []DashTypeOK
<1>1. ASSUME PageInv PROVE DashTypeOK
  <2>1. PageTyped
    BY <1>1 DEF PageInv
  <2>2. /\ db.row \in {None, "air", "down"} /\ db.track \in Content /\ db.path \in Content
        /\ db.pred \in Content /\ db.truth \in Content /\ db.sub \in Content
        /\ db.alert \in Content
    BY <2>1, RecordFields DEF PageTyped
  <2>3. DOMAIN db = {"row"} \cup Tables
    BY <2>1 DEF PageTyped, Tabled, Tables
  <2>4. DOMAIN fetches = 1..Len(fetches)
    BY <2>1 DEF PageTyped
  <2> QED  BY <2>1, <2>2, <2>3, <2>4 DEF PageTyped, DashTypeOK, Tables, Jobs, Names
<1> QED  BY <1>1, PageHolds, PTL

(* A page left alone shows what the store holds, for any number of fetches *)
(* that run at a time, however commits fell between their queries: what a  *)
(* commit rings no name for is nothing that the view shows, so the         *)
(* youngest fetch brings it all (store.py, web.py and events.js).          *)
THEOREM PageCorrect == DashSpec => []PageCatchesUp
<1>1. ASSUME PageInv PROVE PageCatchesUp
  BY <1>1 DEF PageInv, UpToDate, PageCatchesUp, Quiet, Settled
<1> QED  BY <1>1, PageHolds, PTL

-----------------------------------------------------------------------------
(* The predictions.                                                        *)

Points == [alt: Int, time: Nat]
Rising(p) == \A i \in 1..Len(p) - 1 : p[i].alt < p[i + 1].alt
Sinking(p) == \A i \in 1..Len(p) - 1 : p[i].alt > p[i + 1].alt

(* A path that is being drawn: it starts somewhere, has no gap longer than *)
(* its stride, and ends no longer ago than the steps since it was sampled. *)
Trail(p, stride, steps, time, max) ==
  /\ p \in Seq(Points) /\ p # <<>> /\ Len(p) <= 2 * max
  /\ stride \in Nat \ {0}
  /\ Steady(p, stride)
  /\ Last(p).time <= time /\ time - Last(p).time <= 2 * (steps % stride)

Sonde == [state: {"ascent", "descent", "landed"}, alt: 0..Top, lo: Nat, hi: Nat]
Phases == {"idle", "winds", "field", "column", "climb", "fall", "ensemble", "done"}
Offsets == NoOffset..Tired
Runs == [at: Phases, kind: Kinds, source: {"none", "measured", "gfs"}, field: BOOLEAN,
         fill: {"unasked", "pair", "none"}, burst: Nat, rate: Nat, alt: Int,
         steps: 0..MaxSteps, time: Nat, climb: Seq(Points), climbStride: Nat \ {0},
         cut: BOOLEAN, fall: Seq(Points), stride: Nat \ {0}, guessed: SUBSET Int,
         offset: Offsets]

PredictTyped ==
  /\ sonde \in Sonde /\ sonde.lo <= sonde.alt /\ sonde.alt <= sonde.hi
  /\ files \in {"pair", "none"}
  /\ cache \in [Kinds -> [age: Offsets, failed: BOOLEAN]]
  /\ run \in Runs

(* Nothing is flown before the winds are chosen.                           *)
Preparing ==
  /\ run.at = "idle" => run = Idle
  /\ run.at \in {"idle", "winds", "field", "column"} =>
       /\ run.fill = "unasked" /\ run.guessed = {} /\ run.steps = 0 /\ run.time = 0
       /\ run.climb = <<>> /\ run.climbStride = 1 /\ run.fall = <<>> /\ run.stride = 1
       /\ ~run.cut
  /\ run.at \in {"field", "column"} => run.source # "none"

(* The climb so far, and how far the sonde is above what was drawn last.   *)
Climbing ==
  run.at = "climb" =>
    /\ run.kind = "preburst" /\ run.fall = <<>> /\ run.stride = 1 /\ ~run.cut
    /\ run.rate > 0
    /\ Trail(run.climb, run.climbStride, run.steps, run.time, ClimbPoints)
    /\ run.climb[1] = Point(sonde.alt, 0) /\ Rising(run.climb)
    /\ Last(run.climb).alt <= run.alt
    /\ 2 * (run.alt - Last(run.climb).alt) = run.rate * (run.time - Last(run.climb).time)

(* Where the fall began.                                                   *)
Begun ==
  /\ run.fall # <<>> /\ run.climbStride \in Nat \ {0}
  /\ run.kind = "descent" => run.climb = <<>> /\ run.fall[1] = Point(sonde.alt, 0)
  /\ run.kind = "preburst" =>
       /\ run.climb # <<>> /\ Len(run.climb) <= 2 * ClimbPoints
       /\ run.climb[1] = Point(sonde.alt, 0)
       /\ Steady(run.climb, run.climbStride) /\ Rising(run.climb)
       /\ ~run.cut =>
            /\ run.fall[1].time - Last(run.climb).time \in 0..2 * run.climbStride
            /\ run.burst - Last(run.climb).alt < run.rate * run.climbStride + 1

Falling ==
  run.at = "fall" =>
    /\ Begun
    /\ Trail(run.fall, run.stride, run.steps, run.time, FallPoints)
    /\ Sinking(run.fall) /\ Last(run.fall).alt >= run.alt
    /\ run.steps = 0 => run.fall = <<Point(run.alt, run.time)>>

(* All of what the fall drew but the landing.                              *)
Landing ==
  run.at \in {"ensemble", "done"} =>
    /\ Begun /\ Len(run.fall) <= 2 * FallPoints + 1
    /\ Steady(Front(run.fall), run.stride) /\ Sinking(Front(run.fall))
    /\ Last(run.fall) = Point(run.alt, run.time)
    /\ Front(run.fall) # <<>> =>
         run.time - Last(Front(run.fall)).time \in -1..2 * run.stride

(* Levels are guessed only outside what was measured, and only when enough *)
(* was measured, and no winds were to be had for the rest.                 *)
Guesses(r) ==
  r.kind = "preburst" =>
    /\ sonde.alt < r.burst
    /\ IF r.field \/ r.source = "gfs" \/ r.fill = "pair" THEN r.guessed = {}
       ELSE /\ Covered(r.burst) /\ r.fill = "none"
            /\ \A a \in r.guessed : ~InColumn(a)
Guessing == run.at \in {"climb", "fall", "ensemble", "done"} => Guesses(run)

OffsetFits == OffsetIsRecent /\ (run.at # "done" => run.offset = NoOffset)

PredictInv ==
  PredictTyped /\ Preparing /\ Climbing /\ Falling /\ Landing /\ Guessing /\ OffsetFits

LEMMA Remainders ==
  ASSUME NEW n \in Nat, NEW k \in Nat \ {0}
  PROVE  /\ n % k \in 0..k - 1
         /\ (n + 1) % k = IF n % k = k - 1 THEN 0 ELSE (n % k) + 1
<1> DEFINE a == n \div k
           b == (n + 1) \div k
           r == n % k
           t == (n + 1) % k
<1>1. a \in Int /\ b \in Int /\ r \in 0..k - 1 /\ t \in 0..k - 1
  OBVIOUS
<1>2. n = (k * a) + r /\ n + 1 = (k * b) + t
  OBVIOUS
<1> HIDE DEF a, b, r, t
<1>3. PICK d \in Int : d = b - a
  BY <1>1
<1>4. (k * d) = (k * b) - (k * a)
  BY <1>1, <1>3
<1>5. (k * d) = r + 1 - t
  BY <1>1, <1>2, <1>4
<1>6. (d >= 1 => (k * d) >= k) /\ (d <= -1 => (k * d) <= -k) /\ (d = 0 => (k * d) = 0)
  OBVIOUS
<1>7. CASE r = k - 1
  <2>1. (k * d) = k - t
    BY <1>1, <1>5, <1>7
  <2>2. d >= 1
    BY <1>1, <1>6, <2>1
  <2> QED  BY <1>1, <1>6, <1>7, <2>1, <2>2 DEF r, t
<1>8. CASE r < k - 1
  <2>1. d = 0
    BY <1>1, <1>5, <1>6, <1>8
  <2> QED  BY <1>1, <1>5, <1>6, <1>8, <2>1 DEF r, t
<1> QED  BY <1>1, <1>7, <1>8

LEMMA HalfOf ==
  ASSUME NEW n \in Nat
  PROVE  n \div 2 \in Nat /\ (n = 2 * (n \div 2) \/ n = 2 * (n \div 2) + 1)
OBVIOUS

LEMMA ThinnedForm ==
  ASSUME NEW p \in Seq(Points), Len(p) > 1
  PROVE  LET m == Len(p) \div 2
         IN  /\ Thinned(p) \in Seq(Points) /\ Len(Thinned(p)) = m + 1
             /\ m \in Nat \ {0}
             /\ \A i \in 1..m : Thinned(p)[i] = p[2 * i - 1]
             /\ Thinned(p)[m + 1] = p[Len(p)]
<1> DEFINE m == Len(p) \div 2
           f == [i \in 1..m |-> p[2 * i - 1]]
<1>1. m \in Nat \ {0} /\ 2 * m <= Len(p)
  BY HalfOf
<1>2. f \in Seq(Points) /\ Len(f) = m
  <2>1. \A i \in 1..m : 2 * i - 1 \in 1..Len(p)
    BY <1>1
  <2> HIDE DEF m
  <2>2. f \in [1..m -> Points]
    BY <2>1
  <2> QED  BY <1>1, <2>2
<1>3. Thinned(p) = Append(f, p[Len(p)])
  BY DEF Thinned, Last
<1>4. p[Len(p)] \in Points
  OBVIOUS
<1>5. \A i \in 1..m : f[i] = p[2 * i - 1]
  OBVIOUS
<1> HIDE DEF f, m
<1> QED  BY <1>1, <1>2, <1>3, <1>4, <1>5 DEF m

LEMMA ThinnedKeeps ==
  ASSUME NEW p \in Seq(Points), Len(p) > 1, NEW s \in Nat
  PROVE  /\ Thinned(p)[1] = p[1] /\ Last(Thinned(p)) = Last(p)
         /\ Steady(p, s) => Steady(Thinned(p), 2 * s)
         /\ Rising(p) => Rising(Thinned(p))
         /\ Sinking(p) => Sinking(Thinned(p))
<1> DEFINE m == Len(p) \div 2
           q == Thinned(p)
<1>1. /\ q \in Seq(Points) /\ Len(q) = m + 1 /\ m \in Nat \ {0}
      /\ \A i \in 1..m : q[i] = p[2 * i - 1]
      /\ q[m + 1] = p[Len(p)]
  BY ThinnedForm
<1>2. Len(p) \in Nat /\ (Len(p) = 2 * m \/ Len(p) = 2 * m + 1)
  BY HalfOf
<1>3. \A i \in 1..Len(p) : p[i].alt \in Int /\ p[i].time \in Nat
  <2>1. \A i \in 1..Len(p) : p[i] \in Points
    OBVIOUS
  <2> QED  BY <2>1 DEF Points
<1> HIDE DEF m, q
<1>4. ASSUME NEW i \in 1..Len(q) - 1
      PROVE  \E k \in 1..Len(p) - 1 :
               /\ q[i] = p[k]
               /\ \/ q[i + 1] = p[k + 1]
                  \/ k + 1 \in 1..Len(p) - 1 /\ q[i + 1] = p[(k + 1) + 1]
  <2> DEFINE k == 2 * i - 1
  <2>1. i \in 1..m /\ k \in 1..Len(p) - 1
    BY <1>1, <1>2
  <2>2. q[i] = p[k]
    BY <1>1, <2>1
  <2>3. CASE i = m
    <3>1. q[i + 1] = p[Len(p)]
      BY <1>1, <2>3
    <3>2. Len(p) = k + 1 \/ (Len(p) = (k + 1) + 1 /\ k + 1 \in 1..Len(p) - 1)
      BY <1>1, <1>2, <2>1, <2>3
    <3> HIDE DEF k
    <3> QED  BY <2>1, <2>2, <3>1, <3>2
  <2>4. CASE i < m
    <3>1. i + 1 \in 1..m
      BY <1>1, <2>1, <2>4
    <3>2. q[i + 1] = p[2 * (i + 1) - 1]
      BY <1>1, <3>1
    <3>3. 2 * (i + 1) - 1 = (k + 1) + 1 /\ k + 1 \in 1..Len(p) - 1
      BY <1>1, <1>2, <2>1, <2>4
    <3> HIDE DEF k
    <3> QED  BY <2>1, <2>2, <3>2, <3>3
  <2> QED  BY <1>1, <2>1, <2>3, <2>4
<1>5. q[1] = p[1] /\ Last(q) = Last(p)
  BY <1>1 DEF Last
<1>6. ASSUME Steady(p, s) PROVE Steady(q, 2 * s)
  <2> SUFFICES ASSUME NEW i \in 1..Len(q) - 1
               PROVE  q[i].time < q[i + 1].time /\ q[i + 1].time - q[i].time <= 2 * (2 * s)
    BY DEF Steady
  <2>1. PICK k \in 1..Len(p) - 1 :
          /\ q[i] = p[k]
          /\ \/ q[i + 1] = p[k + 1]
             \/ k + 1 \in 1..Len(p) - 1 /\ q[i + 1] = p[(k + 1) + 1]
    BY <1>4
  <2>2. /\ p[k].time < p[k + 1].time /\ p[k + 1].time - p[k].time <= 2 * s
        /\ k + 1 \in 1..Len(p) - 1 =>
             /\ p[k + 1].time < p[(k + 1) + 1].time
             /\ p[(k + 1) + 1].time - p[k + 1].time <= 2 * s
    BY <1>6 DEF Steady
  <2>3. /\ k \in 1..Len(p) /\ k + 1 \in 1..Len(p)
        /\ k + 1 \in 1..Len(p) - 1 => (k + 1) + 1 \in 1..Len(p)
    BY <1>2
  <2>4. /\ p[k].time \in Nat /\ p[k + 1].time \in Nat
        /\ k + 1 \in 1..Len(p) - 1 => p[(k + 1) + 1].time \in Nat
    BY <1>3, <2>3
  <2>5. CASE q[i + 1] = p[k + 1]
    BY <2>1, <2>2, <2>4, <2>5
  <2>6. CASE k + 1 \in 1..Len(p) - 1 /\ q[i + 1] = p[(k + 1) + 1]
    BY <2>1, <2>2, <2>4, <2>6
  <2> QED  BY <2>1, <2>5, <2>6
<1>7. ASSUME Rising(p) PROVE Rising(q)
  <2> SUFFICES ASSUME NEW i \in 1..Len(q) - 1 PROVE q[i].alt < q[i + 1].alt
    BY DEF Rising
  <2>1. PICK k \in 1..Len(p) - 1 :
          /\ q[i] = p[k]
          /\ \/ q[i + 1] = p[k + 1]
             \/ k + 1 \in 1..Len(p) - 1 /\ q[i + 1] = p[(k + 1) + 1]
    BY <1>4
  <2>2. /\ p[k].alt < p[k + 1].alt
        /\ k + 1 \in 1..Len(p) - 1 => p[k + 1].alt < p[(k + 1) + 1].alt
    BY <1>7 DEF Rising
  <2>3. /\ k \in 1..Len(p) /\ k + 1 \in 1..Len(p)
        /\ k + 1 \in 1..Len(p) - 1 => (k + 1) + 1 \in 1..Len(p)
    BY <1>2
  <2>4. /\ p[k].alt \in Int /\ p[k + 1].alt \in Int
        /\ k + 1 \in 1..Len(p) - 1 => p[(k + 1) + 1].alt \in Int
    BY <1>3, <2>3
  <2> QED  BY <2>1, <2>2, <2>4
<1>8. ASSUME Sinking(p) PROVE Sinking(q)
  <2> SUFFICES ASSUME NEW i \in 1..Len(q) - 1 PROVE q[i].alt > q[i + 1].alt
    BY DEF Sinking
  <2>1. PICK k \in 1..Len(p) - 1 :
          /\ q[i] = p[k]
          /\ \/ q[i + 1] = p[k + 1]
             \/ k + 1 \in 1..Len(p) - 1 /\ q[i + 1] = p[(k + 1) + 1]
    BY <1>4
  <2>2. /\ p[k].alt > p[k + 1].alt
        /\ k + 1 \in 1..Len(p) - 1 => p[k + 1].alt > p[(k + 1) + 1].alt
    BY <1>8 DEF Sinking
  <2>3. /\ k \in 1..Len(p) /\ k + 1 \in 1..Len(p)
        /\ k + 1 \in 1..Len(p) - 1 => (k + 1) + 1 \in 1..Len(p)
    BY <1>2
  <2>4. /\ p[k].alt \in Int /\ p[k + 1].alt \in Int
        /\ k + 1 \in 1..Len(p) - 1 => p[(k + 1) + 1].alt \in Int
    BY <1>3, <2>3
  <2> QED  BY <2>1, <2>2, <2>4
<1> QED  BY <1>5, <1>6, <1>7, <1>8 DEF q

LEMMA AppendKeeps ==
  ASSUME NEW p \in Seq(Points), p # <<>>, NEW x \in Points, NEW s \in Nat
  PROVE  /\ Append(p, x) \in Seq(Points) /\ Len(Append(p, x)) = Len(p) + 1 /\ Len(p) > 0
         /\ Append(p, x)[1] = p[1] /\ Last(Append(p, x)) = x /\ Front(Append(p, x)) = p
         /\ Last(p) \in Points
         /\ Steady(p, s) /\ Last(p).time < x.time /\ x.time - Last(p).time <= 2 * s =>
              Steady(Append(p, x), s)
         /\ Rising(p) /\ Last(p).alt < x.alt => Rising(Append(p, x))
         /\ Sinking(p) /\ Last(p).alt > x.alt => Sinking(Append(p, x))
<1> DEFINE q == Append(p, x)
<1>1. /\ q \in Seq(Points) /\ Len(q) = Len(p) + 1 /\ Len(p) \in Nat /\ Len(p) > 0
      /\ \A i \in 1..Len(p) : q[i] = p[i]
      /\ q[Len(p) + 1] = x
  OBVIOUS
<1>2. Front(q) = p
  <2>1. SubSeq(q, 1, Len(p)) = p
    OBVIOUS
  <2>2. Len(q) - 1 = Len(p)
    BY <1>1
  <2> QED  BY <2>1, <2>2 DEF Front
<1> HIDE DEF q
<1>3. q[1] = p[1] /\ Last(q) = x /\ Last(p) = p[Len(p)] /\ Last(p) \in Points
  BY <1>1 DEF Last
<1>4. ASSUME NEW i \in 1..Len(q) - 1
      PROVE  /\ q[i] = p[i]
             /\ \/ i \in 1..Len(p) - 1 /\ q[i + 1] = p[i + 1]
                \/ i = Len(p) /\ q[i] = Last(p) /\ q[i + 1] = x
  <2>1. i \in 1..Len(p) - 1 \/ i = Len(p)
    BY <1>1
  <2>2. CASE i \in 1..Len(p) - 1
    <3>1. i \in 1..Len(p) /\ i + 1 \in 1..Len(p)
      BY <1>1, <2>2
    <3> QED  BY <1>1, <2>2, <3>1
  <2>3. CASE i = Len(p)
    BY <1>1, <1>3, <2>3
  <2> QED  BY <2>1, <2>2, <2>3
<1>5. ASSUME Steady(p, s), Last(p).time < x.time, x.time - Last(p).time <= 2 * s
      PROVE  Steady(q, s)
  BY <1>4, <1>5 DEF Steady
<1>6. ASSUME Rising(p), Last(p).alt < x.alt PROVE Rising(q)
  BY <1>4, <1>6 DEF Rising
<1>7. ASSUME Sinking(p), Last(p).alt > x.alt PROVE Sinking(q)
  BY <1>4, <1>7 DEF Sinking
<1> QED  BY <1>1, <1>2, <1>3, <1>5, <1>6, <1>7 DEF q

(* However often a path is thinned, sampling keeps it a trail.             *)
LEMMA SampledKeeps ==
  ASSUME NEW p, NEW stride, NEW max \in Nat \ {0}, NEW n \in Nat, NEW time \in Nat,
         Trail(p, stride, n, time, max), NEW x \in Points, x.time = time + 2
  PROVE  LET s == Sampled(p, stride, max, n + 1, x)
         IN  /\ Trail(s.path, s.stride, n + 1, time + 2, max)
             /\ s.path[1] = p[1] /\ Last(s.path) \in {Last(p), x}
             /\ Rising(p) /\ Last(p).alt < x.alt => Rising(s.path)
             /\ Sinking(p) /\ Last(p).alt > x.alt => Sinking(s.path)
<1> DEFINE s == Sampled(p, stride, max, n + 1, x)
           q == Append(p, x)
<1>1. /\ p \in Seq(Points) /\ p # <<>> /\ Len(p) <= 2 * max /\ Len(p) \in Nat
      /\ stride \in Nat \ {0} /\ Steady(p, stride)
      /\ Last(p).time <= time /\ time - Last(p).time <= 2 * (n % stride)
  BY DEF Trail
<1>2. /\ q \in Seq(Points) /\ Len(q) = Len(p) + 1 /\ Len(p) > 0
      /\ q[1] = p[1] /\ Last(q) = x /\ Last(p) \in Points
      /\ Last(p).time < x.time /\ x.time - Last(p).time <= 2 * stride => Steady(q, stride)
      /\ Rising(p) /\ Last(p).alt < x.alt => Rising(q)
      /\ Sinking(p) /\ Last(p).alt > x.alt => Sinking(q)
  BY <1>1, AppendKeeps
<1>3. Last(p).time \in Nat /\ x.time \in Nat
  BY <1>2 DEF Points
<1>4. /\ n % stride \in 0..stride - 1
      /\ (n + 1) % stride = IF n % stride = stride - 1 THEN 0 ELSE (n % stride) + 1
  BY <1>1, Remainders
<1>5. s = IF (n + 1) % stride # 0 THEN [path |-> p, stride |-> stride]
          ELSE IF Len(q) < 2 * max THEN [path |-> q, stride |-> stride]
               ELSE [path |-> Thinned(q), stride |-> 2 * stride]
  BY DEF Sampled
<1> HIDE DEF s, q
<1>6. CASE (n + 1) % stride # 0
  <2>1. s.path = p /\ s.stride = stride
    BY <1>5, <1>6
  <2>2. (n + 1) % stride = (n % stride) + 1
    BY <1>1, <1>4, <1>6
  <2>3. Last(p).time <= time + 2 /\ (time + 2) - Last(p).time <= 2 * ((n + 1) % stride)
    <3> DEFINE r == n % stride
               t == (n + 1) % stride
    <3>1. r \in Nat /\ t = r + 1 /\ time - Last(p).time <= 2 * r
      BY <1>1, <1>4, <2>2
    <3> HIDE DEF r, t
    <3>2. (time + 2) - Last(p).time <= 2 * t
      BY <1>3, <3>1
    <3> QED  BY <1>1, <1>3, <3>2 DEF t
  <2>4. Trail(p, stride, n + 1, time + 2, max)
    BY <1>1, <2>3 DEF Trail
  <2> QED  BY <2>1, <2>4 DEF s
<1>7. CASE (n + 1) % stride = 0
  <2>1. x.time - Last(p).time <= 2 * stride /\ Last(p).time < x.time
    <3> DEFINE r == n % stride
    <3>1. r = stride - 1 /\ time - Last(p).time <= 2 * r
      BY <1>1, <1>4, <1>7
    <3> HIDE DEF r
    <3> QED  BY <1>1, <1>3, <3>1
  <2>2. Steady(q, stride)
    BY <1>2, <2>1
  <2>3. CASE Len(q) < 2 * max
    <3>1. s.path = q /\ s.stride = stride
      BY <1>5, <1>7, <2>3
    <3>2. Last(q).time <= time + 2 /\ (time + 2) - Last(q).time <= 2 * ((n + 1) % stride)
      BY <1>2, <1>7
    <3>3. q # <<>> /\ Len(q) <= 2 * max
      BY <1>1, <1>2, <2>3
    <3>4. Trail(q, stride, n + 1, time + 2, max)
      BY <1>1, <1>2, <2>2, <3>2, <3>3 DEF Trail
    <3> QED  BY <1>2, <3>1, <3>4 DEF s
  <2>4. CASE ~(Len(q) < 2 * max)
    <3> DEFINE w == Thinned(q)
    <3>1. s.path = w /\ s.stride = 2 * stride
      BY <1>5, <1>7, <2>4
    <3>2. Len(q) > 1
      BY <1>1, <1>2, <2>4
    <3>3. w \in Seq(Points) /\ Len(w) = Len(q) \div 2 + 1 /\ Len(q) \div 2 \in Nat \ {0}
      BY <1>2, <3>2, ThinnedForm
    <3>4. /\ w[1] = q[1] /\ Last(w) = Last(q)
          /\ Steady(w, 2 * stride)
          /\ Rising(q) => Rising(w)
          /\ Sinking(q) => Sinking(w)
      BY <1>1, <1>2, <2>2, <3>2, ThinnedKeeps
    <3>5. Len(q) = 2 * (Len(q) \div 2) \/ Len(q) = 2 * (Len(q) \div 2) + 1
      <4> DEFINE k == Len(q)
      <4>1. k \in Nat
        BY <1>1, <1>2
      <4> HIDE DEF k
      <4>2. k = 2 * (k \div 2) \/ k = 2 * (k \div 2) + 1
        BY <4>1, HalfOf
      <4> QED  BY <4>2 DEF k
    <3> HIDE DEF w
    <3>6. w # <<>> /\ Len(w) <= 2 * max
      BY <1>1, <1>2, <3>3, <3>5
    <3>7. 2 * stride \in Nat \ {0} /\ (n + 1) % (2 * stride) \in Nat
      <4> DEFINE u == 2 * stride
                 v == n + 1
      <4>1. u \in Nat \ {0} /\ v \in Nat
        BY <1>1
      <4> HIDE DEF u, v
      <4>2. v % u \in 0..u - 1
        BY <4>1, Remainders
      <4>3. v % u \in Nat
        BY <4>1, <4>2
      <4> QED  BY <4>1, <4>3 DEF u, v
    <3>8. Last(w).time <= time + 2 /\ (time + 2) - Last(w).time <= 2 * ((n + 1) % (2 * stride))
      <4>1. Last(w).time = time + 2
        BY <1>2, <3>4
      <4> DEFINE r == (n + 1) % (2 * stride)
      <4>2. r \in Nat
        BY <3>7
      <4> HIDE DEF r
      <4>3. (time + 2) - Last(w).time <= 2 * r
        BY <4>1, <4>2
      <4> QED  BY <4>1, <4>3 DEF r
    <3>9. Trail(w, 2 * stride, n + 1, time + 2, max)
      BY <3>3, <3>4, <3>6, <3>7, <3>8 DEF Trail
    <3> QED  BY <1>2, <3>1, <3>4, <3>9 DEF s
  <2> QED  BY <2>3, <2>4
<1> QED  BY <1>6, <1>7

LEMMA PredictParameters ==
  /\ Top \in Nat /\ MaxSteps \in Nat \ {0} /\ ClimbPoints \in Nat \ {0}
  /\ FallPoints \in Nat \ {0} /\ Members \in Nat /\ Interval \in Nat \ {0}
  /\ Rates \subseteq Nat \ {0} /\ Speeds \subseteq Nat \ {0}
  /\ Bursts \subseteq Nat /\ Grounds \subseteq Nat
  /\ Coverage \in Nat /\ Coverage <= 100
  /\ Tired = Interval + 1 /\ NoOffset = -1 /\ Offsets \subseteq Int
  /\ NoOffset \in Offsets /\ 0 \in Offsets
BY PredictionAssumption DEF Tired, NoOffset, Offsets

LEMMA PairExtremes ==
  ASSUME NEW a \in Int, NEW b \in Int
  PROVE  /\ Min({a, b}) = (IF a <= b THEN a ELSE b)
         /\ Max({a, b}) = (IF a >= b THEN a ELSE b)
<1> DEFINE S == {a, b}
<1>1. (\E x \in S : \A y \in S : x <= y) /\ (\E x \in S : \A y \in S : x >= y)
  OBVIOUS
<1>2. /\ Min(S) \in S /\ \A y \in S : Min(S) <= y
      /\ Max(S) \in S /\ \A y \in S : Max(S) >= y
  <2> HIDE DEF S
  <2> QED  BY <1>1 DEF Min, Max
<1> QED  BY <1>2

LEMMA TripleExtremes ==
  ASSUME NEW a \in Int, NEW b \in Int, NEW c \in Int
  PROVE  /\ Min({a, b, c}) \in {a, b, c} /\ Min({a, b, c}) <= a /\ Min({a, b, c}) <= b
         /\ Max({a, b, c}) \in {a, b, c} /\ Max({a, b, c}) >= a /\ Max({a, b, c}) >= b
<1> DEFINE S == {a, b, c}
<1>1. (\E x \in S : \A y \in S : x <= y) /\ (\E x \in S : \A y \in S : x >= y)
  OBVIOUS
<1>2. /\ Min(S) \in S /\ \A y \in S : Min(S) <= y
      /\ Max(S) \in S /\ \A y \in S : Max(S) >= y
  <2> HIDE DEF S
  <2> QED  BY <1>1 DEF Min, Max
<1> QED  BY <1>2

LEMMA IdleFits == Idle \in Runs
BY PredictParameters DEF Idle, Runs, Phases, Kinds

LEMMA RunFields ==
  ASSUME run \in Runs
  PROVE  /\ run.at \in Phases /\ run.kind \in Kinds /\ run.source \in {"none", "measured", "gfs"}
         /\ run.field \in BOOLEAN /\ run.fill \in {"unasked", "pair", "none"}
         /\ run.burst \in Nat /\ run.rate \in Nat /\ run.alt \in Int
         /\ run.steps \in Nat /\ run.steps <= MaxSteps /\ run.time \in Nat
         /\ run.climb \in Seq(Points) /\ run.climbStride \in Nat \ {0} /\ run.cut \in BOOLEAN
         /\ run.fall \in Seq(Points) /\ run.stride \in Nat \ {0}
         /\ run.guessed \in SUBSET Int /\ run.offset \in Offsets
BY PredictParameters DEF Runs

(* A wind that is asked for may only fill the edge and guess a level.      *)
LEMMA WindForm ==
  ASSUME run \in Runs, files \in {"pair", "none"}, NEW a \in Int
  PROVE  LET r == Wind(run, a)
         IN  /\ r \in Runs
             /\ r.at = run.at /\ r.kind = run.kind /\ r.source = run.source
             /\ r.field = run.field /\ r.burst = run.burst /\ r.rate = run.rate
             /\ r.alt = run.alt /\ r.steps = run.steps /\ r.time = run.time
             /\ r.climb = run.climb /\ r.climbStride = run.climbStride /\ r.cut = run.cut
             /\ r.fall = run.fall /\ r.stride = run.stride /\ r.offset = run.offset
             /\ r.fill = (IF Known(run, a) THEN run.fill ELSE Filled(run))
             /\ r.guessed = (IF Known(run, a) \/ Filled(run) = "pair" THEN run.guessed
                             ELSE run.guessed \cup {a})
<1> DEFINE r == Wind(run, a)
           fill == Filled(run)
           guessed == IF fill = "pair" THEN run.guessed ELSE run.guessed \cup {a}
<1>1. fill \in {"unasked", "pair", "none"} /\ guessed \in SUBSET Int
  BY RunFields DEF Filled
<1>2. CASE Known(run, a)
  <2>1. r = run
    BY <1>2 DEF Wind
  <2> HIDE DEF r
  <2> QED  BY <1>2, <2>1 DEF r
<1>3. CASE ~Known(run, a)
  <2>1. r = [run EXCEPT !.fill = fill, !.guessed = guessed]
    BY <1>3 DEF Wind
  <2> HIDE DEF r, fill, guessed
  <2>2. /\ r \in Runs
        /\ r.at = run.at /\ r.kind = run.kind /\ r.source = run.source
        /\ r.field = run.field /\ r.burst = run.burst /\ r.rate = run.rate
        /\ r.alt = run.alt /\ r.steps = run.steps /\ r.time = run.time
        /\ r.climb = run.climb /\ r.climbStride = run.climbStride /\ r.cut = run.cut
        /\ r.fall = run.fall /\ r.stride = run.stride /\ r.offset = run.offset
        /\ r.fill = fill /\ r.guessed = guessed
    BY <1>1, <2>1 DEF Runs
  <2> QED  BY <1>3, <2>2 DEF r, fill, guessed
<1> QED  BY <1>2, <1>3

LEMMA WindKeepsGuesses ==
  ASSUME run \in Runs, files \in {"pair", "none"}, NEW a \in Int, Guesses(run)
  PROVE  Guesses(Wind(run, a))
<1> DEFINE r == Wind(run, a)
<1>1. /\ r.kind = run.kind /\ r.source = run.source
      /\ r.field = run.field /\ r.burst = run.burst
      /\ r.fill = (IF Known(run, a) THEN run.fill ELSE Filled(run))
      /\ r.guessed = (IF Known(run, a) \/ Filled(run) = "pair" THEN run.guessed
                      ELSE run.guessed \cup {a})
  BY WindForm
<1> HIDE DEF r
<1>2. Guesses(r)
  <2> SUFFICES ASSUME run.kind = "preburst"
               PROVE  /\ sonde.alt < r.burst
                      /\ IF r.field \/ r.source = "gfs" \/ r.fill = "pair" THEN r.guessed = {}
                         ELSE /\ Covered(r.burst) /\ r.fill = "none"
                              /\ \A c \in r.guessed : ~InColumn(c)
    BY <1>1 DEF Guesses
  <2>1. CASE Known(run, a)
    BY <1>1, <2>1 DEF Guesses
  <2>2. CASE ~Known(run, a)
    <3>1. ~run.field /\ run.source # "gfs" /\ ~InColumn(a)
      BY <2>2 DEF Known
    <3>2. run.fill \in {"pair", "none"} /\ Filled(run) = run.fill
      BY <3>1 DEF Guesses, Filled
    <3> QED  BY <1>1, <2>2, <3>1, <3>2 DEF Guesses
  <2> QED  BY <2>1, <2>2
<1> QED  BY <1>2 DEF r

LEMMA EndOfPath ==
  ASSUME NEW p \in Seq(Points), p # <<>>
  PROVE  Last(p) \in Points /\ Last(p).alt \in Int /\ Last(p).time \in Nat
<1>1. Len(p) \in 1..Len(p)
  OBVIOUS
<1>2. p[Len(p)] \in Points
  BY <1>1
<1> QED  BY <1>2 DEF Last, Points

LEMMA StartOfTrail ==
  ASSUME NEW x \in Points, NEW max \in Nat \ {0}
  PROVE  /\ <<x>> \in Seq(Points) /\ Trail(<<x>>, 1, 0, x.time, max) /\ <<x>>[1] = x
         /\ Rising(<<x>>) /\ Sinking(<<x>>) /\ Last(<<x>>) = x
         /\ Front(<<x>>) = <<>> /\ Steady(<<x>>, 1) /\ <<x>> # <<>> /\ Len(<<x>>) = 1
<1> DEFINE p == <<x>>
<1>1. p \in Seq(Points) /\ Len(p) = 1 /\ p[1] = x /\ p # <<>> /\ x.time \in Nat
  BY DEF Points
<1>2. SubSeq(p, 1, 0) = <<>>
  OBVIOUS
<1> HIDE DEF p
<1>3. Front(p) = <<>> /\ Last(p) = x
  BY <1>1, <1>2 DEF Front, Last
<1>4. Rising(p) /\ Sinking(p) /\ Steady(p, 1)
  BY <1>1 DEF Rising, Sinking, Steady
<1>5. 0 % 1 = 0
  OBVIOUS
<1>6. Trail(p, 1, 0, x.time, max)
  BY <1>1, <1>3, <1>4, <1>5 DEF Trail
<1> QED  BY <1>1, <1>3, <1>4, <1>6 DEF p

-----------------------------------------------------------------------------
(* Between predictions, and before anything is flown.                      *)

LEMMA PredictionStarts == PredictInit => PredictInv
<1> SUFFICES ASSUME PredictInit PROVE PredictInv
  OBVIOUS
<1>1. PICK s \in {"ascent", "descent"}, a \in 0..Top :
        sonde = [state |-> s, alt |-> a, lo |-> a, hi |-> a]
  BY DEF PredictInit
<1>2. sonde \in Sonde /\ sonde.lo <= sonde.alt /\ sonde.alt <= sonde.hi
  BY <1>1, PredictParameters DEF Sonde
<1>3. cache \in [Kinds -> [age: Offsets, failed: BOOLEAN]]
  BY PredictParameters DEF PredictInit
<1>4. run = Idle /\ run.at = "idle" /\ run.offset = NoOffset
  BY DEF PredictInit, Idle
<1>5. PredictTyped
  BY <1>2, <1>3, <1>4, IdleFits DEF PredictTyped, PredictInit
<1>6. Preparing
  BY <1>4 DEF Preparing, Idle
<1> QED  BY <1>4, <1>5, <1>6
         DEF PredictInv, Climbing, Falling, Landing, Guessing, OffsetFits, OffsetIsRecent

LEMMA FailKeeps ==
  ASSUME PredictInv, Fail, UNCHANGED <<sonde, files, cache>>
  PROVE  PredictInv'
<1>1. run' = Idle /\ run'.at = "idle" /\ run'.offset = NoOffset
  BY DEF Fail, Idle
<1>2. PredictTyped'
  BY <1>1, IdleFits DEF PredictInv, PredictTyped
<1>3. Preparing'
  BY <1>1 DEF Preparing, Idle
<1> QED  BY <1>1, <1>2, <1>3
         DEF PredictInv, Climbing, Falling, Landing, Guessing, OffsetFits, OffsetIsRecent

LEMMA FilesKeep ==
  ASSUME PredictInv, UNCHANGED <<sonde, cache, run>>, files' \in {"pair", "none"}
  PROVE  PredictInv'
<1>1. PredictTyped'
  BY DEF PredictInv, PredictTyped
<1>2. Preparing' /\ Climbing' /\ Landing'
  BY DEF PredictInv, Preparing, Climbing, Landing, Begun
<1>3. Falling'
  BY DEF PredictInv, Falling, Begun
<1>4. Guessing' /\ OffsetFits'
  BY DEF PredictInv, Guessing, Guesses, Covered, LevelsOf, InColumn, OffsetFits, OffsetIsRecent
<1> QED  BY <1>1, <1>2, <1>3, <1>4 DEF PredictInv

LEMMA HeardKeeps ==
  ASSUME PredictInv, NEW state \in {"ascent", "descent", "landed"}, NEW alt \in 0..Top,
         Heard(state, alt)
  PROVE  PredictInv'
<1>1. /\ run.at = "idle" /\ run' = run /\ files' = files /\ run.offset = NoOffset
      /\ sonde' = [state |-> state, alt |-> alt, lo |-> Min({sonde.lo, alt, sonde.alt}),
                   hi |-> Max({sonde.hi, alt, sonde.alt})]
      /\ cache' = [k \in Kinds |-> IF cache[k].age = NoOffset THEN cache[k]
                                   ELSE [cache[k] EXCEPT !.age = Min({@ + 1, Tired})]]
  BY DEF Heard, PredictInv, OffsetFits
<1>2. /\ alt \in Nat /\ alt <= Top
      /\ sonde.lo \in Nat /\ sonde.hi \in Nat /\ sonde.alt \in Nat
  BY PredictParameters DEF PredictInv, PredictTyped, Sonde
<1>3. /\ Min({sonde.lo, alt, sonde.alt}) \in Nat /\ Min({sonde.lo, alt, sonde.alt}) <= alt
      /\ Max({sonde.hi, alt, sonde.alt}) \in Nat /\ Max({sonde.hi, alt, sonde.alt}) >= alt
  <2> DEFINE lo == sonde.lo
             hi == sonde.hi
             old == sonde.alt
  <2>1. lo \in Nat /\ hi \in Nat /\ old \in Nat /\ alt \in Nat
    BY <1>2
  <2> HIDE DEF lo, hi, old
  <2>2. Min({lo, alt, old}) \in Nat /\ Min({lo, alt, old}) <= alt
    BY <2>1, TripleExtremes
  <2>3. Max({hi, alt, old}) \in Nat /\ Max({hi, alt, old}) >= alt
    <3>1. hi \in Int /\ alt \in Int /\ old \in Int
      BY <2>1
    <3>2. Max({hi, alt, old}) \in {hi, alt, old} /\ Max({hi, alt, old}) >= alt
      BY <3>1, TripleExtremes
    <3> QED  BY <2>1, <3>2
  <2> QED  BY <2>2, <2>3 DEF lo, hi, old
<1>4. sonde' \in Sonde /\ sonde'.lo <= sonde'.alt /\ sonde'.alt <= sonde'.hi
  BY <1>1, <1>3 DEF Sonde
<1>5. cache' \in [Kinds -> [age: Offsets, failed: BOOLEAN]]
  <2> SUFFICES ASSUME NEW k \in Kinds
               PROVE  (IF cache[k].age = NoOffset THEN cache[k]
                       ELSE [cache[k] EXCEPT !.age = Min({@ + 1, Tired})])
                      \in [age: Offsets, failed: BOOLEAN]
    BY <1>1
  <2> DEFINE c == cache[k]
  <2>1. c \in [age: Offsets, failed: BOOLEAN] /\ c.age \in Offsets
    BY DEF PredictInv, PredictTyped
  <2>2. Min({c.age + 1, Tired}) \in Offsets
    BY <2>1, PairExtremes, PredictParameters DEF Offsets
  <2> HIDE DEF c
  <2>3. [c EXCEPT !.age = Min({@ + 1, Tired})] \in [age: Offsets, failed: BOOLEAN]
    BY <2>1, <2>2
  <2> QED  BY <2>1, <2>3 DEF c
<1>6. PredictTyped'
  BY <1>1, <1>4, <1>5 DEF PredictInv, PredictTyped
<1>7. Preparing'
  BY <1>1 DEF PredictInv, Preparing
<1> QED  BY <1>1, <1>6, <1>7
         DEF PredictInv, Climbing, Falling, Landing, Guessing, OffsetFits, OffsetIsRecent

(* A step from one look at the winds to the next.                          *)
LEMMA LookKeeps ==
  ASSUME PredictInv, UNCHANGED <<sonde, files, cache>>,
         run.at \in {"idle", "winds", "field"},
         NEW phase \in {"winds", "field", "column"}, NEW kind \in Kinds,
         NEW source \in {"none", "measured", "gfs"}, NEW field \in BOOLEAN,
         phase # "winds" => source # "none",
         run' = [run EXCEPT !.at = phase, !.kind = kind, !.source = source, !.field = field]
  PROVE  PredictInv'
<1>1. run \in Runs /\ run.offset = NoOffset
  BY DEF PredictInv, PredictTyped, OffsetFits
<1>2. /\ run' \in Runs /\ run'.at = phase /\ run'.source = source
      /\ run'.fill = run.fill /\ run'.guessed = run.guessed /\ run'.steps = run.steps
      /\ run'.time = run.time /\ run'.climb = run.climb
      /\ run'.climbStride = run.climbStride /\ run'.fall = run.fall
      /\ run'.stride = run.stride /\ run'.cut = run.cut /\ run'.offset = run.offset
  BY <1>1 DEF Runs, Phases
<1>3. PredictTyped'
  BY <1>2 DEF PredictInv, PredictTyped
<1>4. Preparing'
  BY <1>2 DEF PredictInv, Preparing
<1> QED  BY <1>1, <1>2, <1>3, <1>4
         DEF PredictInv, Climbing, Falling, Landing, Guessing, OffsetFits, OffsetIsRecent

LEMMA ChoosingKeeps ==
  ASSUME PredictInv,
         (\E k \in Kinds : Predict(k)) \/ NoSamples \/ WindProfile \/ \E b \in BOOLEAN : WindField(b)
  PROVE  PredictInv'
<1>1. run \in Runs /\ files \in {"pair", "none"}
  BY DEF PredictInv, PredictTyped
<1>2. /\ run.kind \in Kinds /\ run.source \in {"none", "measured", "gfs"}
      /\ run.field \in BOOLEAN
  BY <1>1, RunFields
<1>3. ASSUME NEW k \in Kinds, Predict(k) PROVE PredictInv'
  <2>1. run = Idle /\ run.at = "idle"
    BY <1>3 DEF Predict, PredictInv, Preparing
  <2>2. /\ run' = [run EXCEPT !.at = "winds", !.kind = k]
        /\ UNCHANGED <<sonde, files, cache>>
    BY <1>3, <2>1 DEF Predict
  <2>3. run' = [run EXCEPT !.at = "winds", !.kind = k, !.source = run.source, !.field = run.field]
    BY <1>1, <2>2 DEF Runs
  <2>4. run.at \in {"idle", "winds", "field"} /\ "winds" \in {"winds", "field", "column"}
    BY <2>1
  <2> QED  BY <1>2, <2>2, <2>3, <2>4, LookKeeps
<1>4. CASE NoSamples
  BY <1>4, FailKeeps DEF NoSamples
<1>5. CASE WindProfile
  <2>1. run.at = "winds" /\ UNCHANGED <<sonde, files, cache>>
    BY <1>5 DEF WindProfile
  <2>2. ASSUME NEW source \in {"measured", "gfs"},
               run' = [run EXCEPT !.at = "field", !.source = source]
        PROVE  PredictInv'
    <3>1. run' = [run EXCEPT !.at = "field", !.kind = run.kind, !.source = source,
                             !.field = run.field]
      BY <1>1, <2>2 DEF Runs
    <3> QED  BY <1>2, <2>1, <3>1, LookKeeps
  <2> QED  BY <1>5, <2>1, <2>2, FailKeeps DEF WindProfile
<1>6. ASSUME NEW b \in BOOLEAN, WindField(b) PROVE PredictInv'
  <2> DEFINE field == files = "pair" /\ (run.source = "measured" => b)
  <2>1. /\ run.at = "field" /\ UNCHANGED <<sonde, files, cache>>
        /\ run' = [run EXCEPT !.field = field, !.at = "column"]
    BY <1>6 DEF WindField
  <2>2. field \in BOOLEAN
    OBVIOUS
  <2> HIDE DEF field
  <2>3. run' = [run EXCEPT !.at = "column", !.kind = run.kind, !.source = run.source,
                           !.field = field]
    BY <1>1, <2>1 DEF Runs
  <2>4. run.source # "none"
    BY <2>1 DEF PredictInv, Preparing
  <2> QED  BY <1>2, <2>1, <2>2, <2>3, <2>4, LookKeeps
<1> QED  BY <1>3, <1>4, <1>5, <1>6

-----------------------------------------------------------------------------
(* The climb.                                                              *)

LEMMA LaunchKeeps ==
  ASSUME PredictInv, NEW estimate \in Bursts, NEW rate \in Rates, Launch(estimate, rate)
  PROVE  PredictInv'
<1> DEFINE burst == BurstAlt(estimate)
           fill == IF run.source = "measured" /\ ~run.field THEN Filled(run) ELSE run.fill
           x == Point(sonde.alt, 0)
<1>1. /\ run.at = "column" /\ run.kind = "preburst" /\ run \in Runs
      /\ files \in {"pair", "none"} /\ UNCHANGED <<sonde, files, cache>>
      /\ run.source \in {"measured", "gfs"} /\ run.fill = "unasked" /\ run.guessed = {}
      /\ run.steps = 0 /\ run.time = 0 /\ run.climbStride = 1 /\ run.stride = 1
      /\ run.fall = <<>> /\ ~run.cut /\ run.offset = NoOffset /\ run.cut \in BOOLEAN
  <2>1. run.at = "column" /\ run.kind = "preburst" /\ UNCHANGED <<sonde, files, cache>>
    BY DEF Launch
  <2>2. run \in Runs /\ files \in {"pair", "none"}
    BY DEF PredictInv, PredictTyped
  <2>3. Preparing /\ run.offset = NoOffset
    BY <2>1 DEF PredictInv, OffsetFits
  <2>4. run.source \in {"none", "measured", "gfs"} /\ run.cut \in BOOLEAN
    BY <2>2, RunFields
  <2>5. /\ run.fill = "unasked" /\ run.guessed = {} /\ run.steps = 0 /\ run.time = 0
        /\ run.climbStride = 1 /\ run.stride = 1 /\ run.fall = <<>> /\ ~run.cut
        /\ run.source # "none"
    BY <2>1, <2>3 DEF Preparing
  <2> QED  BY <2>1, <2>2, <2>3, <2>4, <2>5
<1>2. sonde.alt \in Nat /\ estimate \in Nat /\ rate \in Nat \ {0}
  BY PredictParameters DEF PredictInv, PredictTyped, Sonde
<1>3. burst \in Nat /\ sonde.alt < burst
  <2> DEFINE least == sonde.alt + 1
  <2>1. estimate \in Int /\ least \in Int /\ estimate \in Nat /\ least \in Nat
        /\ sonde.alt < least /\ burst = Max({estimate, least})
    BY <1>2 DEF BurstAlt
  <2> HIDE DEF least, burst
  <2>2. burst = (IF estimate >= least THEN estimate ELSE least)
    BY <2>1, PairExtremes
  <2> QED  BY <1>2, <2>1, <2>2
<1>4. x \in Points /\ x.time = 0 /\ x.alt = sonde.alt
  BY <1>2 DEF Point, Points
<1>5. fill \in {"unasked", "pair", "none"}
  BY <1>1 DEF Filled
<1>6. SUFFICES ASSUME ~Fail PROVE PredictInv'
  BY <1>1, FailKeeps
<1>7. /\ run' = [Fly(run, sonde.alt, burst, rate) EXCEPT !.fill = fill]
      /\ run.source = "measured" /\ ~run.field => fill = "pair" \/ Covered(burst)
  <2>1. CASE run.source = "measured" /\ ~run.field
    BY <1>6, <2>1 DEF Launch
  <2>2. CASE ~(run.source = "measured" /\ ~run.field)
    <3>1. run' = Fly(run, sonde.alt, burst, rate)
      BY <2>2 DEF Launch
    <3>2. Fly(run, sonde.alt, burst, rate) =
            [Fly(run, sonde.alt, burst, rate) EXCEPT !.fill = run.fill]
      BY <1>1 DEF Fly, Runs
    <3> QED  BY <2>2, <3>1, <3>2
  <2> QED  BY <2>1, <2>2
<1> HIDE DEF burst, fill, x
<1>8. run' = [run EXCEPT !.alt = sonde.alt, !.burst = burst, !.rate = rate, !.at = "climb",
                         !.climb = <<x>>, !.fall = <<>>, !.fill = fill]
  BY <1>1, <1>7 DEF Fly, Runs, x
<1>9. <<x>> \in Seq(Points)
  BY <1>4
<1>10. /\ run' \in Runs /\ run'.at = "climb" /\ run'.kind = "preburst"
       /\ run'.alt = sonde.alt /\ run'.burst = burst /\ run'.rate = rate
       /\ run'.climb = <<x>> /\ run'.fall = <<>> /\ run'.fill = fill
       /\ run'.source = run.source /\ run'.field = run.field /\ run'.guessed = {}
       /\ run'.steps = 0 /\ run'.time = 0 /\ run'.climbStride = 1 /\ run'.stride = 1
       /\ ~run'.cut /\ run'.offset = NoOffset
  <2>1. "climb" \in Phases /\ <<>> \in Seq(Points) /\ sonde.alt \in Int /\ rate \in Nat
    BY <1>2 DEF Phases
  <2> DEFINE alt == sonde.alt
             phase == "climb"
             climb == <<x>>
             fall == <<>>
  <2>2. /\ alt \in Int /\ burst \in Nat /\ rate \in Nat /\ phase \in Phases
        /\ climb \in Seq(Points) /\ fall \in Seq(Points)
        /\ fill \in {"unasked", "pair", "none"} /\ run \in Runs
        /\ run' = [run EXCEPT !.alt = alt, !.burst = burst, !.rate = rate, !.at = phase,
                              !.climb = climb, !.fall = fall, !.fill = fill]
    BY <1>1, <1>3, <1>5, <1>8, <1>9, <2>1
  <2> HIDE DEF alt, phase, climb, fall
  <2>3. /\ run' \in Runs /\ run'.at = phase /\ run'.kind = run.kind /\ run'.alt = alt
        /\ run'.burst = burst /\ run'.rate = rate /\ run'.climb = climb /\ run'.fall = fall
        /\ run'.fill = fill /\ run'.source = run.source /\ run'.field = run.field
        /\ run'.guessed = run.guessed /\ run'.steps = run.steps /\ run'.time = run.time
        /\ run'.climbStride = run.climbStride /\ run'.stride = run.stride
        /\ run'.cut = run.cut /\ run'.offset = run.offset
    BY <2>2 DEF Runs
  <2> QED  BY <1>1, <2>3 DEF alt, phase, climb, fall
<1>11. PredictTyped'
  BY <1>1, <1>10 DEF PredictInv, PredictTyped
<1>12. Climbing'
  <2>1. /\ Trail(<<x>>, 1, 0, 0, ClimbPoints) /\ <<x>>[1] = x /\ Rising(<<x>>)
        /\ Last(<<x>>) = x
    BY <1>4, StartOfTrail, PredictParameters
  <2>2. Last(<<x>>).alt = sonde.alt /\ Last(<<x>>).time = 0
    BY <1>4, <2>1
  <2>3. 2 * (sonde.alt - sonde.alt) = rate * (0 - 0)
    BY <1>2
  <2>4. sonde' = sonde /\ rate > 0 /\ sonde.alt <= sonde.alt /\ x = Point(sonde.alt, 0)
    BY <1>1, <1>2 DEF x
  <2> QED  BY <1>10, <2>1, <2>2, <2>3, <2>4 DEF Climbing
<1>13. Guessing'
  <2>1. (Covered(run.burst))' <=> Covered(burst)
    BY <1>1, <1>10 DEF Covered, LevelsOf
  <2>2. fill = "pair" \/ fill = "none" \/ ~(run.source = "measured" /\ ~run.field)
    BY <1>1 DEF fill, Filled
  <2> QED  BY <1>1, <1>3, <1>7, <1>10, <2>1, <2>2 DEF Guessing, Guesses
<1> QED  BY <1>10, <1>11, <1>12, <1>13
         DEF PredictInv, Preparing, Falling, Landing, OffsetFits, OffsetIsRecent

LEMMA LetFallKeeps ==
  ASSUME PredictInv, LetFall
  PROVE  PredictInv'
<1> DEFINE x == Point(sonde.alt, 0)
<1>1. /\ run.at = "column" /\ run.kind = "descent" /\ run \in Runs
      /\ UNCHANGED <<sonde, files, cache>>
      /\ run.steps = 0 /\ run.time = 0 /\ run.climbStride = 1 /\ run.stride = 1
      /\ run.climb = <<>> /\ run.offset = NoOffset
  <2>1. run.at = "column" /\ run.kind = "descent" /\ UNCHANGED <<sonde, files, cache>>
    BY DEF LetFall
  <2>2. run \in Runs
    BY DEF PredictInv, PredictTyped
  <2>3. Preparing /\ run.offset = NoOffset
    BY <2>1 DEF PredictInv, OffsetFits
  <2> QED  BY <2>1, <2>2, <2>3 DEF Preparing
<1>2. sonde.alt \in Nat
  BY PredictParameters DEF PredictInv, PredictTyped, Sonde
<1>3. x \in Points /\ x.time = 0 /\ x.alt = sonde.alt
  BY <1>2 DEF Point, Points
<1>4. run' = [run EXCEPT !.alt = sonde.alt, !.burst = 0, !.rate = 0, !.at = "fall",
                         !.climb = <<>>, !.fall = <<x>>, !.fill = run.fill]
  <2>1. run' = [run EXCEPT !.alt = sonde.alt, !.burst = 0, !.rate = 0, !.at = "fall",
                           !.climb = <<>>, !.fall = <<x>>]
    BY <1>1 DEF LetFall, Fly
  <2> QED  BY <1>1, <2>1 DEF Runs
<1> HIDE DEF x
<1>5. <<x>> \in Seq(Points)
  BY <1>3
<1>6. /\ run' \in Runs /\ run'.at = "fall" /\ run'.kind = "descent"
      /\ run'.alt = sonde.alt /\ run'.climb = <<>> /\ run'.fall = <<x>>
      /\ run'.steps = 0 /\ run'.time = 0 /\ run'.climbStride = 1 /\ run'.stride = 1
      /\ run'.offset = NoOffset
  <2>1. /\ "fall" \in Phases /\ <<>> \in Seq(Points) /\ sonde.alt \in Int /\ 0 \in Nat
        /\ run.fill \in {"unasked", "pair", "none"}
    BY <1>1, <1>2, RunFields DEF Phases
  <2> DEFINE alt == sonde.alt
             phase == "fall"
             climb == <<>>
             fall == <<x>>
             fill == run.fill
  <2>2. /\ alt \in Int /\ 0 \in Nat /\ phase \in Phases
        /\ climb \in Seq(Points) /\ fall \in Seq(Points)
        /\ fill \in {"unasked", "pair", "none"} /\ run \in Runs
        /\ run' = [run EXCEPT !.alt = alt, !.burst = 0, !.rate = 0, !.at = phase,
                              !.climb = climb, !.fall = fall, !.fill = fill]
    BY <1>1, <1>4, <1>5, <2>1
  <2> HIDE DEF alt, phase, climb, fall, fill
  <2>3. /\ run' \in Runs /\ run'.at = phase /\ run'.kind = run.kind /\ run'.alt = alt
        /\ run'.climb = climb /\ run'.fall = fall /\ run'.steps = run.steps
        /\ run'.time = run.time /\ run'.climbStride = run.climbStride
        /\ run'.stride = run.stride /\ run'.offset = run.offset
    BY <2>2 DEF Runs
  <2> QED  BY <1>1, <2>3 DEF alt, phase, climb, fall
<1>7. PredictTyped'
  BY <1>1, <1>6 DEF PredictInv, PredictTyped
<1>8. Falling'
  <2>1. /\ Trail(<<x>>, 1, 0, 0, FallPoints) /\ <<x>>[1] = x /\ Sinking(<<x>>)
        /\ Last(<<x>>) = x /\ <<x>> # <<>>
    BY <1>3, StartOfTrail, PredictParameters
  <2>2. Last(<<x>>).alt >= sonde.alt
    BY <1>2, <1>3, <2>1
  <2>3. sonde' = sonde /\ x = Point(sonde.alt, 0) /\ 1 \in Nat \ {0}
    BY <1>1 DEF x
  <2>4. Begun'
    BY <1>6, <2>1, <2>3 DEF Begun
  <2> QED  BY <1>6, <2>1, <2>2, <2>3, <2>4 DEF Falling
<1> QED  BY <1>6, <1>7, <1>8
         DEF PredictInv, Preparing, Climbing, Landing, Guessing, Guesses, OffsetFits, OffsetIsRecent

LEMMA ProductMonotone ==
  ASSUME NEW k \in Nat, NEW a \in Int, NEW b \in Int, a <= b
  PROVE  (k * a) <= (k * b)
<1>1. PICK d \in Nat : b = a + d
  <2>1. b - a \in Nat /\ b = a + (b - a)
    OBVIOUS
  <2> QED  BY <2>1
<1>2. (k * b) = (k * a) + (k * d) /\ (k * d) \in Nat /\ (k * a) \in Int
  BY <1>1
<1> QED  BY <1>2

LEMMA ClimbStepKeeps == ASSUME PredictInv, ClimbStep PROVE PredictInv'
<1> DEFINE r == Wind(run, run.alt)
           top == run.alt + run.rate
           x == Point(top, r.time + 2)
           s == Sampled(r.climb, r.climbStride, ClimbPoints, r.steps + 1, x)
<1>1. /\ run.at = "climb" /\ run.steps < MaxSteps /\ UNCHANGED <<sonde, files, cache>>
      /\ run' = [r EXCEPT !.alt = top, !.steps = @ + 1, !.time = @ + 2,
                          !.climb = s.path, !.climbStride = s.stride]
  BY DEF ClimbStep
<1>2. /\ run \in Runs /\ files \in {"pair", "none"} /\ Guesses(run) /\ run.offset = NoOffset
      /\ Climbing
  BY <1>1 DEF PredictInv, PredictTyped, Guessing, OffsetFits
<1>3. /\ run.alt \in Int /\ run.rate \in Nat /\ run.time \in Nat /\ run.steps \in Nat
  BY <1>2, RunFields
<1>4. /\ r \in Runs /\ r.kind = run.kind /\ r.time = run.time /\ r.steps = run.steps
      /\ r.climb = run.climb /\ r.climbStride = run.climbStride /\ r.fall = run.fall
      /\ r.stride = run.stride /\ r.cut = run.cut /\ r.offset = run.offset /\ r.rate = run.rate
      /\ r.at = run.at
  BY <1>2, <1>3, WindForm
<1>5. Guesses(r)
  BY <1>2, <1>3, WindKeepsGuesses
<1>6. /\ run.kind = "preburst" /\ run.fall = <<>> /\ run.stride = 1 /\ ~run.cut /\ run.rate > 0
      /\ Trail(run.climb, run.climbStride, run.steps, run.time, ClimbPoints)
      /\ run.climb[1] = Point(sonde.alt, 0) /\ Rising(run.climb)
      /\ Last(run.climb).alt <= run.alt
      /\ 2 * (run.alt - Last(run.climb).alt) = run.rate * (run.time - Last(run.climb).time)
  BY <1>1, <1>2 DEF Climbing
<1> DEFINE c == run.climb
           n == run.steps
           time == run.time
<1>7. x \in Points /\ x.time = time + 2 /\ x.alt = top
  BY <1>3, <1>4 DEF x, Point, Points
<1>8. s = Sampled(c, run.climbStride, ClimbPoints, n + 1, x)
  BY <1>4
<1>9. Last(c) \in Points /\ Last(c).alt \in Int /\ Last(c).time \in Nat
  <2>1. c \in Seq(Points) /\ c # <<>>
    BY <1>6 DEF Trail
  <2> HIDE DEF c
  <2> QED  BY <2>1, EndOfPath
<1> HIDE DEF r, x, s
<1>10. /\ Trail(s.path, s.stride, n + 1, time + 2, ClimbPoints)
       /\ s.path[1] = c[1] /\ Last(s.path) \in {Last(c), x}
       /\ Rising(c) /\ Last(c).alt < x.alt => Rising(s.path)
  <2> DEFINE stride == run.climbStride
  <2>1. Trail(c, stride, n, time, ClimbPoints) /\ n \in Nat /\ time \in Nat
    BY <1>3, <1>6
  <2>2. s = Sampled(c, stride, ClimbPoints, n + 1, x)
    BY <1>8
  <2> HIDE DEF c, stride, n, time
  <2> QED  BY <1>7, <2>1, <2>2, SampledKeeps, PredictParameters
<1>11. Rising(s.path)
  <2>1. Last(c).alt < top
    BY <1>3, <1>6, <1>9
  <2> QED  BY <1>6, <1>7, <1>10, <2>1
<1>12. s.path \in Seq(Points) /\ s.stride \in Nat \ {0}
  BY <1>10 DEF Trail
<1> DEFINE path == s.path
           stride == s.stride
<1>13. /\ run' \in Runs /\ run'.at = "climb" /\ run'.kind = "preburst" /\ run'.fall = <<>>
       /\ run'.stride = 1 /\ ~run'.cut /\ run'.rate = run.rate /\ run'.offset = NoOffset
       /\ run'.climb = path /\ run'.climbStride = stride /\ run'.alt = top
       /\ run'.steps = n + 1 /\ run'.time = time + 2
       /\ run'.source = r.source /\ run'.field = r.field /\ run'.fill = r.fill
       /\ run'.burst = r.burst /\ run'.guessed = r.guessed
  <2>1. /\ path \in Seq(Points) /\ stride \in Nat \ {0} /\ top \in Int
        /\ n + 1 \in 0..MaxSteps /\ time + 2 \in Nat
    <3>1. run.steps < MaxSteps /\ MaxSteps \in Nat
      BY <1>1, PredictParameters
    <3>2. n + 1 \in 0..MaxSteps /\ time + 2 \in Nat /\ top \in Int
      BY <1>3, <3>1
    <3> QED  BY <1>12, <3>2
  <2> DEFINE steps == n + 1
             later == time + 2
  <2>2. run' = [r EXCEPT !.alt = top, !.steps = steps, !.time = later,
                         !.climb = path, !.climbStride = stride]
    BY <1>1, <1>4
  <2>3. steps \in 0..MaxSteps /\ later \in Nat
    BY <2>1
  <2> HIDE DEF path, stride, top, steps, later
  <2>4. /\ run' \in Runs /\ run'.at = r.at /\ run'.kind = r.kind /\ run'.fall = r.fall
        /\ run'.stride = r.stride /\ run'.cut = r.cut /\ run'.rate = r.rate
        /\ run'.offset = r.offset
        /\ run'.climb = path /\ run'.climbStride = stride /\ run'.alt = top
        /\ run'.steps = steps /\ run'.time = later
        /\ run'.source = r.source /\ run'.field = r.field /\ run'.fill = r.fill
        /\ run'.burst = r.burst /\ run'.guessed = r.guessed
    BY <1>4, <2>1, <2>2, <2>3 DEF Runs
  <2> QED  BY <1>1, <1>2, <1>4, <1>6, <2>4 DEF steps, later
<1> HIDE DEF path, stride, c, n, time
<1>14. PredictTyped'
  BY <1>1, <1>13 DEF PredictInv, PredictTyped
<1>15. Climbing'
  <2>1. Last(path).alt <= top /\ 2 * (top - Last(path).alt) = run.rate * ((time + 2) - Last(path).time)
    <3> DEFINE L == Last(c)
               k == run.rate
               a == run.alt
    <3>1. /\ L.alt \in Int /\ L.time \in Nat /\ a \in Int /\ k \in Nat /\ time \in Nat
          /\ L.alt <= a /\ 2 * (a - L.alt) = k * (time - L.time) /\ top = a + k
      BY <1>3, <1>6, <1>9 DEF c, time
    <3>2. Last(path) \in {L, x} /\ x.alt = top /\ x.time = time + 2
      BY <1>7, <1>10 DEF path
    <3> HIDE DEF L, k, a, top
    <3>3. CASE Last(path) = L
      <4>1. k * ((time + 2) - L.time) = (k * (time - L.time)) + (2 * k)
        <5> DEFINE d == time - L.time
        <5>1. d \in Int /\ k \in Int /\ (time + 2) - L.time = d + 2
          BY <3>1
        <5> HIDE DEF d
        <5>2. k * (d + 2) = (k * d) + (2 * k)
          BY <5>1
        <5> QED  BY <5>1, <5>2 DEF d
      <4>2. 2 * (top - L.alt) = (2 * (a - L.alt)) + (2 * k) /\ L.alt <= top
        BY <3>1
      <4> QED  BY <3>1, <3>3, <4>1, <4>2 DEF k
    <3>4. CASE Last(path) = x
      <4>1. top \in Int /\ time \in Nat
        BY <3>1
      <4>2. k * ((time + 2) - (time + 2)) = 0 /\ 2 * (top - top) = 0 /\ top <= top
        BY <3>1, <4>1
      <4> QED  BY <3>2, <3>4, <4>2 DEF k
    <3> QED  BY <3>2, <3>3, <3>4
  <2>2. path[1] = Point(sonde.alt, 0) /\ Rising(path)
    BY <1>6, <1>10, <1>11 DEF path, c
  <2>3. Trail(path, stride, n + 1, time + 2, ClimbPoints)
    BY <1>10 DEF path, stride
  <2> HIDE DEF top
  <2> QED  BY <1>1, <1>6, <1>13, <2>1, <2>2, <2>3 DEF Climbing
<1>16. Guessing'
  <2>1. (Covered(run.burst))' <=> Covered(r.burst)
    BY <1>1, <1>13 DEF Covered, LevelsOf
  <2>2. \A a : InColumn(a)' <=> InColumn(a)
    BY <1>1 DEF InColumn
  <2>3. Guesses(run)'
    BY <1>1, <1>4, <1>5, <1>6, <1>13, <2>1, <2>2 DEF Guesses
  <2> QED  BY <2>3 DEF Guessing
<1> QED  BY <1>13, <1>14, <1>15, <1>16
         DEF PredictInv, Preparing, Falling, Landing, OffsetFits, OffsetIsRecent

(* A trail is not longer ago than its stride.                              *)
LEMMA TrailLag ==
  ASSUME NEW p, NEW stride, NEW n \in Nat, NEW time \in Nat, NEW max, Trail(p, stride, n, time, max)
  PROVE  time - Last(p).time \in 0..2 * stride
<1>1. /\ p \in Seq(Points) /\ p # <<>> /\ stride \in Nat \ {0}
      /\ Last(p).time <= time /\ time - Last(p).time <= 2 * (n % stride)
  BY DEF Trail
<1>2. Last(p).time \in Nat
  BY <1>1, EndOfPath
<1> DEFINE m == n % stride
<1>3. m \in 0..stride - 1
  BY <1>1, Remainders
<1> HIDE DEF m
<1>4. time - Last(p).time <= 2 * m
  BY <1>1 DEF m
<1> QED  BY <1>1, <1>2, <1>3, <1>4

LEMMA BurstKeeps == ASSUME PredictInv, Burst PROVE PredictInv'
<1> DEFINE x == Point(run.burst, run.time)
           cut == run.alt < run.burst
<1>1. /\ run.at = "climb" /\ UNCHANGED <<sonde, files, cache>>
      /\ run' = [run EXCEPT !.at = "fall", !.cut = cut, !.alt = run.burst,
                            !.steps = 0, !.fall = <<x>>]
  BY DEF Burst
<1>2. /\ run \in Runs /\ Guesses(run) /\ run.offset = NoOffset /\ Climbing
  BY <1>1 DEF PredictInv, PredictTyped, Guessing, OffsetFits
<1>3. /\ run.alt \in Int /\ run.rate \in Nat /\ run.time \in Nat /\ run.steps \in Nat
      /\ run.burst \in Nat /\ run.climb \in Seq(Points) /\ run.climbStride \in Nat \ {0}
  BY <1>2, RunFields
<1>4. /\ run.kind = "preburst" /\ run.stride = 1
      /\ Trail(run.climb, run.climbStride, run.steps, run.time, ClimbPoints)
      /\ run.climb[1] = Point(sonde.alt, 0) /\ Rising(run.climb)
      /\ Last(run.climb).alt <= run.alt
      /\ 2 * (run.alt - Last(run.climb).alt) = run.rate * (run.time - Last(run.climb).time)
  BY <1>1, <1>2 DEF Climbing
<1>5. x \in Points /\ x.time = run.time /\ x.alt = run.burst /\ <<x>> \in Seq(Points)
  <2>1. x \in Points /\ x.time = run.time /\ x.alt = run.burst
    BY <1>3 DEF Point, Points
  <2> HIDE DEF x
  <2> QED  BY <2>1
<1>6. cut \in BOOLEAN
  OBVIOUS
<1> HIDE DEF x, cut
<1>7. /\ run' \in Runs /\ run'.at = "fall" /\ run'.kind = "preburst" /\ run'.cut = cut
      /\ run'.alt = run.burst /\ run'.steps = 0 /\ run'.fall = <<x>> /\ run'.stride = 1
      /\ run'.time = run.time /\ run'.climb = run.climb /\ run'.climbStride = run.climbStride
      /\ run'.rate = run.rate /\ run'.burst = run.burst /\ run'.offset = NoOffset
      /\ run'.source = run.source /\ run'.field = run.field /\ run'.fill = run.fill
      /\ run'.guessed = run.guessed
  <2> DEFINE fall == <<x>>
             phase == "fall"
             alt == run.burst
  <2>1. /\ fall \in Seq(Points) /\ phase \in Phases /\ alt \in Int /\ 0 \in 0..MaxSteps
        /\ run' = [run EXCEPT !.at = phase, !.cut = cut, !.alt = alt, !.steps = 0, !.fall = fall]
    BY <1>1, <1>3, <1>5, PredictParameters DEF Phases
  <2> HIDE DEF fall, phase, alt
  <2>2. /\ run' \in Runs /\ run'.at = phase /\ run'.kind = run.kind /\ run'.cut = cut
        /\ run'.alt = alt /\ run'.steps = 0 /\ run'.fall = fall /\ run'.stride = run.stride
        /\ run'.time = run.time /\ run'.climb = run.climb /\ run'.climbStride = run.climbStride
        /\ run'.rate = run.rate /\ run'.burst = run.burst /\ run'.offset = run.offset
        /\ run'.source = run.source /\ run'.field = run.field /\ run'.fill = run.fill
        /\ run'.guessed = run.guessed
    BY <1>2, <1>6, <2>1 DEF Runs
  <2> QED  BY <1>2, <1>4, <2>2 DEF fall, phase, alt
<1>8. PredictTyped'
  BY <1>1, <1>7 DEF PredictInv, PredictTyped
<1>9. /\ <<x>>[1] = x /\ <<x>> # <<>> /\ Sinking(<<x>>) /\ Last(<<x>>) = x
      /\ Trail(<<x>>, 1, 0, x.time, FallPoints)
  BY <1>5, StartOfTrail, PredictParameters
<1>10. /\ run.time - Last(run.climb).time \in 0..2 * run.climbStride
       /\ run.climb # <<>> /\ Len(run.climb) <= 2 * ClimbPoints
       /\ Steady(run.climb, run.climbStride)
  BY <1>3, <1>4, TrailLag DEF Trail
<1>11. ~cut => run.burst - Last(run.climb).alt < run.rate * run.climbStride + 1
  <2> DEFINE L == Last(run.climb)
             k == run.rate
             w == run.climbStride
             a == run.alt
             b == run.burst
             d == run.time - L.time
  <2>1. /\ L.alt \in Int /\ L.time \in Nat /\ k \in Nat /\ w \in Nat /\ a \in Int /\ b \in Nat
        /\ d \in Int /\ d <= 2 * w /\ 2 * (a - L.alt) = k * d
    BY <1>3, <1>4, <1>10, EndOfPath
  <2>2. ~cut => b <= a
    BY <2>1 DEF cut
  <2> HIDE DEF L, k, w, a, b, d
  <2>3. (k * d) <= (k * (2 * w))
    BY <2>1, ProductMonotone
  <2>4. (k * (2 * w)) = 2 * (k * w) /\ (k * w) \in Nat
    BY <2>1
  <2>5. a - L.alt <= (k * w)
    BY <2>1, <2>3, <2>4
  <2>6. ~cut => b - L.alt < (k * w) + 1
    BY <2>1, <2>2, <2>4, <2>5
  <2> QED  BY <2>6 DEF L, k, w, b
<1>12. Begun'
  <2>1. /\ (<<x>>[1]).time = run.time /\ run.kind # "descent" /\ sonde' = sonde
    BY <1>1, <1>4, <1>5, <1>9
  <2> QED  BY <1>3, <1>4, <1>7, <1>9, <1>10, <1>11, <2>1 DEF Begun
<1>13. Falling'
  <2>1. Last(<<x>>).alt >= run.burst /\ x = Point(run.burst, run.time)
    BY <1>3, <1>5, <1>9 DEF x
  <2> QED  BY <1>5, <1>7, <1>9, <1>12, <2>1 DEF Falling
<1>14. Guessing'
  <2>1. (Covered(run.burst))' <=> Covered(run.burst)
    BY <1>1, <1>7 DEF Covered, LevelsOf
  <2>2. \A a : InColumn(a)' <=> InColumn(a)
    BY <1>1 DEF InColumn
  <2>3. Guesses(run)'
    BY <1>1, <1>2, <1>4, <1>7, <2>1, <2>2 DEF Guesses
  <2> QED  BY <2>3 DEF Guessing
<1> QED  BY <1>7, <1>8, <1>13, <1>14
         DEF PredictInv, Preparing, Climbing, Landing, OffsetFits, OffsetIsRecent

-----------------------------------------------------------------------------
(* The fall.                                                               *)

LEMMA AlreadyDownKeeps ==
  ASSUME PredictInv, NEW ground \in Grounds, AlreadyDown(ground)
  PROVE  PredictInv'
<1> DEFINE x == Point(run.alt, run.time)
<1>1. /\ run.at = "fall" /\ run.steps = 0 /\ UNCHANGED <<sonde, files, cache>>
      /\ run' = [run EXCEPT !.at = "ensemble"]
  BY DEF AlreadyDown
<1>2. /\ run \in Runs /\ Guesses(run) /\ run.offset = NoOffset /\ Begun
      /\ run.fall = <<x>>
  BY <1>1 DEF PredictInv, PredictTyped, Guessing, OffsetFits, Falling
<1>3. /\ run' \in Runs /\ run'.at = "ensemble" /\ run'.kind = run.kind /\ run'.cut = run.cut
      /\ run'.alt = run.alt /\ run'.fall = run.fall /\ run'.stride = run.stride
      /\ run'.time = run.time /\ run'.climb = run.climb /\ run'.climbStride = run.climbStride
      /\ run'.rate = run.rate /\ run'.burst = run.burst /\ run'.offset = run.offset
      /\ run'.source = run.source /\ run'.field = run.field /\ run'.fill = run.fill
      /\ run'.guessed = run.guessed
  BY <1>1, <1>2 DEF Runs, Phases
<1>4. PredictTyped'
  BY <1>1, <1>3 DEF PredictInv, PredictTyped
<1>5. /\ x \in Points
      /\ Front(<<x>>) = <<>> /\ Last(<<x>>) = x /\ Len(<<x>>) = 1
  <2>1. x \in Points
    BY <1>2, RunFields DEF Point, Points
  <2> HIDE DEF x
  <2> QED  BY <2>1, StartOfTrail, PredictParameters
<1>6. Begun'
  BY <1>1, <1>2, <1>3 DEF Begun
<1>7. Landing'
  <2>1. Steady(<<>>, run.stride) /\ Sinking(<<>>)
    BY DEF Steady, Sinking
  <2>2. 1 <= 2 * FallPoints + 1
    BY PredictParameters
  <2> QED  BY <1>2, <1>3, <1>5, <1>6, <2>1, <2>2 DEF Landing
<1>8. Guessing'
  <2>1. (Covered(run.burst))' <=> Covered(run.burst)
    BY <1>1, <1>3 DEF Covered, LevelsOf
  <2>2. \A a : InColumn(a)' <=> InColumn(a)
    BY <1>1 DEF InColumn
  <2>3. Guesses(run)'
    BY <1>1, <1>2, <1>3, <2>1, <2>2 DEF Guesses
  <2> QED  BY <2>3 DEF Guessing
<1> QED  BY <1>2, <1>3, <1>4, <1>7, <1>8
         DEF PredictInv, Preparing, Climbing, Falling, OffsetFits, OffsetIsRecent

LEMMA FallStepKeeps ==
  ASSUME PredictInv, NEW v \in Speeds, NEW ground \in Grounds, FallStep(v, ground)
  PROVE  PredictInv'
<1> DEFINE r == Wind(run, run.alt)
           down == run.alt - v
           x == Point(down, r.time + 2)
           s == Sampled(r.fall, r.stride, FallPoints, r.steps + 1, x)
           t == [r EXCEPT !.alt = down, !.steps = @ + 1, !.time = @ + 2,
                          !.fall = s.path, !.stride = s.stride]
<1>1. /\ run.at = "fall" /\ run.steps < MaxSteps /\ UNCHANGED <<sonde, files, cache>>
      /\ run' = IF down > ground THEN t
                ELSE [t EXCEPT !.at = "ensemble", !.time = @ - 1, !.alt = ground,
                               !.fall = Append(@, Point(ground, t.time - 1))]
  BY DEF FallStep
<1>2. /\ run \in Runs /\ files \in {"pair", "none"} /\ Guesses(run) /\ run.offset = NoOffset
      /\ Falling
  BY <1>1 DEF PredictInv, PredictTyped, Guessing, OffsetFits
<1>3. /\ run.alt \in Int /\ run.time \in Nat /\ run.steps \in Nat
      /\ v \in Nat \ {0} /\ ground \in Nat
  BY <1>2, RunFields, PredictParameters
<1>4. /\ r \in Runs /\ r.kind = run.kind /\ r.time = run.time /\ r.steps = run.steps
      /\ r.climb = run.climb /\ r.climbStride = run.climbStride /\ r.fall = run.fall
      /\ r.stride = run.stride /\ r.cut = run.cut /\ r.offset = run.offset /\ r.rate = run.rate
      /\ r.at = run.at /\ r.burst = run.burst
  BY <1>2, <1>3, WindForm
<1>5. Guesses(r)
  BY <1>2, <1>3, WindKeepsGuesses
<1>6. /\ Begun /\ Trail(run.fall, run.stride, run.steps, run.time, FallPoints)
      /\ Sinking(run.fall) /\ Last(run.fall).alt >= run.alt
  BY <1>1, <1>2 DEF Falling
<1> DEFINE c == run.fall
           n == run.steps
           time == run.time
<1>7. x \in Points /\ x.time = time + 2 /\ x.alt = down
  BY <1>3, <1>4 DEF x, Point, Points
<1>8. s = Sampled(c, run.stride, FallPoints, n + 1, x)
  BY <1>4
<1>9. Last(c) \in Points /\ Last(c).alt \in Int /\ Last(c).time \in Nat
  <2>1. c \in Seq(Points) /\ c # <<>>
    BY <1>6 DEF Trail
  <2> HIDE DEF c
  <2> QED  BY <2>1, EndOfPath
<1> HIDE DEF r, x, s, t
<1>10. /\ Trail(s.path, s.stride, n + 1, time + 2, FallPoints)
       /\ s.path[1] = c[1] /\ Last(s.path) \in {Last(c), x}
       /\ Sinking(c) /\ Last(c).alt > x.alt => Sinking(s.path)
  <2> DEFINE stride == run.stride
  <2>1. Trail(c, stride, n, time, FallPoints) /\ n \in Nat /\ time \in Nat
    BY <1>3, <1>6
  <2>2. s = Sampled(c, stride, FallPoints, n + 1, x)
    BY <1>8
  <2> HIDE DEF c, stride, n, time
  <2> QED  BY <1>7, <2>1, <2>2, SampledKeeps, PredictParameters
<1>11. Sinking(s.path)
  <2>1. Last(c).alt > down
    BY <1>3, <1>6, <1>9
  <2> QED  BY <1>6, <1>7, <1>10, <2>1
<1>12. Last(s.path).alt >= down
  BY <1>3, <1>6, <1>7, <1>9, <1>10
<1> DEFINE path == s.path
           stride == s.stride
<1>13. path \in Seq(Points) /\ path # <<>> /\ stride \in Nat \ {0} /\ Len(path) <= 2 * FallPoints
       /\ Steady(path, stride)
  BY <1>10 DEF Trail
<1>14. /\ t \in Runs /\ t.at = "fall" /\ t.kind = run.kind /\ t.climb = run.climb
       /\ t.climbStride = run.climbStride /\ t.cut = run.cut /\ t.rate = run.rate
       /\ t.burst = run.burst /\ t.offset = NoOffset
       /\ t.fall = path /\ t.stride = stride /\ t.alt = down
       /\ t.steps = n + 1 /\ t.time = time + 2
       /\ t.source = r.source /\ t.field = r.field /\ t.fill = r.fill /\ t.guessed = r.guessed
  <2> DEFINE steps == n + 1
             later == time + 2
  <2>1. steps \in 0..MaxSteps /\ later \in Nat /\ down \in Int
    <3>1. run.steps < MaxSteps /\ MaxSteps \in Nat
      BY <1>1, PredictParameters
    <3> QED  BY <1>3, <3>1
  <2>2. t = [r EXCEPT !.alt = down, !.steps = steps, !.time = later,
                      !.fall = path, !.stride = stride]
    BY <1>4 DEF t
  <2> HIDE DEF path, stride, down, steps, later
  <2>3. /\ t \in Runs /\ t.at = r.at /\ t.kind = r.kind /\ t.climb = r.climb
        /\ t.climbStride = r.climbStride /\ t.cut = r.cut /\ t.rate = r.rate
        /\ t.burst = r.burst /\ t.offset = r.offset
        /\ t.fall = path /\ t.stride = stride /\ t.alt = down
        /\ t.steps = steps /\ t.time = later
        /\ t.source = r.source /\ t.field = r.field /\ t.fill = r.fill /\ t.guessed = r.guessed
    BY <1>4, <1>13, <2>1, <2>2 DEF Runs
  <2> QED  BY <1>1, <1>2, <1>4, <2>3 DEF steps, later
<1>15. ASSUME run'.fall # <<>>, run'.fall[1] = path[1], run'.climb = run.climb,
              run'.climbStride = run.climbStride, run'.cut = run.cut, run'.rate = run.rate,
              run'.burst = run.burst, run'.kind = run.kind
       PROVE  Begun'
  <2>1. run'.fall[1] = run.fall[1]
    BY <1>10, <1>15
  <2> QED  BY <1>1, <1>6, <1>15, <2>1 DEF Begun
<1>16. ASSUME run'.kind = run.kind, run'.burst = run.burst, run'.source = r.source,
              run'.field = r.field, run'.fill = r.fill, run'.guessed = r.guessed
       PROVE  Guessing'
  <2>1. (Covered(run.burst))' <=> Covered(r.burst)
    BY <1>1, <1>4, <1>16 DEF Covered, LevelsOf
  <2>2. \A a : InColumn(a)' <=> InColumn(a)
    BY <1>1 DEF InColumn
  <2>3. Guesses(run)'
    BY <1>1, <1>4, <1>5, <1>16, <2>1, <2>2 DEF Guesses
  <2> QED  BY <2>3 DEF Guessing
<1>17. CASE down > ground
  <2>1. run' = t
    BY <1>1, <1>17
  <2>2. PredictTyped'
    BY <1>1, <1>14, <2>1 DEF PredictInv, PredictTyped
  <2>3. Begun'
    BY <1>13, <1>14, <1>15, <2>1
  <2>4. n + 1 # 0
    BY <1>3
  <2> HIDE DEF down, path, stride, c, n, time
  <2>5. Falling'
    BY <1>10, <1>11, <1>12, <1>14, <2>1, <2>3, <2>4 DEF Falling, path, stride
  <2>6. Guessing'
    BY <1>14, <1>16, <2>1
  <2> QED  BY <1>14, <2>1, <2>2, <2>5, <2>6
           DEF PredictInv, Preparing, Climbing, Landing, OffsetFits, OffsetIsRecent
<1>18. CASE ~(down > ground)
  <2> DEFINE down1 == time + 1
             y == Point(ground, down1)
             whole == Append(path, y)
  <2>1. y \in Points /\ down1 \in Nat
    BY <1>3 DEF Point, Points
  <2>2. t.time - 1 = down1
    BY <1>3, <1>14
  <2>3. run' = [t EXCEPT !.at = "ensemble", !.time = down1, !.alt = ground, !.fall = whole]
    BY <1>1, <1>14, <1>18, <2>2
  <2> HIDE DEF y, down1, path, c
  <2>4. /\ whole \in Seq(Points) /\ Len(whole) = Len(path) + 1 /\ whole[1] = path[1]
        /\ Last(whole) = y /\ Front(whole) = path /\ Len(whole) > 0
    BY <1>13, <2>1, AppendKeeps
  <2> HIDE DEF whole
  <2>5. /\ run' \in Runs /\ run'.at = "ensemble" /\ run'.kind = run.kind /\ run'.cut = run.cut
        /\ run'.alt = ground /\ run'.fall = whole /\ run'.stride = stride
        /\ run'.time = down1 /\ run'.climb = run.climb /\ run'.climbStride = run.climbStride
        /\ run'.rate = run.rate /\ run'.burst = run.burst /\ run'.offset = NoOffset
        /\ run'.source = r.source /\ run'.field = r.field /\ run'.fill = r.fill
        /\ run'.guessed = r.guessed
    <3>1. ground \in Int /\ "ensemble" \in Phases
      BY <1>3 DEF Phases
    <3> DEFINE phase == "ensemble"
    <3>2. phase \in Phases /\ run' = [t EXCEPT !.at = phase, !.time = down1, !.alt = ground, !.fall = whole]
      BY <2>3, <3>1
    <3> HIDE DEF phase, stride
    <3>3. /\ run' \in Runs /\ run'.at = phase /\ run'.kind = t.kind /\ run'.cut = t.cut
          /\ run'.alt = ground /\ run'.fall = whole /\ run'.stride = t.stride
          /\ run'.time = down1 /\ run'.climb = t.climb /\ run'.climbStride = t.climbStride
          /\ run'.rate = t.rate /\ run'.burst = t.burst /\ run'.offset = t.offset
          /\ run'.source = t.source /\ run'.field = t.field /\ run'.fill = t.fill
          /\ run'.guessed = t.guessed
      BY <1>14, <2>1, <2>4, <3>1, <3>2 DEF Runs
    <3> QED  BY <1>14, <3>3 DEF phase
  <2>6. PredictTyped'
    BY <1>1, <2>5 DEF PredictInv, PredictTyped
  <2>7. Begun'
    <3>1. whole # <<>>
      BY <2>4
    <3> QED  BY <1>15, <2>4, <2>5, <3>1
  <2>8. down1 - Last(path).time \in -1..2 * stride
    <3> DEFINE later == time + 2
               m == n + 1
    <3>1. Trail(path, stride, m, later, FallPoints) /\ m \in Nat /\ later \in Nat
      BY <1>3, <1>10 DEF path
    <3>2. Last(path).time \in Nat
      BY <1>13, EndOfPath
    <3> HIDE DEF later, m, stride
    <3>3. later - Last(path).time \in 0..2 * stride
      BY <3>1, TrailLag
    <3>4. later = down1 + 1
      BY <1>3 DEF later, down1
    <3> QED  BY <1>13, <2>1, <3>2, <3>3, <3>4
  <2>9. Landing'
    <3>1. Len(whole) <= 2 * FallPoints + 1
      BY <1>13, <2>4, PredictParameters
    <3>2. Sinking(path) /\ y = Point(ground, down1)
      BY <1>11 DEF path, y
    <3> HIDE DEF stride
    <3> QED  BY <1>13, <2>4, <2>5, <2>7, <2>8, <3>1, <3>2 DEF Landing
  <2>10. Guessing'
    BY <1>16, <2>5
  <2> QED  BY <2>5, <2>6, <2>9, <2>10
           DEF PredictInv, Preparing, Climbing, Falling, OffsetFits, OffsetIsRecent
<1> QED  BY <1>17, <1>18

-----------------------------------------------------------------------------
(* The ensemble's offset.                                                  *)

LEMMA DoneKeeps ==
  ASSUME PredictInv, NEW age \in Offsets, run.at = "ensemble", Done(age),
         UNCHANGED <<sonde, files>>,
         cache' \in [Kinds -> [age: Offsets, failed: BOOLEAN]],
         age # NoOffset => age < Interval \/ cache'[run.kind].failed
  PROVE  PredictInv'
<1>1. /\ run \in Runs /\ Guesses(run) /\ Landing
      /\ run' = [run EXCEPT !.at = "done", !.offset = age]
  BY DEF PredictInv, PredictTyped, Guessing, Done
<1>2. /\ run' \in Runs /\ run'.at = "done" /\ run'.kind = run.kind /\ run'.cut = run.cut
      /\ run'.alt = run.alt /\ run'.fall = run.fall /\ run'.stride = run.stride
      /\ run'.time = run.time /\ run'.climb = run.climb /\ run'.climbStride = run.climbStride
      /\ run'.rate = run.rate /\ run'.burst = run.burst /\ run'.offset = age
      /\ run'.source = run.source /\ run'.field = run.field /\ run'.fill = run.fill
      /\ run'.guessed = run.guessed
  BY <1>1 DEF Runs, Phases
<1>3. PredictTyped'
  BY <1>2 DEF PredictInv, PredictTyped
<1>4. Landing'
  <2>1. Begun'
    BY <1>1, <1>2 DEF Landing, Begun
  <2> QED  BY <1>1, <1>2, <2>1 DEF Landing
<1>5. Guessing'
  <2>1. (Covered(run.burst))' <=> Covered(run.burst)
    BY <1>2 DEF Covered, LevelsOf
  <2>2. \A a : InColumn(a)' <=> InColumn(a)
    BY DEF InColumn
  <2>3. Guesses(run)'
    BY <1>1, <1>2, <2>1, <2>2 DEF Guesses
  <2> QED  BY <2>3 DEF Guessing
<1>6. OffsetFits'
  BY <1>2 DEF OffsetFits, OffsetIsRecent
<1> QED  BY <1>2, <1>3, <1>4, <1>5, <1>6
         DEF PredictInv, Preparing, Climbing, Falling

LEMMA OffsetKeeps ==
  ASSUME PredictInv, Reuse \/ \E n \in 0..Members : Ensemble(n)
  PROVE  PredictInv'
<1>1. /\ cache \in [Kinds -> [age: Offsets, failed: BOOLEAN]] /\ run.kind \in Kinds
  BY RunFields DEF PredictInv, PredictTyped
<1>2. cache[run.kind] \in [age: Offsets, failed: BOOLEAN]
  BY <1>1
<1>3. CASE Reuse
  <2>1. /\ run.at = "ensemble" /\ cache[run.kind].age < Interval
        /\ Done(cache[run.kind].age) /\ UNCHANGED <<sonde, files, cache>>
    BY <1>3 DEF Reuse, Reusable
  <2> DEFINE age == cache[run.kind].age
  <2>2. age \in Offsets /\ Done(age) /\ age < Interval
    BY <1>2, <2>1
  <2>3. cache' \in [Kinds -> [age: Offsets, failed: BOOLEAN]]
    BY <1>1, <2>1
  <2> HIDE DEF age
  <2> QED  BY <2>1, <2>2, <2>3, DoneKeeps
<1>4. ASSUME NEW n \in 0..Members, Ensemble(n) PROVE PredictInv'
  <2> DEFINE few == n < Max({3, Members \div 4})
             entry == IF few THEN [cache[run.kind] EXCEPT !.failed = TRUE]
                      ELSE [age |-> 0, failed |-> FALSE]
             age == entry.age
  <2>1. /\ run.at = "ensemble" /\ UNCHANGED <<sonde, files>> /\ Done(age)
        /\ cache' = [cache EXCEPT ![run.kind] = entry]
    BY <1>4 DEF Ensemble
  <2>2. entry \in [age: Offsets, failed: BOOLEAN] /\ (few => entry.failed) /\ (~few => age = 0)
    <3>1. CASE few
      <4>1. entry = [cache[run.kind] EXCEPT !.failed = TRUE]
        BY <3>1
      <4> HIDE DEF few, entry
      <4>2. entry \in [age: Offsets, failed: BOOLEAN] /\ entry.failed
        BY <1>2, <4>1
      <4> QED  BY <3>1, <4>2
    <3>2. CASE ~few
      <4>1. entry = [age |-> 0, failed |-> FALSE]
        BY <3>2
      <4> HIDE DEF few, entry
      <4> QED  BY <3>2, <4>1, PredictParameters
    <3> QED  BY <3>1, <3>2
  <2> HIDE DEF few, entry
  <2>3. age \in Offsets /\ cache'[run.kind] = entry
        /\ cache' \in [Kinds -> [age: Offsets, failed: BOOLEAN]]
    BY <1>1, <2>1, <2>2
  <2>4. age < Interval \/ cache'[run.kind].failed
    BY <2>2, <2>3, PredictParameters
  <2> HIDE DEF age
  <2> QED  BY <2>1, <2>3, <2>4, DoneKeeps
<1> QED  BY <1>3, <1>4

LEMMA PredictStep == PredictInv /\ [PredictNext]_predictVars => PredictInv'
<1> SUFFICES ASSUME PredictInv, [PredictNext]_predictVars PROVE PredictInv'
  OBVIOUS
<1>1. files \in {"pair", "none"} /\ sonde.alt \in 0..Top
  BY DEF PredictInv, PredictTyped, Sonde
<1>2. CASE UNCHANGED predictVars
  BY <1>1, <1>2, FilesKeep DEF predictVars
<1>3. CASE FilesChange
  BY <1>1, <1>3, FilesKeep DEF FilesChange
<1>4. CASE Climbs
  <2>1. sonde.alt + 1 \in 0..Top /\ Heard("ascent", sonde.alt + 1)
    BY <1>1, <1>4, PredictParameters DEF Climbs
  <2> QED  BY <2>1, HeardKeeps
<1>5. CASE Falls
  <2>1. sonde.alt - 1 \in 0..Top /\ Heard("descent", sonde.alt - 1)
    BY <1>1, <1>5, PredictParameters DEF Falls
  <2> QED  BY <2>1, HeardKeeps
<1>6. CASE Lands
  <2>1. Heard("landed", sonde.alt)
    BY <1>6 DEF Lands
  <2> QED  BY <1>1, <2>1, HeardKeeps
<1>7. CASE \/ \E k \in Kinds : Predict(k)
           \/ NoSamples \/ WindProfile \/ \E b \in BOOLEAN : WindField(b)
  BY <1>7, ChoosingKeeps
<1>8. CASE \E e \in Bursts, r \in Rates : Launch(e, r)
  BY <1>8, LaunchKeeps
<1>9. CASE LetFall
  BY <1>9, LetFallKeeps
<1>10. CASE ClimbStep
  BY <1>10, ClimbStepKeeps
<1>11. CASE Burst
  BY <1>11, BurstKeeps
<1>12. CASE \E g \in Grounds : AlreadyDown(g) \/ \E v \in Speeds : FallStep(v, g)
  BY <1>12, AlreadyDownKeeps, FallStepKeeps
<1>13. CASE Runaway
  BY <1>13, FailKeeps DEF Runaway
<1>14. CASE Reuse \/ \E n \in 0..Members : Ensemble(n)
  BY <1>14, OffsetKeeps
<1>15. CASE Publish
  BY <1>15, FailKeeps DEF Publish
<1> QED  BY <1>2, <1>3, <1>4, <1>5, <1>6, <1>7, <1>8, <1>9, <1>10, <1>11, <1>12, <1>13,
            <1>14, <1>15 DEF PredictNext

LEMMA PredictHolds == PredictSpec => []PredictInv
BY PredictionStarts, PredictStep, PTL DEF PredictSpec

(* What is guessed of the climb lies above all that was measured, and of   *)
(* that the coverage leaves no more.                                       *)
LEMMA GuessesAreFew ==
  ASSUME PredictTyped, Guesses(run), run.kind = "preburst"
  PROVE  100 * Cardinality({a \in run.guessed : a \in sonde.lo..run.burst - 1})
           <= (100 - Coverage) * LevelsOf(run.burst)
<1> DEFINE lo == sonde.lo
           hi == sonde.hi
           b == run.burst
           G == {a \in run.guessed : a \in lo..b - 1}
           L == b - lo
<1>1. lo \in Nat /\ hi \in Nat /\ b \in Nat /\ lo <= hi /\ lo < b /\ run.guessed \in SUBSET Int
  <2>1. /\ sonde.lo \in Nat /\ sonde.hi \in Nat /\ sonde.alt \in Nat
        /\ sonde.lo <= sonde.alt /\ sonde.alt <= sonde.hi
    BY PredictParameters DEF PredictTyped, Sonde
  <2>2. run.burst \in Nat /\ run.guessed \in SUBSET Int /\ sonde.alt < run.burst
    BY RunFields DEF PredictTyped, Guesses
  <2> QED  BY <2>1, <2>2
<1>2. \/ run.guessed = {}
      \/ Covered(b) /\ \A a \in run.guessed : ~InColumn(a)
  BY DEF Guesses
<1>3. L \in Nat /\ L > 0 /\ LevelsOf(b) = L
  BY <1>1 DEF LevelsOf
<1>4. Covered(b) <=> 100 * (hi - lo) >= Coverage * L
  <2> HIDE DEF L, lo, hi, b
  <2>1. Max({L, 1}) = L
    <3>1. L \in Int /\ 1 \in Int /\ L >= 1
      BY <1>3
    <3>2. Max({L, 1}) = IF L >= 1 THEN L ELSE 1
      BY <3>1, PairExtremes
    <3> QED  BY <3>1, <3>2
  <2> QED  BY <1>3, <2>1 DEF Covered, lo, hi
<1>5. \A a \in G : InColumn(a) \/ a \in hi..b - 1
  BY <1>1 DEF InColumn
<1> HIDE DEF lo, hi, b, L
<1>6. (100 - Coverage) * L = (100 * L) - (Coverage * L) /\ (Coverage * L) \in Nat
      /\ (100 - Coverage) * L \in Nat
  <2>1. Coverage \in Nat /\ 100 - Coverage \in Nat
    BY PredictParameters
  <2> QED  BY <1>3, <2>1
<1>7. CASE G = {}
  <2>1. Cardinality(G) = 0
    BY <1>7, FS_EmptySet
  <2> HIDE DEF G
  <2>2. 100 * Cardinality(G) <= (100 - Coverage) * L
    BY <1>6, <2>1
  <2> QED  BY <1>3, <2>2 DEF G, lo, b
<1>8. CASE G # {}
  <2>1. Covered(b) /\ G \subseteq hi..b - 1
    BY <1>2, <1>5, <1>8
  <2> HIDE DEF G
  <2> DEFINE D == hi..b - 1
  <2>2. PICK a : a \in G
    BY <1>8
  <2>3. hi <= b - 1 /\ b - 1 \in Int
    BY <1>1, <2>1, <2>2
  <2>4. IsFiniteSet(D) /\ Cardinality(D) = b - hi
    <3>1. IsFiniteSet(D) /\ Cardinality(D) = IF hi > b - 1 THEN 0 ELSE (b - 1) - hi + 1
      BY <1>1, <2>3, FS_Interval
    <3> QED  BY <1>1, <2>3, <3>1
  <2>5. Cardinality(G) <= Cardinality(D) /\ Cardinality(G) \in Nat
    <3> HIDE DEF D
    <3>1. G \in SUBSET D
      BY <2>1 DEF D
    <3> QED  BY <2>4, <3>1, FS_Subset, FS_CardinalityType
  <2>6. 100 * (b - hi) <= (100 - Coverage) * L
    <3>1. 100 * (hi - lo) >= Coverage * L
      BY <1>4, <2>1
    <3>2. 100 * L = 100 * (hi - lo) + 100 * (b - hi)
      BY <1>1 DEF L
    <3> QED  BY <1>1, <1>3, <1>6, <3>1, <3>2
  <2> HIDE DEF D
  <2>7. 100 * Cardinality(G) <= (100 - Coverage) * L
    BY <1>1, <1>6, <2>4, <2>5, <2>6
  <2> QED  BY <1>3, <2>7 DEF G, lo, b
<1> QED  BY <1>7, <1>8

(* The predictor's records, its cache and the sonde keep their types, and  *)
(* a path never has more than twice the points it was asked for, and the   *)
(* landing.                                                                *)
THEOREM PredictTypeCorrect == PredictSpec => []PredictTypeOK
<1>1. ASSUME PredictInv PROVE PredictTypeOK
  <2>1. PredictTyped
    BY <1>1 DEF PredictInv
  <2>2. /\ sonde.state \in {"ascent", "descent", "landed"} /\ sonde.alt \in 0..Top
        /\ sonde.lo <= sonde.hi /\ files \in {"pair", "none"}
    BY <2>1, PredictParameters DEF PredictTyped, Sonde
  <2>3. /\ \A k \in Kinds : cache[k].age \in NoOffset..Tired
        /\ run.at \in Phases /\ run.source \in {"none", "measured", "gfs"}
        /\ run.fill \in {"unasked", "pair", "none"} /\ run.offset \in NoOffset..Tired
    BY <2>1, RunFields DEF PredictTyped, Offsets
  <2>4. Len(run.climb) <= 2 * ClimbPoints
    <3>1. run.climb = <<>> \/ Len(run.climb) <= 2 * ClimbPoints
      BY <1>1, <2>1, <2>3, RunFields
         DEF PredictInv, PredictTyped, Preparing, Climbing, Falling, Landing, Begun, Trail,
             Phases, Kinds
    <3> QED  BY <3>1, PredictParameters
  <2>5. Len(run.fall) <= 2 * FallPoints + 1
    <3>1. \/ run.fall = <<>> \/ Len(run.fall) <= 2 * FallPoints
          \/ Len(run.fall) <= 2 * FallPoints + 1
      BY <1>1, <2>3 DEF PredictInv, Preparing, Climbing, Falling, Landing, Trail, Phases
    <3>2. Len(run.fall) \in Nat
      BY <2>1, RunFields DEF PredictTyped
    <3> QED  BY <3>1, <3>2, PredictParameters
  <2> QED  BY <2>2, <2>3, <2>4, <2>5 DEF PredictTypeOK, Phases
<1> QED  BY <1>1, PredictHolds, PTL

(* PublishedIsSound: what is published is drawn faithfully however often   *)
(* it was thinned, rests on enough known winds although the files come and *)
(* go while it is made, and has an offset that is recent, for any levels,  *)
(* rates, grounds, bounds and coverage.                                    *)
THEOREM SoundPublished == PredictSpec => []PublishedIsSound
<1>1. ASSUME PredictInv, run.at = "done" PROVE PathIsFaithful
  <2>1. /\ Begun /\ Steady(Front(run.fall), run.stride) /\ Sinking(Front(run.fall))
        /\ Last(run.fall) = Point(run.alt, run.time)
        /\ Front(run.fall) # <<>> =>
             run.time - Last(Front(run.fall)).time \in -1..2 * run.stride
    BY <1>1 DEF PredictInv, Landing
  <2>2. /\ run.kind \in Kinds /\ run.climb \in Seq(Points) /\ run.fall \in Seq(Points)
    BY <1>1, RunFields DEF PredictInv, PredictTyped
  <2>3. Last(run.fall).time = run.time /\ Last(run.fall).alt = run.alt
    BY <2>1 DEF Point
  <2>4. Drawn[1] = Point(sonde.alt, 0)
    <3>1. CASE run.kind = "descent"
      <4>1. run.climb = <<>> /\ run.fall[1] = Point(sonde.alt, 0)
        BY <2>1, <3>1 DEF Begun
      <4>2. Drawn = run.fall
        BY <2>2, <4>1 DEF Drawn
      <4> QED  BY <4>1, <4>2
    <3>2. CASE run.kind = "preburst"
      <4>1. run.climb # <<>> /\ run.climb[1] = Point(sonde.alt, 0)
        BY <2>1, <3>2 DEF Begun
      <4> DEFINE c == run.climb
                 d == run.fall
      <4>2. Drawn = c \o d /\ c \in Seq(Points) /\ d \in Seq(Points) /\ c # <<>>
        BY <2>2, <4>1 DEF Drawn
      <4> HIDE DEF c, d
      <4>3. Len(c) \in Nat \ {0}
        BY <4>2
      <4>4. (c \o d)[1] = c[1]
        BY <4>2, <4>3, ConcatProperties
      <4>5. Drawn[1] = run.climb[1]
        BY <4>2, <4>4 DEF c
      <4> QED  BY <4>1, <4>5
    <3> QED  BY <2>2, <3>1, <3>2 DEF Kinds
  <2>5. Steady(run.climb, run.climbStride) /\ Rising(run.climb)
    <3>1. CASE run.kind = "descent"
      <4>1. run.climb = <<>>
        BY <2>1, <3>1 DEF Begun
      <4> QED  BY <4>1 DEF Steady, Rising
    <3>2. CASE run.kind = "preburst"
      BY <2>1, <3>2 DEF Begun
    <3> QED  BY <2>2, <3>1, <3>2 DEF Kinds
  <2>6. run.kind = "preburst" /\ ~run.cut =>
          /\ run.fall[1].time - Last(run.climb).time \in 0..2 * run.climbStride
          /\ run.burst - Last(run.climb).alt < run.rate * run.climbStride + 1
    BY <2>1 DEF Begun
  <2> QED  BY <2>1, <2>3, <2>4, <2>5, <2>6 DEF PathIsFaithful, Rising, Sinking
<1>2. ASSUME PredictInv, run.at = "done" PROVE EnoughWind
  <2>1. PredictTyped /\ Guesses(run)
    BY <1>2 DEF PredictInv, Guessing
  <2> QED  BY <2>1, GuessesAreFew DEF EnoughWind
<1>3. ASSUME PredictInv PROVE OffsetIsRecent
  BY <1>3 DEF PredictInv, OffsetFits
<1>4. PredictInv => PublishedIsSound
  BY <1>1, <1>2, <1>3 DEF PublishedIsSound
<1> QED  BY <1>4, PredictHolds, PTL

-----------------------------------------------------------------------------
(* The pipeline, as the run checks it.                                     *)

(* A behaviour of the pipeline, whichever stage it is about and whatever   *)
(* the run bounds, is one of each stage: what is proved of a stage alone   *)
(* is true of what TLC checks.                                             *)
THEOREM PipelineImplementsStages ==
  PipelineSpec => Spec /\ IngestSpec /\ PredictSpec /\ DashSpec
<1>1. PipelineInit => Init /\ IngestInit /\ PredictInit /\ DashInit
  BY DEF PipelineInit
<1>2. ASSUME [PipelineNext]_pipelineVars
      PROVE  [Next]_vars /\ [IngestNext]_ingestVars
             /\ [PredictNext]_predictVars /\ [DashNext]_dashVars
  <2>1. CASE UNCHANGED pipelineVars
    BY <2>1 DEF pipelineVars
  <2>2. CASE PipelineNext
    BY <2>2 DEF PipelineNext
  <2> QED  BY <1>2, <2>1, <2>2
<1> QED  BY <1>1, <1>2, PTL DEF PipelineSpec, Spec, IngestSpec, PredictSpec, DashSpec

(* Every variable of the four stages keeps its type, for all constants.    *)
THEOREM PipelineTypeCorrect == PipelineSpec => []PipelineTypeOK
<1>1. TypeOK /\ IngestTypeOK /\ PredictTypeOK /\ DashTypeOK => PipelineTypeOK
  BY DEF PipelineTypeOK
<1> QED  BY <1>1, PipelineImplementsStages, TypeCorrect, IngestTypeCorrect,
            PredictTypeCorrect, DashTypeCorrect, PTL
=============================================================================
