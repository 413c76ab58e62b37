------------------------------ MODULE Ring_proofs ------------------------------
(***************************************************************************)
(* Proofs about the ring buffer, for every capacity and every set of       *)
(* payloads: it holds exactly the last n events in order, it implements    *)
(* the sliding window of EventWindow, and `after' answers a reconnecting   *)
(* client exactly when it can answer completely.                           *)
(***************************************************************************)
EXTENDS Ring, FiniteSetTheorems, SequenceTheorems, TLAPS

\* Stepping round the ring from slot s.
LEMMA SlotFacts ==
  ASSUME NEW s \in Slots, NEW i \in 0 .. Capacity
  PROVE  /\ Slot(s, i) = IF s + i < Capacity THEN s + i ELSE s + i - Capacity
         /\ Slot(s, i) \in Slots
<1> USE RingAssumption DEF Slots, Slot
<1>1. CASE s + i < Capacity
  BY <1>1
<1>2. CASE ~(s + i < Capacity)
  <2>1. s + i - Capacity \in 0 .. Capacity - 1
    BY <1>2
  <2> QED BY <1>2, <2>1
<1> QED BY <1>1, <1>2

LEMMA BatchIsSeq == Batch \subseteq Seq(Payload)
  BY RingAssumption DEF Batch

\* Every slot, index and count stays in its range.
THEOREM TypeCorrect == Spec => []TypeOK
<1>1. Init => TypeOK
  BY RingAssumption DEF Init, TypeOK, newRing, Slots
<1>2. TypeOK /\ [Next]_ringVars => TypeOK'
  <2> SUFFICES ASSUME TypeOK, [Next]_ringVars PROVE TypeOK'
    OBVIOUS
  <2> USE RingAssumption DEF TypeOK
  <2>1. ASSUME NEW lost \in Batch, newHub(lost) PROVE TypeOK'
    <3>1. lost \in Seq(Payload)
      BY BatchIsSeq
    <3> QED BY <2>1, <3>1 DEF newHub, newRing, Slots
  <2>2. ASSUME NEW e \in Payload, Publish(e) PROVE TypeOK'
    <3> DEFINE entry == [seq |-> seq + 1, ev |-> e]
    <3>1. entry \in OutEvent
      BY <2>2 DEF Publish, OutEvent
    <3>2. Slot(start, n) \in Slots /\ Slot(start, 1) \in Slots
      BY SlotFacts
    <3>3. /\ buf' \in [Slots -> OutEvent \cup {Zero}]
          /\ start' \in Slots
          /\ n' \in 0 .. Capacity
      <4>1. CASE n < Capacity
        BY <2>2, <3>1, <3>2, <4>1 DEF Publish, push
      <4>2. CASE ~(n < Capacity)
        BY <2>2, <3>1, <3>2, <4>2 DEF Publish, push
      <4> QED BY <4>1, <4>2
    <3> QED BY <2>2, <3>3 DEF Publish
  <2>4. CASE UNCHANGED ringVars
    BY <2>4 DEF ringVars
  <2> QED BY <2>1, <2>2, <2>4 DEF Next
<1> QED BY <1>1, <1>2, PTL DEF Spec

---------------------------------------------------------------------------

\* Writing a new entry keeps the last n events in order, whether the ring
\* still has room or overwrites its oldest entry.
LEMMA PushKeepsOrder ==
  ASSUME TypeOK, HoldsTheLastN, NEW e \in Payload, Publish(e)
  PROVE  HoldsTheLastN'
<1> DEFINE new == [seq |-> seq + 1, ev |-> e]
           want(i) == [seq |-> seq - n + 1 + i, ev |-> history[seq - n + 1 + i]]
<1>1. /\ start \in Slots /\ n \in 0 .. Capacity /\ seq \in Nat /\ Capacity \in Nat \ {0}
      /\ buf \in [Slots -> OutEvent \cup {Zero}]
      /\ history \in Seq(Payload) /\ Len(history) = seq /\ n <= seq
      /\ \A i \in 0 .. n - 1 : At(i) = want(i)
  BY RingAssumption DEF TypeOK, HoldsTheLastN
<1>2. seq' = seq + 1 /\ history' = Append(history, e) /\ push(new)
  BY DEF Publish
<1>3. /\ Len(history') = seq' /\ history'[seq + 1] = e
      /\ \A k \in 1 .. seq : history'[k] = history[k]
  BY <1>1, <1>2
<1>4. \A i \in 0 .. Capacity : /\ Slot(start, i) \in Slots
                               /\ Slot(start, i) = IF start + i < Capacity THEN start + i
                                                                           ELSE start + i - Capacity
  BY <1>1, SlotFacts
<1>5. CASE n < Capacity
  <2>1. n' = n + 1 /\ start' = start /\ buf' = [buf EXCEPT ![Slot(start, n)] = new]
    BY <1>2, <1>5 DEF push
  <2>2. ASSUME NEW i \in 0 .. n - 1
        PROVE  At(i)' = want(i)
    <3>1. start \in 0 .. Capacity - 1 /\ i \in 0 .. Capacity /\ n \in 0 .. Capacity
      BY <1>1, <1>5 DEF Slots
    <3>2. Slot(start, i) # Slot(start, n)
      BY <1>1, <1>4, <1>5, <3>1
    <3> QED BY <1>1, <1>4, <2>1, <3>1, <3>2 DEF At
  <2>3. buf'[Slot(start', n)] = new
    BY <1>1, <1>4, <2>1
  <2>4. ASSUME NEW i \in 0 .. n' - 1
        PROVE  At(i)' = [seq |-> seq' - n' + 1 + i, ev |-> history'[seq' - n' + 1 + i]]
    <3>1. CASE i = n
      <4>1. seq' - n' + 1 + i = seq + 1
        BY <1>1, <1>2, <2>1, <3>1
      <4> QED BY <1>3, <2>3, <3>1, <4>1 DEF At
    <3>2. CASE i # n
      <4>1. /\ i \in 0 .. n - 1 /\ seq - n + 1 + i \in 1 .. seq
            /\ seq' - n' + 1 + i = seq - n + 1 + i
        BY <1>1, <1>2, <2>1, <3>2
      <4> QED BY <1>3, <2>2, <4>1
    <3> QED BY <3>1, <3>2
  <2>5. n' <= seq'
    BY <1>1, <1>2, <2>1
  <2> QED BY <1>3, <2>4, <2>5 DEF HoldsTheLastN
<1>6. CASE ~(n < Capacity)
  <2>1. /\ n = Capacity /\ n' = n /\ start' = Slot(start, 1)
        /\ buf' = [buf EXCEPT ![start] = new]
    BY <1>1, <1>2, <1>6 DEF push
  <2>2. start \in 0 .. Capacity - 1 /\ 1 \in 0 .. Capacity
    BY <1>1 DEF Slots
  <2>3. start' = (IF start + 1 < Capacity THEN start + 1 ELSE 0) /\ start' \in Slots
    <3>1. Slot(start, 1) = IF start + 1 < Capacity THEN start + 1 ELSE start + 1 - Capacity
      BY <1>4, <2>2
    <3>2. Slot(start, 1) \in Slots
      BY <1>4, <2>2
    <3> QED BY RingAssumption, <2>1, <2>2, <3>1, <3>2
  <2>4. \A i \in 0 .. Capacity : Slot(start', i) = IF start' + i < Capacity THEN start' + i
                                                                          ELSE start' + i - Capacity
    BY <1>1, <2>3, SlotFacts
  <2>5. ASSUME NEW i \in 0 .. Capacity - 2
        PROVE  At(i)' = want(i + 1)
    <3>1. i \in 0 .. Capacity /\ i + 1 \in 0 .. Capacity /\ i + 1 \in 0 .. n - 1
      BY <1>1, <2>1
    <3>2. Slot(start', i) = Slot(start, i + 1)
      <4>1. Slot(start', i) = IF start' + i < Capacity THEN start' + i ELSE start' + i - Capacity
        BY <2>4, <3>1
      <4>2. Slot(start, i + 1) = IF start + (i + 1) < Capacity THEN start + (i + 1)
                                                               ELSE start + (i + 1) - Capacity
        BY <1>4, <3>1
      <4>3. CASE start + 1 < Capacity
        BY RingAssumption, <2>2, <2>3, <4>1, <4>2, <4>3
      <4>4. CASE ~(start + 1 < Capacity)
        BY RingAssumption, <2>2, <2>3, <4>1, <4>2, <4>4
      <4> QED BY <4>3, <4>4
    <3>3. Slot(start, i + 1) # start
      BY <1>1, <1>4, <2>2, <3>1
    <3>4. At(i)' = At(i + 1)
      BY <1>1, <1>4, <2>1, <3>1, <3>2, <3>3 DEF At
    <3> QED BY <1>1, <3>1, <3>4
  <2>6. At(Capacity - 1)' = new
    <3>1. Capacity - 1 \in 0 .. Capacity
      BY <1>1
    <3>2. Slot(start', Capacity - 1) = start
      BY <1>1, <2>2, <2>3, <2>4, <3>1
    <3> QED BY <1>1, <2>1, <3>2 DEF At
  <2>7. ASSUME NEW i \in 0 .. n' - 1
        PROVE  At(i)' = [seq |-> seq' - n' + 1 + i, ev |-> history'[seq' - n' + 1 + i]]
    <3>1. CASE i = Capacity - 1
      <4>1. seq' - n' + 1 + i = seq + 1
        BY <1>1, <1>2, <2>1, <3>1
      <4> QED BY <1>3, <2>6, <3>1, <4>1
    <3>2. CASE i # Capacity - 1
      <4>1. /\ i \in 0 .. Capacity - 2
            /\ seq - n + 1 + (i + 1) \in 1 .. seq
            /\ seq' - n' + 1 + i = seq - n + 1 + (i + 1)
        BY <1>1, <1>2, <2>1, <3>2
      <4> QED BY <1>3, <2>5, <4>1
    <3> QED BY <3>1, <3>2
  <2>8. n' <= seq'
    BY <1>1, <1>2, <2>1
  <2> QED BY <1>3, <2>7, <2>8 DEF HoldsTheLastN
<1> QED BY <1>5, <1>6

\* The ring holds exactly the last n events, oldest first, whatever its
\* capacity and however often its indices have wrapped round.
THEOREM RingHoldsTheLastN == Spec => []HoldsTheLastN
<1>1. Init => HoldsTheLastN
  BY DEF Init, HoldsTheLastN
<1>2. TypeOK /\ HoldsTheLastN /\ [Next]_ringVars => HoldsTheLastN'
  <2> SUFFICES ASSUME TypeOK, HoldsTheLastN, [Next]_ringVars PROVE HoldsTheLastN'
    OBVIOUS
  <2>1. ASSUME NEW lost \in Batch, newHub(lost) PROVE HoldsTheLastN'
    <3>1. lost \in Seq(Payload)
      BY BatchIsSeq
    <3>2. n' = 0 /\ seq' = seq + Len(lost) /\ history' = history \o lost
      BY <2>1 DEF newHub
    <3>3. /\ seq \in Nat /\ Len(lost) \in Nat
          /\ Len(history \o lost) = seq + Len(lost)
      BY <3>1 DEF TypeOK, HoldsTheLastN
    <3>4. seq' \in Nat /\ n' <= seq' /\ Len(history') = seq' /\ 0 .. n' - 1 = {}
      BY <3>2, <3>3
    <3> QED BY <3>4 DEF HoldsTheLastN
  <2>2. ASSUME NEW e \in Payload, Publish(e) PROVE HoldsTheLastN'
    BY <2>2, PushKeepsOrder
  <2>4. CASE UNCHANGED ringVars
    BY <2>4 DEF ringVars, HoldsTheLastN, At
  <2> QED BY <2>1, <2>2, <2>4 DEF Next
<1> QED BY <1>1, <1>2, TypeCorrect, PTL DEF Spec

\* `after' reports ok for exactly those clients whose whole gap the ring
\* still holds: none is refused needlessly, none is given a partial replay.
THEOREM AfterIsComplete == Spec => []AnswersWhenComplete
<1>1. TypeOK /\ HoldsTheLastN => AnswersWhenComplete
  <2> SUFFICES ASSUME TypeOK, HoldsTheLastN, NEW since \in 0 .. MaxSeq + 1
               PROVE  afterOK(since) <=> Window!Available(since)
    BY DEF AnswersWhenComplete
  <2> USE RingAssumption DEF TypeOK
  <2>1. Len(history) = seq /\ n <= seq
    BY DEF HoldsTheLastN
  <2>2. CASE n = 0
    BY <2>1, <2>2 DEF afterOK, Window!Available
  <2>3. CASE n # 0
    <3>1. At(0) = [seq |-> seq - n + 1 + 0, ev |-> history[seq - n + 1 + 0]]
      BY <2>3 DEF HoldsTheLastN
    <3>2. At(0) = buf[start]
      <4>1. start \in Slots /\ 0 \in 0 .. Capacity
        BY RingAssumption
      <4>2. Slot(start, 0) = IF start + 0 < Capacity THEN start + 0 ELSE start + 0 - Capacity
        BY <4>1, SlotFacts
      <4> QED BY <4>1, <4>2 DEF At, Slots
    <3>3. buf[start].seq = seq - n + 1
      BY <3>1, <3>2
    <3> QED BY <2>1, <2>3, <3>3 DEF afterOK, Window!Available
  <2> QED BY <2>2, <2>3
<1> QED BY <1>1, TypeCorrect, RingHoldsTheLastN, PTL

\* Every step of the ring is a step of the sliding window or leaves it alone.
THEOREM RingImplementsWindow == Spec => ImplementsWindow
<1>1. Init => Window!Init
  BY DEF Init, Window!Init
<1>2. TypeOK /\ HoldsTheLastN /\ [Next]_ringVars => [Window!Next]_(Window!windowVars)
  <2> SUFFICES ASSUME TypeOK, HoldsTheLastN, [Next]_ringVars
               PROVE  Window!Next \/ UNCHANGED <<history, n>>
    BY DEF Window!windowVars
  <2>0. Len(history) = seq
    BY DEF HoldsTheLastN
  <2>1. ASSUME NEW lost \in Batch, newHub(lost) PROVE Window!Restart
    <3>1. lost \in Seq(Payload) /\ history \in Seq(Payload) /\ seq \in Nat
      BY BatchIsSeq DEF TypeOK
    <3>2. n' = 0 /\ seq + Len(lost) <= MaxSeq /\ history' = history \o lost
      BY <2>1 DEF newHub
    <3> QED BY <2>0, <3>1, <3>2, RingAssumption DEF Window!Restart
  <2>2. ASSUME NEW e \in Payload, Publish(e) PROVE Window!Publish(e)
    <3>1. n' = IF n < Capacity THEN n + 1 ELSE n
      BY <2>2 DEF Publish, push
    <3> QED BY <2>0, <2>2, <3>1 DEF Publish, Window!Publish
  <2>4. CASE UNCHANGED ringVars
    BY <2>4 DEF ringVars
  <2> QED BY <2>1, <2>2, <2>4 DEF Next, Window!Next
<1> QED BY <1>1, <1>2, TypeCorrect, RingHoldsTheLastN, PTL DEF Spec, ImplementsWindow, Window!Spec
---------------------------------------------------------------------------
(* The loop of `after' *)

\* A set of naturals that is not empty has a least element.
LEMMA Least ==
  ASSUME NEW T \in SUBSET Nat, T # {}
  PROVE  \E x \in T : \A y \in T : x <= y
<1> DEFINE Below == OpToRel(<, Nat)
<1>1. IsWellFoundedOn(Below, Nat)
  BY NatLessThanWellFounded
<1>2. PICK x \in T : \A y \in T : <<y, x>> \notin Below
  <2> HIDE DEF Below
  <2> QED BY <1>1, WFMin
<1>3. \A y \in T : ~(y < x)
  BY <1>2 DEF OpToRel
<1> QED BY <1>3

\* A set with a natural number for each element has one with the least.
LEMMA LeastBy ==
  ASSUME NEW S, S # {}, NEW f, \A x \in S : f[x] \in Nat
  PROVE  \E x \in S : \A y \in S : f[x] <= f[y]
<1> DEFINE T == {f[x] : x \in S}
<1>1. PICK t \in T : \A u \in T : t <= u
  <2>1. T \in SUBSET Nat /\ T # {}
    OBVIOUS
  <2> QED BY <2>1, Least
<1> QED BY <1>1

\* Induction, for a set of naturals.
LEMMA Induct ==
  ASSUME NEW S \in SUBSET Nat, 0 \in S, \A i \in S : i + 1 \in S
  PROVE  S = Nat
<1> SUFFICES ASSUME Nat \ S # {} PROVE FALSE
  OBVIOUS
<1>1. PICK x \in Nat \ S : \A y \in Nat \ S : x <= y
  BY Least
<1>2. x # 0 /\ x - 1 \in Nat /\ x - 1 \in S
  BY <1>1
<1> QED BY <1>1, <1>2

\* The largest of a set of indices.
LEMMA LargestIndex ==
  ASSUME NEW m \in Nat, NEW s \in SUBSET (1 .. m), s # {}
  PROVE  Max(s) \in s /\ \A x \in s : x <= Max(s)
<1> DEFINE gap == [x \in s |-> m - x]
           top(x) == \A y \in s : x >= y
<1>1. \A x \in s : gap[x] \in Nat
  OBVIOUS
<1>2. PICK x \in s : \A y \in s : gap[x] <= gap[y]
  <2> HIDE DEF gap
  <2> QED BY <1>1, LeastBy
<1>3. top(x)
  <2> SUFFICES ASSUME NEW y \in s PROVE x >= y
    OBVIOUS
  <2>1. m - x <= m - y /\ x \in Nat /\ y \in Nat
    BY <1>2
  <2> QED BY <2>1
<1>4. Max(s) = CHOOSE y \in s : top(y)
  BY DEF Max
<1>5. Max(s) \in s /\ top(Max(s))
  <2> HIDE DEF top
  <2> QED BY <1>3, <1>4
<1>6. \A y \in s : y \in Int
  OBVIOUS
<1> QED BY <1>5, <1>6

\* What `after' sends of the entries es, in their order.
Newer(since, es) ==
  FoldLeft(LAMBDA out, e : IF e.seq > since THEN Append(out, e) ELSE out, <<>>, es)

\* g[k] is what `after' sends of the first k entries.
Sending(g, since, es, m) ==
  /\ g[0] = <<>>
  /\ \A k \in 1 .. m : g[k] = IF es[k].seq > since THEN Append(g[k - 1], es[k]) ELSE g[k - 1]
  /\ Newer(since, es) = g[m]

\* The entries of the ring are gone through one by one.
LEMMA FoldOfEntries ==
  ASSUME NEW since, NEW m \in Nat, NEW es, DOMAIN es = 1 .. m
  PROVE  \E g : Sending(g, since, es, m)
<1> DEFINE keep(c, s) == IF s.seq > since THEN Append(c, s) ELSE c
<1>0. Newer(since, es) = FoldLeft(keep, <<>>, es)
  BY DEF Newer
<1> DEFINE Def(f, s) == IF s = {} THEN <<>> ELSE keep(f[s \ {Max(s)}], es[Max(s)])
           Iter(f, k) == f = [s \in SUBSET (1 .. k) |-> Def(f, s)]
           Good == {k \in Nat : k <= m => \E f : Iter(f, k)}
<1>1. 0 \in Good
  <2> DEFINE f == [s \in SUBSET (1 .. 0) |-> <<>>]
  <2>0. \A x : x \notin 1 .. 0
    OBVIOUS
  <2>1. \A s \in SUBSET (1 .. 0) : Def(f, s) = <<>>
    <3> SUFFICES ASSUME NEW s \in SUBSET (1 .. 0) PROVE Def(f, s) = <<>>
      OBVIOUS
    <3>1. s = {}
      BY <2>0
    <3> QED BY <3>1
  <2>2. Iter(f, 0)
    <3> HIDE DEF Def
    <3> QED BY <2>1
  <2> HIDE DEF Iter
  <2> QED BY <2>2
<1>2. ASSUME NEW k \in Good PROVE k + 1 \in Good
  <2>0. k \in Nat /\ (k <= m => \E f : Iter(f, k))
    <3> HIDE DEF Iter
    <3> QED OBVIOUS
  <2> SUFFICES ASSUME k + 1 <= m PROVE \E f : Iter(f, k + 1)
    <3> HIDE DEF Iter
    <3> QED BY <2>0
  <2>1. PICK f : Iter(f, k)
    <3> HIDE DEF Iter
    <3> QED BY <2>0
  <2> DEFINE h == [s \in SUBSET (1 .. k + 1) |->
                     IF s \in SUBSET (1 .. k) THEN f[s]
                     ELSE keep(f[s \ {k + 1}], es[k + 1])]
  <2>2. ASSUME NEW s \in SUBSET (1 .. k + 1) PROVE h[s] = Def(h, s)
    <3>1. CASE s = {}
      BY <2>1, <3>1
    <3>2. CASE s # {} /\ s \in SUBSET (1 .. k)
      <4>1. Max(s) \in s
        BY <3>2, LargestIndex
      <4>2. s \ {Max(s)} \in SUBSET (1 .. k)
        BY <3>2
      <4>3. h[s] = f[s] /\ h[s \ {Max(s)}] = f[s \ {Max(s)}]
        BY <3>2, <4>2
      <4>4. f[s] = Def(f, s)
        BY <2>1, <3>2
      <4> HIDE DEF h
      <4> QED BY <3>2, <4>3, <4>4
    <3>3. CASE s \notin SUBSET (1 .. k)
      <4>1. k + 1 \in s /\ s # {}
        BY <3>3
      <4>2. Max(s) = k + 1
        <5>1. k + 1 \in Nat /\ s \in SUBSET (1 .. k + 1)
          OBVIOUS
        <5>2. Max(s) \in s /\ \A x \in s : x <= Max(s)
          BY <4>1, <5>1, LargestIndex
        <5>3. Max(s) \in 1 .. k + 1 /\ k + 1 <= Max(s)
          BY <4>1, <5>1, <5>2
        <5> QED BY <5>1, <5>3
      <4>3. s \ {k + 1} \in SUBSET (1 .. k)
        OBVIOUS
      <4>4. h[s] = keep(f[s \ {k + 1}], es[k + 1]) /\ h[s \ {k + 1}] = f[s \ {k + 1}]
        BY <3>3, <4>3
      <4> HIDE DEF h
      <4> QED BY <4>1, <4>2, <4>4
    <3> QED BY <3>1, <3>2, <3>3
  <2>3. Iter(h, k + 1)
    <3>1. [s \in SUBSET (1 .. k + 1) |-> h[s]] = [s \in SUBSET (1 .. k + 1) |-> Def(h, s)]
      <4> HIDE DEF h, Def
      <4> QED BY <2>2
    <3>2. h = [s \in SUBSET (1 .. k + 1) |-> h[s]]
      OBVIOUS
    <3> HIDE DEF h, Def
    <3> QED BY <3>1, <3>2
  <2> HIDE DEF Iter
  <2> QED BY <2>3
<1>3. Good = Nat
  <2> HIDE DEF Good
  <2>1. Good \in SUBSET Nat
    BY DEF Good
  <2> QED BY <1>1, <1>2, <2>1, Induct
<1> DEFINE iter == CHOOSE f : Iter(f, m)
<1>4. Iter(iter, m)
  <2>1. m \in Good
    BY <1>3
  <2>2. \E f : Iter(f, m)
    <3> HIDE DEF Iter
    <3> QED BY <2>1
  <2> HIDE DEF Iter
  <2> QED BY <2>2
<1>5. Newer(since, es) = iter[1 .. m]
  BY <1>0 DEF FoldLeft, MapThenFoldSet
<1> DEFINE g == [k \in 0 .. m |-> iter[1 .. k]]
<1> HIDE DEF iter
<1>6. g[0] = <<>>
  <2>0. \A x : x \notin 1 .. 0
    OBVIOUS
  <2>1. 1 .. 0 = {}
    BY <2>0, Zenon
  <2> QED BY <1>4, <2>1
<1>7. ASSUME NEW k \in 1 .. m PROVE g[k] = keep(g[k - 1], es[k])
  <2>1. 1 .. k \in SUBSET (1 .. m) /\ k \in 1 .. k
    OBVIOUS
  <2>2. Max(1 .. k) = k
    <3>1. Max(1 .. k) \in 1 .. k /\ \A x \in 1 .. k : x <= Max(1 .. k)
      BY <2>1, LargestIndex
    <3> QED BY <3>1
  <2>3. (1 .. k) \ {k} = 1 .. k - 1
    OBVIOUS
  <2>4. iter[1 .. k] = keep(iter[1 .. k - 1], es[k])
    BY <1>4, <2>1, <2>2, <2>3
  <2> QED BY <2>4
<1>8. g[m] = iter[1 .. m]
  OBVIOUS
<1> HIDE DEF g
<1> QED BY <1>5, <1>6, <1>7, <1>8 DEF Sending

\* Functions with the same domain and values are the same.
LEMMA SameFunction ==
  ASSUME NEW D, NEW X, NEW Y, NEW f \in [D -> X], NEW g \in [D -> Y], \A x \in D : f[x] = g[x]
  PROVE  f = g
<1>1. f = [x \in D |-> f[x]] /\ g = [x \in D |-> g[x]]
  OBVIOUS
<1>2. [x \in D |-> f[x]] = [x \in D |-> g[x]]
  OBVIOUS
<1> QED BY <1>1, <1>2, Zenon

\* Append, at the level of functions.
LEMMA AppendIs ==
  ASSUME NEW X, NEW m \in Nat, NEW s \in [1 .. m -> X], NEW x \in X
  PROVE  Append(s, x) = [j \in 1 .. m + 1 |-> IF j = m + 1 THEN x ELSE s[j]]
<1>1. s \in Seq(X) /\ Len(s) = m
  OBVIOUS
<1>2. /\ Append(s, x) \in Seq(X) /\ Len(Append(s, x)) = m + 1
      /\ \A j \in 1 .. m + 1 : Append(s, x)[j] = IF j = m + 1 THEN x ELSE s[j]
  BY <1>1
<1>3. Append(s, x) \in [1 .. m + 1 -> X]
  BY <1>2, LenProperties
<1> DEFINE t == [j \in 1 .. m + 1 |-> IF j = m + 1 THEN x ELSE s[j]]
<1>4. t \in [1 .. m + 1 -> X] /\ \A j \in 1 .. m + 1 : t[j] = Append(s, x)[j]
  BY <1>2
<1> HIDE DEF t
<1>5. Append(s, x) = t
  BY <1>3, <1>4, SameFunction
<1> QED BY <1>5 DEF t

\* The entries after the d-th.
From(es, d, m) == [j \in 1 .. m - d |-> es[d + j]]

\* Of entries numbered one after the other, `after' sends all but the first d,
\* when the entry after the d-th is the first the client has not seen.
LEMMA SendsTheRest ==
  ASSUME NEW X, NEW m \in Nat, NEW es \in [1 .. m -> X],
         NEW since \in Int, NEW d \in 0 .. m,
         \A k \in 1 .. m : es[k].seq = since - d + k
  PROVE  Newer(since, es) = From(es, d, m)
<1>0. DOMAIN es = 1 .. m
  OBVIOUS
<1>1. PICK g : /\ g[0] = <<>>
               /\ \A k \in 1 .. m :
                    g[k] = IF es[k].seq > since THEN Append(g[k - 1], es[k]) ELSE g[k - 1]
               /\ Newer(since, es) = g[m]
  <2>1. \E g : Sending(g, since, es, m)
    BY <1>0, FoldOfEntries
  <2> QED BY <2>1 DEF Sending
<1>2. \A k \in 1 .. m : es[k].seq > since <=> k > d
  OBVIOUS
<1> DEFINE rest(k) == [j \in 1 .. k - d |-> es[d + j]]
           Early == {k \in Nat : k <= d => g[k] = <<>>}
           Late == {k \in Nat : d + k <= m => g[d + k] = rest(d + k)}
<1>3. Early = Nat
  <2>1. 0 \in Early
    BY <1>1
  <2>2. ASSUME NEW k \in Early PROVE k + 1 \in Early
    BY <1>1, <1>2
  <2> HIDE DEF Early
  <2>3. Early \in SUBSET Nat
    BY DEF Early
  <2> QED BY <2>1, <2>2, <2>3, Induct
<1>4. g[d] = <<>>
  BY <1>3
<1>5. Late = Nat
  <2>0. \A k \in Nat : k + 1 <= m - d => rest(d + k) \in [1 .. k -> X]
    OBVIOUS
  <2>1. 0 \in Late
    <3>0. \A x : x \notin 1 .. (d + 0) - d
      OBVIOUS
    <3>1. rest(d + 0) = <<>>
      BY <3>0
    <3>2. g[d + 0] = <<>>
      BY <1>4
    <3> QED BY <3>1, <3>2
  <2>2. ASSUME NEW k \in Late, d + (k + 1) <= m PROVE g[d + (k + 1)] = rest(d + (k + 1))
    <3>1. k \in Nat /\ d + k <= m /\ g[d + k] = rest(d + k) /\ d + (k + 1) \in 1 .. m
      BY <2>2
    <3>2. g[d + (k + 1)] = Append(g[d + k], es[d + (k + 1)])
      <4>1. (d + (k + 1)) - 1 = d + k /\ d + (k + 1) > d
        BY <3>1
      <4> QED BY <1>1, <1>2, <3>1, <4>1
    <3>3. rest(d + k) \in [1 .. k -> X] /\ es[d + (k + 1)] \in X
      BY <2>0, <2>2, <3>1
    <3> DEFINE old == rest(d + k)
               longer == [j \in 1 .. k + 1 |-> IF j = k + 1 THEN es[d + (k + 1)] ELSE old[j]]
    <3>4. Append(old, es[d + (k + 1)]) = longer
      <4> DEFINE last == es[d + (k + 1)]
      <4>1. old \in [1 .. k -> X] /\ last \in X
        BY <3>3
      <4> HIDE DEF old, last
      <4>2. Append(old, last) = [j \in 1 .. k + 1 |-> IF j = k + 1 THEN last ELSE old[j]]
        BY <3>1, <4>1, AppendIs
      <4> QED BY <4>2 DEF last
    <3>5. longer = rest(d + (k + 1))
      <4>1. (d + (k + 1)) - d = k + 1 /\ (d + k) - d = k
        BY <3>1
      <4>2. \A j \in 1 .. k + 1 : longer[j] = es[d + j]
        BY <3>1, <4>1
      <4>3. longer = [j \in 1 .. k + 1 |-> longer[j]]
        OBVIOUS
      <4> HIDE DEF longer
      <4> QED BY <4>1, <4>2, <4>3
    <3> QED BY <3>1, <3>2, <3>4, <3>5
  <2>3. ASSUME NEW k \in Late PROVE k + 1 \in Late
    <3> HIDE DEF rest
    <3> QED BY <2>2, <2>3
  <2>4. Late \in SUBSET Nat
    OBVIOUS
  <2> HIDE DEF Late
  <2> QED BY <2>1, <2>3, <2>4, Induct
<1>6. g[m] = rest(m)
  <2>1. m - d \in Late /\ d + (m - d) = m
    <3> HIDE DEF Late
    <3> QED BY <1>5
  <2> HIDE DEF rest
  <2> QED BY <2>1
<1> QED BY <1>1, <1>6 DEF From

\* When `after' says ok, what it returns is what the client missed: every
\* event, once, in its order, with its own seq.
THEOREM AfterIsExact == Spec => []ReturnsWhatWasMissed
<1>1. TypeOK /\ HoldsTheLastN => ReturnsWhatWasMissed
  <2> SUFFICES ASSUME TypeOK, HoldsTheLastN, NEW since \in 0 .. MaxSeq + 1, afterOK(since)
               PROVE  /\ [k \in DOMAIN after(since) |-> after(since)[k].ev] = Window!Missed(since)
                      /\ \A k \in DOMAIN after(since) : after(since)[k].seq = since + k
    BY DEF ReturnsWhatWasMissed
  <2>1. /\ n \in Nat /\ seq \in Nat /\ since \in Nat /\ n <= seq
        /\ history \in Seq(Payload) /\ Len(history) = seq
    BY RingAssumption DEF TypeOK, HoldsTheLastN
  <2>2. CASE since = seq
    <3>1. after(since) = <<>>
      BY <2>2 DEF after
    <3>2. Window!Missed(since) = <<>>
      BY <2>1, <2>2, SubSeqEmpty DEF Window!Missed
    <3> QED BY <3>1, <3>2
  <2>3. CASE since # seq
    <3> DEFINE d == since - (seq - n)
               m == n - d
               all == [k \in 1 .. n |-> [seq |-> seq - n + k, ev |-> history[seq - n + k]]]
    <3>1. d \in 0 .. n /\ m \in Nat /\ since < seq /\ seq - since = m
      <4>1. n # 0 /\ since <= seq /\ buf[start].seq <= since + 1
        BY <2>3 DEF afterOK
      <4>2. At(0) = [seq |-> seq - n + 1 + 0, ev |-> history[seq - n + 1 + 0]]
        BY <2>1, <4>1 DEF HoldsTheLastN
      <4>3. At(0) = buf[start]
        <5>1. start \in Slots /\ 0 \in 0 .. Capacity
          BY RingAssumption DEF TypeOK
        <5>2. Slot(start, 0) = IF start + 0 < Capacity THEN start + 0 ELSE start + 0 - Capacity
          BY <5>1, SlotFacts
        <5> QED BY RingAssumption, <5>1, <5>2 DEF At, Slots
      <4>4. buf[start].seq = seq - n + 1
        BY <4>2, <4>3, <2>1
      <4> QED BY <2>1, <2>3, <4>1, <4>4
    <3>2. Contents = all
      <4>1. \A k \in 1 .. n : At(k - 1) = [seq |-> seq - n + k, ev |-> history[seq - n + k]]
        <5> SUFFICES ASSUME NEW k \in 1 .. n
                     PROVE  At(k - 1) = [seq |-> seq - n + k, ev |-> history[seq - n + k]]
          OBVIOUS
        <5>1. k - 1 \in 0 .. n - 1 /\ seq - n + 1 + (k - 1) = seq - n + k
          BY <2>1
        <5>2. \A i \in 0 .. n - 1 :
                At(i) = [seq |-> seq - n + 1 + i, ev |-> history[seq - n + 1 + i]]
          BY DEF HoldsTheLastN
        <5> QED BY <5>1, <5>2
      <4> QED BY <4>1 DEF Contents
    <3>3. all \in [1 .. n -> [seq : Int, ev : Payload]]
      <4>1. \A k \in 1 .. n : seq - n + k \in Int /\ history[seq - n + k] \in Payload
        BY <2>1
      <4> QED BY <4>1
    <3>4. \A k \in 1 .. n : all[k].seq = since - d + k
      BY <2>1, <3>1
    <3>5. after(since) = Newer(since, all)
      <4>1. after(since) = Newer(since, Contents)
        BY <2>3 DEF after, Newer
      <4> QED BY <3>2, <4>1
    <3>6. after(since) = [j \in 1 .. m |-> all[d + j]]
      <4>1. d \in 0 .. n /\ since \in Int
        BY <2>1, <3>1
      <4>2. Newer(since, all) = From(all, d, n)
        <5> DEFINE X == [seq : Int, ev : Payload]
        <5>1. all \in [1 .. n -> X]
          BY <3>3
        <5> HIDE DEF d, all, X
        <5> QED BY <2>1, <3>4, <4>1, <5>1, SendsTheRest
      <4> QED BY <3>5, <4>2 DEF From
    <3>7. /\ DOMAIN after(since) = 1 .. m
          /\ \A j \in 1 .. m : after(since)[j] = [seq |-> since + j, ev |-> history[since + j]]
      <4>1. \A j \in 1 .. m : d + j \in 1 .. n /\ seq - n + (d + j) = since + j
        BY <2>1, <3>1
      <4> HIDE DEF d, m
      <4> QED BY <3>6, <4>1
    <3> HIDE DEF d, all
    <3>8. /\ Window!Missed(since) \in Seq(Payload) /\ Len(Window!Missed(since)) = m
          /\ \A j \in 1 .. m : Window!Missed(since)[j] = history[since + j]
      <4>1. \A i \in since + 1 .. seq : history[i] \in Payload
        BY <2>1
      <4>2. /\ SubSeq(history, since + 1, seq) \in Seq(Payload)
            /\ Len(SubSeq(history, since + 1, seq))
                 = IF since + 1 <= seq THEN seq - (since + 1) + 1 ELSE 0
            /\ \A i \in 1 .. seq - (since + 1) + 1 :
                 SubSeq(history, since + 1, seq)[i] = history[since + 1 + i - 1]
        BY <2>1, <4>1, SubSeqProperties
      <4>3. seq - (since + 1) + 1 = m /\ \A i \in 1 .. m : since + 1 + i - 1 = since + i
        BY <2>1, <3>1
      <4> QED BY <2>1, <3>1, <4>2, <4>3 DEF Window!Missed
    <3>9. Window!Missed(since) = [k \in 1 .. m |-> history[since + k]]
      <4>1. Window!Missed(since) \in [1 .. m -> Payload]
        BY <3>8
      <4>2. Window!Missed(since) = [k \in 1 .. m |-> Window!Missed(since)[k]]
        BY <4>1
      <4> QED BY <3>8, <4>2
    <3>10. \A k \in 1 .. m : after(since)[k].ev = history[since + k] /\ after(since)[k].seq = since + k
      BY <3>7
    <3> HIDE DEF m
    <3> QED BY <3>7, <3>9, <3>10
  <2> QED BY <2>2, <2>3
<1> QED BY <1>1, TypeCorrect, RingHoldsTheLastN, PTL
=============================================================================
