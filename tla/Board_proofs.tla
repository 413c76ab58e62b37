------------------------------- MODULE Board_proofs -------------------------------
(***************************************************************************)
(* The board, for every number of users, notes and regions: the caches are *)
(* what a restart would load, every browser shows what a snapshot would,   *)
(* notes carry the tag of the region drawn on top under them, and notes    *)
(* never overlap while there is room for them.                             *)
(*                                                                         *)
(* BoardInv is the invariant.  That the tables are good (GoodTables: every *)
(* tag is current and rowids are distinct) is what makes retagging only    *)
(* the notes whose tag changes enough, and what makes the list a browser   *)
(* folds from region events the list a snapshot gives.                     *)
(***************************************************************************)
EXTENDS Board, FiniteSetTheorems, SequenceTheorems, TLAPS

---------------------------------------------------------------------------
(* Least and greatest elements *)

\* A set of naturals that is not empty has a least element.
LEMMA Least ==
  ASSUME NEW T \in SUBSET Nat, T # {}
  PROVE  \E x \in T : \A y \in T : x <= y
<1> DEFINE Below == OpToRel(<, Nat)
<1>1. IsWellFoundedOn(Below, Nat)
  BY NatLessThanWellFounded
<1>2. PICK x \in T : \A y \in T : <<y, x>> \notin Below
  <2> HIDE DEF Below
  <2> QED BY <1>1, WFMin
<1>3. \A y \in T : ~(y < x)
  BY <1>2 DEF OpToRel
<1> QED BY <1>3

\* A set with a natural number for each element has one with the least.
LEMMA LeastBy ==
  ASSUME NEW S, S # {}, NEW f, \A x \in S : f[x] \in Nat
  PROVE  \E x \in S : \A y \in S : f[x] <= f[y]
<1> DEFINE T == {f[x] : x \in S}
<1>1. PICK t \in T : \A u \in T : t <= u
  <2>1. T \in SUBSET Nat /\ T # {}
    OBVIOUS
  <2> QED BY <2>1, Least
<1> QED BY <1>1

\* Induction, for a set of naturals.
LEMMA Induct ==
  ASSUME NEW S \in SUBSET Nat, 0 \in S, \A n \in S : n + 1 \in S
  PROVE  S = Nat
<1> SUFFICES ASSUME Nat \ S # {} PROVE FALSE
  OBVIOUS
<1>1. PICK x \in Nat \ S : \A y \in Nat \ S : x <= y
  BY Least
<1>2. x # 0 /\ x - 1 \in Nat /\ x - 1 \in S
  BY <1>1
<1> QED BY <1>1, <1>2

\* A strict total order on a finite set that is not empty has a first element.
LEMMA FirstOf ==
  ASSUME NEW S, IsFiniteSet(S), S # {}, NEW R,
         \A x \in S : <<x, x>> \notin R,
         \A x, y, z \in S : <<x, y>> \in R /\ <<y, z>> \in R => <<x, z>> \in R,
         \A x, y \in S : x # y => <<x, y>> \in R \/ <<y, x>> \in R
  PROVE  \E x \in S : \A y \in S \ {x} : <<x, y>> \in R
<1> DEFINE before(x) == {y \in S : <<y, x>> \in R}
           count == [x \in S |-> Cardinality(before(x))]
<1>1. \A x \in S : IsFiniteSet(before(x)) /\ count[x] \in Nat
  <2> SUFFICES ASSUME NEW x \in S PROVE IsFiniteSet(before(x)) /\ count[x] \in Nat
    OBVIOUS
  <2>1. before(x) \in SUBSET S
    OBVIOUS
  <2> HIDE DEF before
  <2>2. IsFiniteSet(before(x))
    BY <2>1, FS_Subset
  <2> QED BY <2>2, FS_CardinalityType
<1>2. PICK x \in S : \A y \in S : count[x] <= count[y]
  <2> HIDE DEF count
  <2> QED BY <1>1, LeastBy
<1>3. ASSUME NEW y \in S \ {x}, <<x, y>> \notin R PROVE FALSE
  <2>1. <<y, x>> \in R
    BY <1>3
  <2>2. before(y) \in SUBSET before(x)
    BY <2>1
  <2>3. y \in before(x) /\ y \notin before(y)
    BY <2>1
  <2> HIDE DEF before
  <2>4. Cardinality(before(y)) <= Cardinality(before(x)) /\ before(y) # before(x)
    BY <1>1, <2>2, <2>3, FS_Subset
  <2>5. Cardinality(before(x)) # Cardinality(before(y))
    BY <1>1, <2>2, <2>4, FS_Subset
  <2>6. count[x] = Cardinality(before(x)) /\ count[y] = Cardinality(before(y))
    OBVIOUS
  <2>7. count[x] <= count[y] /\ count[x] \in Nat /\ count[y] \in Nat
    BY <1>1, <1>2
  <2> QED BY <2>4, <2>5, <2>6, <2>7
<1> QED BY <1>3

---------------------------------------------------------------------------
(* The scan of the rings *)

\* How far around ring k an offset is, clockwise from the east.
turn(k, o) ==
  IF o.dx = k /\ o.dy >= 0 THEN o.dy
  ELSE IF o.dy = k THEN 2 * k - o.dx
  ELSE IF o.dx = -k THEN 4 * k - o.dy
  ELSE IF o.dy = -k THEN 6 * k + o.dx
  ELSE 8 * k + o.dy

\* Products of integers, as the turns of offsets need them.
LEMMA Products ==
  ASSUME NEW k \in Nat, k > 0, NEW a \in -k .. k, NEW b \in -k .. k
  PROVE  /\ k * k > 0 /\ (-k) * k = -(k * k) /\ k * (-k) = -(k * k) /\ (-k) * (-k) = k * k
         /\ k * a \in Int /\ a * k = k * a /\ (-k) * a = -(k * a) /\ a * (-k) = -(k * a)
         /\ k * b \in Int /\ b * k = k * b /\ (-k) * b = -(k * b) /\ b * (-k) = -(k * b)
         /\ a < b => k * a < k * b
         /\ a > 0 => k * a > 0
         /\ a < 0 => k * a < 0
         /\ b > 0 => k * b > 0
         /\ b < 0 => k * b < 0
         /\ a * b \in Int /\ a * b = b * a /\ a * b <= k * k /\ -(k * k) <= a * b
         /\ a * b = k * k => (a = k /\ b = k) \/ (a = -k /\ b = -k)
         /\ a * b = -(k * k) => (a = k /\ b = -k) \/ (a = -k /\ b = k)
<1>1. k * k > 0 /\ (-k) * k = -(k * k) /\ k * (-k) = -(k * k) /\ (-k) * (-k) = k * k
  OBVIOUS
<1>2. ASSUME NEW c \in -k .. k
      PROVE  /\ k * c \in Int /\ c * k = k * c /\ (-k) * c = -(k * c) /\ c * (-k) = -(k * c)
             /\ (c > 0 => k * c > 0) /\ (c < 0 => k * c < 0)
             /\ k * c <= k * k /\ -(k * k) <= k * c
             /\ (c < k => k * c < k * k) /\ (-k < c => -(k * k) < k * c)
  OBVIOUS
<1>3. a < b => k * a < k * b
  OBVIOUS
<1>4. a * b \in Int /\ a * b = b * a
  OBVIOUS
<1>5. a * b <= k * k /\ (a * b = k * k => (a = k /\ b = k) \/ (a = -k /\ b = -k))
  <2>1. (k - a) * (k + b) >= 0 /\ (k - a) * (k + b) = k * k + k * b - k * a - a * b
    OBVIOUS
  <2>2. (k + a) * (k - b) >= 0 /\ (k + a) * (k - b) = k * k - k * b + k * a - a * b
    OBVIOUS
  <2>3. k * a \in Int /\ k * b \in Int /\ a * b \in Int /\ k * k \in Int
    OBVIOUS
  <2>4. a * b <= k * k
    BY <2>1, <2>2, <2>3
  <2>5. ASSUME a * b = k * k PROVE (k - a) * (k + b) = 0 /\ (k + a) * (k - b) = 0
    BY <2>1, <2>2, <2>3, <2>5
  <2>6. ASSUME (k - a) * (k + b) = 0 /\ (k + a) * (k - b) = 0
        PROVE (a = k /\ b = k) \/ (a = -k /\ b = -k)
    BY <2>6
  <2> QED BY <2>4, <2>5, <2>6
<1>6. -(k * k) <= a * b /\ (a * b = -(k * k) => (a = k /\ b = -k) \/ (a = -k /\ b = k))
  <2>1. (k - a) * (k - b) >= 0 /\ (k - a) * (k - b) = k * k - k * b - k * a + a * b
    OBVIOUS
  <2>2. (k + a) * (k + b) >= 0 /\ (k + a) * (k + b) = k * k + k * b + k * a + a * b
    OBVIOUS
  <2>3. k * a \in Int /\ k * b \in Int /\ a * b \in Int /\ k * k \in Int
    OBVIOUS
  <2>4. -(k * k) <= a * b
    BY <2>1, <2>2, <2>3
  <2>5. ASSUME a * b = -(k * k) PROVE (k - a) * (k - b) = 0 /\ (k + a) * (k + b) = 0
    BY <2>1, <2>2, <2>3, <2>5
  <2>6. ASSUME (k - a) * (k - b) = 0 /\ (k + a) * (k + b) = 0
        PROVE (a = k /\ b = -k) \/ (a = -k /\ b = k)
    BY <2>6
  <2> QED BY <2>4, <2>5, <2>6
<1> QED BY <1>1, <1>2, <1>3, <1>4, <1>5, <1>6

\* Two points on the boundary of a square, in the same half and the first one
\* with the smaller turn: the second is clockwise of it.
LEMMA TurnsClockwise ==
  ASSUME NEW k \in Nat, k > 0,
         NEW a \in -k .. k, NEW b \in -k .. k, a \in {-k, k} \/ b \in {-k, k},
         NEW c \in -k .. k, NEW d \in -k .. k, c \in {-k, k} \/ d \in {-k, k},
         turn(k, [dx |-> a, dy |-> b]) < turn(k, [dx |-> c, dy |-> d]),
         lower([dx |-> a, dy |-> b]) <=> lower([dx |-> c, dy |-> d])
  PROVE  a * d - b * c > 0
<1> DEFINE T(x, y) == IF x = k /\ y >= 0 THEN y ELSE IF y = k THEN 2 * k - x
                      ELSE IF x = -k THEN 4 * k - y ELSE IF y = -k THEN 6 * k + x ELSE 8 * k + y
           L(x, y) == y > 0 \/ (y = 0 /\ x >= 0)
<1>1. T(a, b) < T(c, d) /\ (L(a, b) <=> L(c, d))
  BY DEF turn, lower
<1>2. /\ a * d \in Int /\ b * c \in Int /\ k * k \in Int /\ k * k > 0
      /\ \A x \in {a, b, c, d} : k * x \in Int
  OBVIOUS
<1>3. CASE a = k
  <2>1. CASE c = k
    BY <1>1, <1>2, <1>3, <2>1, Products
  <2>2. CASE c = -k
    BY <1>1, <1>2, <1>3, <2>2, Products
  <2>3. CASE d = k
    BY <1>1, <1>2, <1>3, <2>3, Products
  <2>4. CASE d = -k
    BY <1>1, <1>2, <1>3, <2>4, Products
  <2> QED BY <2>1, <2>2, <2>3, <2>4
<1>4. CASE a = -k
  <2>1. CASE c = k
    BY <1>1, <1>2, <1>4, <2>1, Products
  <2>2. CASE c = -k
    BY <1>1, <1>2, <1>4, <2>2, Products
  <2>3. CASE d = k
    BY <1>1, <1>2, <1>4, <2>3, Products
  <2>4. CASE d = -k
    BY <1>1, <1>2, <1>4, <2>4, Products
  <2> QED BY <2>1, <2>2, <2>3, <2>4
<1>5. CASE b = k
  <2>1. CASE c = k
    BY <1>1, <1>2, <1>5, <2>1, Products
  <2>2. CASE c = -k
    BY <1>1, <1>2, <1>5, <2>2, Products
  <2>3. CASE d = k
    BY <1>1, <1>2, <1>5, <2>3, Products
  <2>4. CASE d = -k
    BY <1>1, <1>2, <1>5, <2>4, Products
  <2> QED BY <2>1, <2>2, <2>3, <2>4
<1>6. CASE b = -k
  <2>1. CASE c = k
    BY <1>1, <1>2, <1>6, <2>1, Products
  <2>2. CASE c = -k
    BY <1>1, <1>2, <1>6, <2>2, Products
  <2>3. CASE d = k
    BY <1>1, <1>2, <1>6, <2>3, Products
  <2>4. CASE d = -k
    BY <1>1, <1>2, <1>6, <2>4, Products
  <2> QED BY <2>1, <2>2, <2>3, <2>4
<1> QED BY <1>3, <1>4, <1>5, <1>6

\* Along a ring the angle grows with the turn.
LEMMA TurnIsAngle ==
  ASSUME NEW k \in Nat, k > 0, NEW o \in ring(k), NEW p \in ring(k)
  PROVE  /\ turn(k, o) \in Nat
         /\ turn(k, o) < turn(k, p) => angleBelow(o, p)
         /\ turn(k, o) = turn(k, p) => o = p
<1>1. /\ o.dx \in -k .. k /\ o.dy \in -k .. k /\ (o.dx \in {-k, k} \/ o.dy \in {-k, k})
      /\ p.dx \in -k .. k /\ p.dy \in -k .. k /\ (p.dx \in {-k, k} \/ p.dy \in {-k, k})
      /\ o = [dx |-> o.dx, dy |-> o.dy] /\ p = [dx |-> p.dx, dy |-> p.dy]
  BY DEF ring
<1>2. turn(k, o) \in Nat
  BY <1>1 DEF turn
<1>3. ASSUME turn(k, o) = turn(k, p) PROVE o = p
  <2>1. o.dx = p.dx /\ o.dy = p.dy
    BY <1>1, <1>3 DEF turn
  <2> QED BY <1>1, <2>1
<1>4. ASSUME turn(k, o) < turn(k, p) PROVE angleBelow(o, p)
  <2>1. (lower(o) <=> turn(k, o) < 4 * k) /\ (lower(p) <=> turn(k, p) < 4 * k)
    BY <1>1 DEF turn, lower
  <2>2. turn(k, o) \in Nat /\ turn(k, p) \in Nat
    BY <1>1 DEF turn
  <2>3. lower(p) => lower(o)
    BY <1>4, <2>1, <2>2
  <2>4. ASSUME lower(o) <=> lower(p) PROVE o.dx * p.dy - o.dy * p.dx > 0
    BY <1>1, <1>4, <2>4, TurnsClockwise
  <2>5. CASE lower(p)
    <3>1. lower(o) = lower(p)
      BY <2>3, <2>5 DEF lower
    <3> QED BY <2>3, <2>4, <2>5, <3>1 DEF angleBelow
  <2>6. CASE ~lower(p) /\ ~lower(o)
    <3>1. lower(o) = lower(p)
      BY <2>6 DEF lower
    <3> QED BY <2>4, <2>6, <3>1 DEF angleBelow
  <2> QED BY <2>5, <2>6 DEF angleBelow
<1> QED BY <1>2, <1>3, <1>4

\* Some candidate of a ring comes before all others: the scan is deterministic.
LEMMA FirstInRing ==
  ASSUME NEW k \in Nat, NEW C \in SUBSET ring(k), C # {}
  PROVE  \E o \in C : \A p \in C \ {o} : scannedBefore(o, p)
<1>1. \A o \in ring(k) : dist(o) \in Nat
  BY DEF ring, dist
<1>2. CASE k = 0
  <2>1. \A o, p \in ring(k) : o = p
    BY <1>2 DEF ring
  <2> QED BY <2>1
<1>3. CASE k > 0
  <2> DEFINE length == [o \in C |-> dist(o)]
  <2>1. PICK m \in C : \A p \in C : dist(m) <= dist(p)
    <3>1. \A o \in C : length[o] \in Nat
      BY <1>1
    <3> HIDE DEF length
    <3>2. PICK m \in C : \A p \in C : length[m] <= length[p]
      BY <3>1, LeastBy
    <3> QED BY <3>2 DEF length
  <2> DEFINE nearest == {o \in C : dist(o) = dist(m)}
             round == [o \in nearest |-> turn(k, o)]
  <2>2. PICK o \in nearest : \A p \in nearest : turn(k, o) <= turn(k, p)
    <3>1. \A o \in nearest : round[o] \in Nat
      BY <1>3, TurnIsAngle
    <3>2. nearest # {}
      OBVIOUS
    <3> HIDE DEF round, nearest
    <3>3. PICK o \in nearest : \A p \in nearest : round[o] <= round[p]
      BY <3>1, <3>2, LeastBy
    <3> QED BY <3>3 DEF round
  <2>3. ASSUME NEW p \in C \ {o} PROVE scannedBefore(o, p)
    <3>1. dist(o) <= dist(p) /\ dist(o) \in Nat /\ dist(p) \in Nat
      BY <1>1, <2>1, <2>2
    <3>2. ASSUME dist(o) = dist(p) PROVE angleBelow(o, p)
      <4>1. p \in nearest
        BY <3>2, <2>2
      <4>2. turn(k, o) <= turn(k, p) /\ turn(k, o) # turn(k, p)
        BY <1>3, <2>2, <4>1, TurnIsAngle
      <4>3. turn(k, o) < turn(k, p)
        BY <1>3, <4>2, TurnIsAngle
      <4> QED BY <1>3, <4>3, TurnIsAngle
    <3> QED BY <3>1, <3>2 DEF scannedBefore
  <2> QED BY <2>3
<1> QED BY <1>2, <1>3

\* Where a free candidate is within reach, ResolvePosition returns a free
\* position (domain/geometry.go).
LEMMA ResolvesToFree ==
  ASSUME NEW at \in Position, NEW others,
         \E k \in 0 .. MaxRings : freeIn(k, at, others) # {}
  PROVE  ResolvePosition(at, others) \in Position /\ free(ResolvePosition(at, others), others)
<1> DEFINE first(k) == /\ k > MaxRings \/ freeIn(k, at, others) # {}
                       /\ \A j \in 0 .. k - 1 : freeIn(j, at, others) = {}
           nearest == CHOOSE k \in 0 .. MaxRings + 1 : first(k)
           candidates == freeIn(nearest, at, others)
           ahead(o) == \A p \in candidates \ {o} : scannedBefore(o, p)
           best == CHOOSE o \in candidates : ahead(o)
<1>1. \E k \in 0 .. MaxRings + 1 : first(k)
  <2> DEFINE hits == {k \in 0 .. MaxRings : freeIn(k, at, others) # {}}
  <2>1. PICK k \in hits : \A j \in hits : k <= j
    <3>1. hits \in SUBSET Nat /\ hits # {}
      BY GeometryAssumption
    <3> HIDE DEF hits
    <3> QED BY <3>1, Least
  <2>2. first(k) /\ k \in 0 .. MaxRings + 1
    BY <2>1, GeometryAssumption
  <2> QED BY <2>2
<1>2. nearest \in 0 .. MaxRings + 1 /\ first(nearest)
  <2> HIDE DEF first
  <2> QED BY <1>1
<1>3. nearest <= MaxRings /\ candidates # {}
  <2>1. PICK k \in 0 .. MaxRings : freeIn(k, at, others) # {}
    OBVIOUS
  <2> HIDE DEF nearest
  <2>2. nearest <= MaxRings
    BY <1>2, <2>1, GeometryAssumption
  <2> QED BY <1>2, <2>2, GeometryAssumption
<1>4. best \in candidates
  <2>1. candidates \in SUBSET ring(nearest) /\ nearest \in Nat
    BY <1>2, GeometryAssumption DEF freeIn
  <2> HIDE DEF nearest, candidates
  <2>2. \E o \in candidates : ahead(o)
    BY <1>3, <2>1, FirstInRing
  <2> HIDE DEF ahead
  <2> QED BY <2>2
<1>5. best \in ring(nearest) /\ free(shifted(at, best), others)
  <2> HIDE DEF best, nearest
  <2> QED BY <1>4 DEF freeIn
<1>6. ResolvePosition(at, others) = shifted(at, best)
  <2>1. ResolvePosition(at, others) = IF nearest > MaxRings THEN at ELSE shifted(at, best)
    BY DEF ResolvePosition
  <2> HIDE DEF nearest, best
  <2> QED BY <1>2, <1>3, <2>1, GeometryAssumption
<1>7. shifted(at, best) \in Position
  <2> HIDE DEF nearest, best
  <2>1. best.dx \in Int /\ best.dy \in Int
    BY <1>2, <1>5, GeometryAssumption DEF ring
  <2> QED BY <2>1, GeometryAssumption DEF shifted, Position
<1> QED BY <1>5, <1>6, <1>7

---------------------------------------------------------------------------
(* Room for every note *)

\* Two positions of the grid are so far apart that no note overlaps both.
LEMMA GridIsWide ==
  ASSUME NEW x \in Int, NEW step \in Nat, NEW w \in Nat, NEW a \in Nat, a * step >= 2 * w,
         NEW u \in Int, NEW v \in Int, NEW q \in Int,
         x + (u * a) * step < q + w, q < x + (u * a) * step + w,
         x + (v * a) * step < q + w, q < x + (v * a) * step + w
  PROVE  u = v
<1> DEFINE s == a * step
<1>1. s \in Nat /\ s >= 2 * w
  OBVIOUS
<1>2. (u * a) * step = u * s /\ (v * a) * step = v * s
  OBVIOUS
<1> HIDE DEF s
<1>3. u * s \in Int /\ v * s \in Int /\ u * s - v * s < 2 * w /\ v * s - u * s < 2 * w
  BY <1>1, <1>2
<1>4. u - v < 1
  <2> SUFFICES ASSUME u - v >= 1 PROVE FALSE
    OBVIOUS
  <2>1. (u - v - 1) * s >= 0 /\ (u - v - 1) * s = u * s - v * s - s
    BY <1>1
  <2> QED BY <1>1, <1>3, <2>1
<1>5. v - u < 1
  <2> SUFFICES ASSUME v - u >= 1 PROVE FALSE
    OBVIOUS
  <2>1. (v - u - 1) * s >= 0 /\ (v - u - 1) * s = v * s - u * s - s
    BY <1>1
  <2> QED BY <1>1, <1>3, <2>1
<1> QED BY <1>4, <1>5

\* A multiple of a that is not too large stays within the rings.
LEMMA GridIsNear ==
  ASSUME NEW a \in Nat, NEW i \in Nat, NEW u \in -i .. i, NEW m \in Nat, a * i <= m
  PROVE  u * a \in -m .. m
<1>1. (i - u) * a >= 0 /\ (i - u) * a = i * a - u * a
  OBVIOUS
<1>2. (i + u) * a >= 0 /\ (i + u) * a = i * a + u * a
  OBVIOUS
<1>3. u * a \in Int /\ i * a \in Int /\ i * a = a * i
  OBVIOUS
<1> QED BY <1>1, <1>2, <1>3

\* With room for the notes, there is a free candidate whenever fewer notes are
\* in the way than there are.
LEMMA RoomForOne ==
  ASSUME RoomFor(Cardinality(Notes)), NEW at \in Position, NEW others \in SUBSET Position,
         IsFiniteSet(others), Cardinality(others) < Cardinality(Notes)
  PROVE  \E k \in 0 .. MaxRings : freeIn(k, at, others) # {}
<1>1. PICK a, b, i, j \in Nat :
        /\ a * SpiralStep >= 2 * NoteW /\ b * SpiralStep >= 2 * NoteH
        /\ a * i <= MaxRings /\ b * j <= MaxRings
        /\ Cardinality(Notes) <= (2 * i + 1) * (2 * j + 1)
  <2>1. 1 .. 2 * NoteW \subseteq Nat /\ 1 .. 2 * NoteH \subseteq Nat /\ 0 .. MaxRings \subseteq Nat
    OBVIOUS
  <2> QED BY <2>1 DEF RoomFor
<1> DEFINE grid == (-i .. i) \X (-j .. j)
           offset(g) == [dx |-> g[1] * a, dy |-> g[2] * b]
<1>2. IsFiniteSet(grid) /\ Cardinality(grid) = (2 * i + 1) * (2 * j + 1)
  <2>1. IsFiniteSet(-i .. i) /\ Cardinality(-i .. i) = 2 * i + 1
    <3>1. -i \in Int /\ i \in Int /\ ~(-i > i) /\ i - (-i) + 1 = 2 * i + 1
      OBVIOUS
    <3>2. IsFiniteSet(-i .. i) /\ Cardinality(-i .. i) = i - (-i) + 1
      BY <3>1, FS_Interval
    <3> QED BY <3>1, <3>2
  <2>2. IsFiniteSet(-j .. j) /\ Cardinality(-j .. j) = 2 * j + 1
    <3>1. -j \in Int /\ j \in Int /\ ~(-j > j) /\ j - (-j) + 1 = 2 * j + 1
      OBVIOUS
    <3>2. IsFiniteSet(-j .. j) /\ Cardinality(-j .. j) = j - (-j) + 1
      BY <3>1, FS_Interval
    <3> QED BY <3>1, <3>2
  <2> QED BY <2>1, <2>2, FS_Product
<1>3. \A g \in grid : /\ offset(g).dx \in -MaxRings .. MaxRings
                       /\ offset(g).dy \in -MaxRings .. MaxRings
  BY <1>1, GridIsNear, GeometryAssumption
<1>4. PICK g \in grid : free(shifted(at, offset(g)), others)
  <2> SUFFICES ASSUME \A g \in grid : ~free(shifted(at, offset(g)), others) PROVE FALSE
    OBVIOUS
  <2> DEFINE inTheWay ==
               [g \in grid |-> CHOOSE p \in others : Intersects(shifted(at, offset(g)), p)]
  <2>1. \A g \in grid : \E p \in others : Intersects(shifted(at, offset(g)), p)
    BY DEF free
  <2>2. \A g \in grid : inTheWay[g] \in others /\ Intersects(shifted(at, offset(g)), inTheWay[g])
    <3> HIDE DEF grid, offset
    <3> QED BY <2>1
  <2>3. Cardinality(others) < Cardinality(grid)
    <3>1. Cardinality(others) \in Nat /\ Cardinality(Notes) \in Nat
      BY FS_CardinalityType, BoardAssumption
    <3>2. (2 * i + 1) * (2 * j + 1) \in Nat
      OBVIOUS
    <3> QED BY <1>1, <1>2, <3>1, <3>2
  <2>4. PICK g, h \in grid : g # h /\ inTheWay[g] = inTheWay[h]
    <3>1. inTheWay \in [grid -> others]
      BY <2>2
    <3> HIDE DEF inTheWay, grid
    <3> QED BY <1>2, <2>3, <3>1, FS_PigeonHole
  <2> DEFINE q == inTheWay[g]
  <2>5. /\ q \in Position
        /\ Intersects(shifted(at, offset(g)), q) /\ Intersects(shifted(at, offset(h)), q)
    <3> HIDE DEF inTheWay, grid, offset
    <3> QED BY <2>2, <2>4
  <2> HIDE DEF q
  <2>6. /\ g[1] \in Int /\ g[2] \in Int /\ h[1] \in Int /\ h[2] \in Int
        /\ q.x \in Int /\ q.y \in Int /\ at.x \in Int /\ at.y \in Int
    BY <2>5 DEF Position
  <2>7. g[1] = h[1]
    <3>1. /\ at.x + (g[1] * a) * SpiralStep < q.x + NoteW
          /\ q.x < at.x + (g[1] * a) * SpiralStep + NoteW
          /\ at.x + (h[1] * a) * SpiralStep < q.x + NoteW
          /\ q.x < at.x + (h[1] * a) * SpiralStep + NoteW
      BY <2>5 DEF Intersects, shifted
    <3> QED BY <1>1, <2>6, <3>1, GridIsWide, GeometryAssumption
  <2>8. g[2] = h[2]
    <3>1. /\ at.y + (g[2] * b) * SpiralStep < q.y + NoteH
          /\ q.y < at.y + (g[2] * b) * SpiralStep + NoteH
          /\ at.y + (h[2] * b) * SpiralStep < q.y + NoteH
          /\ q.y < at.y + (h[2] * b) * SpiralStep + NoteH
      BY <2>5 DEF Intersects, shifted
    <3> QED BY <1>1, <2>6, <3>1, GridIsWide, GeometryAssumption
  <2> QED BY <2>4, <2>7, <2>8
<1> DEFINE o == offset(g)
           size(z) == IF z < 0 THEN -z ELSE z
           k == IF size(o.dx) >= size(o.dy) THEN size(o.dx) ELSE size(o.dy)
<1>5. /\ o.dx \in -MaxRings .. MaxRings /\ o.dy \in -MaxRings .. MaxRings
      /\ o = [dx |-> o.dx, dy |-> o.dy]
  BY <1>3
<1>6. k \in 0 .. MaxRings /\ o \in ring(k)
  <2> HIDE DEF o
  <2>1. /\ k \in 0 .. MaxRings /\ o.dx \in -k .. k /\ o.dy \in -k .. k
        /\ o.dx \in {-k, k} \/ o.dy \in {-k, k}
    BY <1>5, GeometryAssumption
  <2> QED BY <1>5, <2>1 DEF ring
<1>7. o \in freeIn(k, at, others)
  BY <1>4, <1>6 DEF freeIn
<1> QED BY <1>6, <1>7

---------------------------------------------------------------------------
(* The topmost region *)

\* No two regions share a rowid.
OrdersDistinct(rows) ==
  \A r, s \in present(rows) : r # s => rows[r].order # rows[s].order

RegionRows == [Regions -> RegionRow \cup {None}]

\* The regions around a note's center.
around(at, rows) == {r \in present(rows) : ContainsCenter(rows[r], at)}

\* RegionFor picks the topmost region around the center, if there is any.
LEMMA RegionForIsTopmost ==
  ASSUME NEW rows \in RegionRows, OrdersDistinct(rows), NEW at
  PROVE  /\ around(at, rows) = {} => RegionFor(at, rows, None) = None
         /\ around(at, rows) # {} =>
              /\ RegionFor(at, rows, None) \in around(at, rows)
              /\ \A s \in around(at, rows) \ {RegionFor(at, rows, None)} :
                   Above(rows[RegionFor(at, rows, None)], rows[s])
<1> DEFINE S == around(at, rows)
           highest(r) == \A s \in S \ {r} : Above(rows[r], rows[s])
<1>1. {r \in DOMAIN rows : rows[r] # None /\ ContainsCenter(rows[r], at)} = S
  BY DEF around, present, RegionRows
<1>2. RegionFor(at, rows, None) = IF S = {} THEN None ELSE CHOOSE r \in S : highest(r)
  <2> DEFINE T == {r \in DOMAIN rows : rows[r] # None /\ ContainsCenter(rows[r], at)}
  <2>1. RegionFor(at, rows, None) =
          IF T = {} THEN None ELSE CHOOSE r \in T : \A s \in T \ {r} : Above(rows[r], rows[s])
    BY DEF RegionFor
  <2>2. T = S
    BY <1>1
  <2> HIDE DEF S, T
  <2> QED BY <2>1, <2>2
<1>3. ASSUME S # {} PROVE \E r \in S : highest(r)
  <2> DEFINE R == {p \in S \X S : Above(rows[p[1]], rows[p[2]])}
  <2>1. S \in SUBSET Regions /\ \A r \in S : rows[r] \in RegionRow
    BY DEF around, present, RegionRows
  <2>2. IsFiniteSet(S)
    <3> HIDE DEF S
    <3> QED BY <2>1, FS_Subset, BoardAssumption
  <2>3. \A r \in S : rows[r].z \in Int /\ rows[r].order \in Int
    BY <2>1 DEF RegionRow
  <2>4. \A r, s \in S : r # s => rows[r].order # rows[s].order
    BY DEF OrdersDistinct, around
  <2>5. \A x, y \in S : <<x, y>> \in R <=> Above(rows[x], rows[y])
    OBVIOUS
  <2> HIDE DEF S, R
  <2>6. \A x \in S : <<x, x>> \notin R
    BY <2>3, <2>5 DEF Above
  <2>7. \A x, y, z \in S : <<x, y>> \in R /\ <<y, z>> \in R => <<x, z>> \in R
    BY <2>3, <2>5 DEF Above
  <2>8. \A x, y \in S : x # y => <<x, y>> \in R \/ <<y, x>> \in R
    BY <2>3, <2>4, <2>5 DEF Above
  <2>9. PICK x \in S : \A y \in S \ {x} : <<x, y>> \in R
    BY <1>3, <2>2, <2>6, <2>7, <2>8, FirstOf
  <2>10. highest(x)
    BY <2>5, <2>9
  <2> QED BY <2>10
<1> HIDE DEF S
<1> QED BY <1>2, <1>3 DEF S

\* The tag is a region that exists, or none.
LEMMA RegionForType ==
  ASSUME NEW rows \in RegionRows, OrdersDistinct(rows), NEW at
  PROVE  /\ RegionFor(at, rows, None) \in Regions \cup {None}
         /\ RegionFor(at, rows, None) # None => rows[RegionFor(at, rows, None)] # None
<1>1. \A r \in around(at, rows) : r \in Regions /\ rows[r] # None
  BY DEF around, present
<1> QED BY <1>1, RegionForIsTopmost

---------------------------------------------------------------------------
(* The order of the regions *)

\* Ids in the order of their rowids, each once.
InOrder(q, rows) ==
  /\ q \in [1 .. Cardinality(present(rows)) -> present(rows)]
  /\ \A i, j \in DOMAIN q : i < j => rows[q[i]].order < rows[q[j]].order

\* The rows that are older than the one of r.
older(r, rows) == {s \in present(rows) : rows[s].order < rows[r].order}

\* Finitely many regions, ordered by numbers.
LEMMA RowsAreFinite ==
  ASSUME NEW rows \in RegionRows
  PROVE  /\ IsFiniteSet(present(rows)) /\ Cardinality(present(rows)) \in Nat
         /\ \A r \in present(rows) : r \in Regions /\ rows[r] \in RegionRow /\ rows[r].order \in Nat
         /\ \A r : IsFiniteSet(older(r, rows)) /\ Cardinality(older(r, rows)) \in Nat
<1>1. present(rows) \in SUBSET Regions
  BY DEF present
<1>2. IsFiniteSet(present(rows)) /\ Cardinality(present(rows)) \in Nat
  BY <1>1, FS_Subset, FS_CardinalityType, BoardAssumption
<1>3. ASSUME NEW r PROVE IsFiniteSet(older(r, rows)) /\ Cardinality(older(r, rows)) \in Nat
  <2>1. older(r, rows) \in SUBSET present(rows)
    BY DEF older
  <2> QED BY <1>2, <2>1, FS_Subset, FS_CardinalityType
<1>4. \A r \in present(rows) : r \in Regions /\ rows[r] \in RegionRow /\ rows[r].order \in Nat
  BY BoardAssumption DEF present, RegionRows, RegionRow
<1> QED BY <1>2, <1>3, <1>4

\* The number of older rows grows with the rowid.
LEMMA OlderGrows ==
  ASSUME NEW rows \in RegionRows, NEW r \in present(rows), NEW s \in present(rows),
         rows[r].order < rows[s].order
  PROVE  Cardinality(older(r, rows)) < Cardinality(older(s, rows))
<1>1. older(r, rows) \in SUBSET older(s, rows) /\ older(r, rows) # older(s, rows)
  <2>1. r \in older(s, rows) /\ r \notin older(r, rows)
    BY RowsAreFinite DEF older
  <2>2. \A x \in older(r, rows) : x \in older(s, rows)
    BY RowsAreFinite DEF older
  <2> QED BY <2>1, <2>2
<1>2. /\ IsFiniteSet(older(s, rows)) /\ Cardinality(older(s, rows)) \in Nat
      /\ Cardinality(older(r, rows)) \in Nat
  BY RowsAreFinite
<1>3. /\ Cardinality(older(r, rows)) <= Cardinality(older(s, rows))
      /\ Cardinality(older(r, rows)) # Cardinality(older(s, rows))
  BY <1>1, <1>2, FS_Subset
<1> QED BY <1>2, <1>3

\* In such an order the i-th id has i - 1 that are older.
LEMMA PlaceIsCount ==
  ASSUME NEW rows \in RegionRows, NEW q, InOrder(q, rows), NEW i \in DOMAIN q
  PROVE  Cardinality(older(q[i], rows)) = i - 1
<1> DEFINE N == Cardinality(present(rows))
           before == [j \in 1 .. i - 1 |-> q[j]]
<1>1. /\ N \in Nat /\ i \in 1 .. N /\ DOMAIN q = 1 .. N
      /\ \A j \in 1 .. N : q[j] \in present(rows) /\ rows[q[j]].order \in Nat
  BY RowsAreFinite DEF InOrder
<1>2. \A j, k \in 1 .. N : j < k => rows[q[j]].order < rows[q[k]].order
  BY <1>1 DEF InOrder
<1>3. \A j, k \in 1 .. N : q[j] = q[k] => j = k
  BY <1>1, <1>2
<1>4. \A s \in present(rows) : \E j \in 1 .. N : q[j] = s
  <2>1. q \in Injection(1 .. N, present(rows))
    BY <1>1, <1>3 DEF Injection, IsInjective, InOrder
  <2>2. Cardinality(1 .. N) = N
    BY <1>1, FS_Interval
  <2>3. q \in Surjection(1 .. N, present(rows))
    <3> HIDE DEF N
    <3> QED BY <2>1, <2>2, FS_Injection, RowsAreFinite DEF N
  <2> QED BY <2>3 DEF Surjection
<1>5. \A j \in 1 .. N : q[j] \in older(q[i], rows) <=> j < i
  BY <1>1, <1>2 DEF older
<1>6. before \in Injection(1 .. i - 1, older(q[i], rows))
  <2>1. before \in [1 .. i - 1 -> older(q[i], rows)]
    BY <1>1, <1>5
  <2>2. \A j, k \in 1 .. i - 1 : before[j] = before[k] => j = k
    BY <1>1, <1>3
  <2> HIDE DEF before
  <2> QED BY <2>1, <2>2 DEF Injection, IsInjective
<1>7. before \in Surjection(1 .. i - 1, older(q[i], rows))
  <2>1. before \in [1 .. i - 1 -> older(q[i], rows)]
    BY <1>1, <1>5
  <2>2. ASSUME NEW s \in older(q[i], rows) PROVE \E j \in 1 .. i - 1 : before[j] = s
    <3>1. PICK j \in 1 .. N : q[j] = s
      BY <1>4, <2>2 DEF older
    <3> QED BY <1>1, <1>5, <3>1
  <2> HIDE DEF before
  <2> QED BY <2>1, <2>2 DEF Surjection
<1> HIDE DEF before, N
<1>8. i - 1 \in Nat /\ ExistsBijection(1 .. i - 1, older(q[i], rows))
  BY <1>1, <1>6, <1>7 DEF ExistsBijection, Bijection
<1> QED BY <1>8, FS_CountingElements

\* There is only one such order.
LEMMA OneOrder ==
  ASSUME NEW rows \in RegionRows, OrdersDistinct(rows), NEW p, NEW q,
         InOrder(p, rows), InOrder(q, rows)
  PROVE  p = q
<1> DEFINE N == Cardinality(present(rows))
<1>1. /\ p \in [1 .. N -> present(rows)] /\ q \in [1 .. N -> present(rows)]
      /\ \A r \in present(rows) : rows[r].order \in Nat
  BY RowsAreFinite DEF InOrder
<1>2. ASSUME NEW i \in 1 .. N PROVE p[i] = q[i]
  <2>1. Cardinality(older(p[i], rows)) = i - 1 /\ Cardinality(older(q[i], rows)) = i - 1
    BY <1>1, <1>2, PlaceIsCount
  <2>2. SUFFICES ASSUME p[i] # q[i] PROVE FALSE
    OBVIOUS
  <2>3. rows[p[i]].order < rows[q[i]].order \/ rows[q[i]].order < rows[p[i]].order
    BY <1>1, <1>2, <2>2 DEF OrdersDistinct
  <2>4. Cardinality(older(p[i], rows)) # Cardinality(older(q[i], rows))
    <3>1. p[i] \in present(rows) /\ q[i] \in present(rows)
      BY <1>1
    <3>2. Cardinality(older(p[i], rows)) \in Nat /\ Cardinality(older(q[i], rows)) \in Nat
      BY RowsAreFinite
    <3> QED BY <2>3, <3>1, <3>2, OlderGrows
  <2> QED BY <2>1, <2>4
<1>3. p = [i \in 1 .. N |-> p[i]] /\ q = [i \in 1 .. N |-> q[i]]
  BY <1>1
<1>4. [i \in 1 .. N |-> p[i]] = [i \in 1 .. N |-> q[i]]
  BY <1>2
<1> QED BY <1>3, <1>4, Zenon

\* There is one: each id comes after as many as are older.
LEMMA OrderExists ==
  ASSUME NEW rows \in RegionRows, OrdersDistinct(rows)
  PROVE  \E q : InOrder(q, rows)
<1> DEFINE S == present(rows)
           N == Cardinality(S)
           place == [r \in S |-> Cardinality(older(r, rows)) + 1]
           q == [i \in 1 .. N |-> CHOOSE r \in S : place[r] = i]
<1>1. N \in Nat /\ IsFiniteSet(S) /\ \A r \in S : Cardinality(older(r, rows)) \in Nat
  BY RowsAreFinite
<1>2. ASSUME NEW r \in S PROVE place[r] \in 1 .. N
  <2>1. older(r, rows) \in SUBSET S /\ older(r, rows) # S
    BY RowsAreFinite DEF older
  <2>2. Cardinality(older(r, rows)) <= N /\ Cardinality(older(r, rows)) # N
    <3> HIDE DEF S
    <3> QED BY <1>1, <2>1, FS_Subset
  <2> QED BY <1>1, <2>2
<1>3. \A r, s \in S : place[r] = place[s] => r = s
  <2> SUFFICES ASSUME NEW r \in S, NEW s \in S, r # s PROVE place[r] # place[s]
    OBVIOUS
  <2>1. rows[r].order < rows[s].order \/ rows[s].order < rows[r].order
    BY RowsAreFinite DEF OrdersDistinct
  <2> QED BY <1>1, <2>1, OlderGrows
<1>4. place \in Surjection(S, 1 .. N)
  <2>1. place \in Injection(S, 1 .. N)
    BY <1>2, <1>3 DEF Injection, IsInjective
  <2>2. IsFiniteSet(1 .. N) /\ Cardinality(1 .. N) = N
    BY <1>1, FS_Interval
  <2> HIDE DEF place, S
  <2> QED BY <2>1, <2>2, FS_Injection
<1>5. \A i \in 1 .. N : \E r \in S : place[r] = i
  <2> HIDE DEF place, S
  <2> QED BY <1>4 DEF Surjection
<1>6. \A i \in 1 .. N : q[i] \in S /\ place[q[i]] = i
  <2> HIDE DEF place, S
  <2> QED BY <1>5
<1>7. ASSUME NEW i \in 1 .. N, NEW j \in 1 .. N, i < j PROVE rows[q[i]].order < rows[q[j]].order
  <2>1. q[i] \in S /\ q[j] \in S /\ place[q[i]] < place[q[j]]
    BY <1>6, <1>7
  <2> HIDE DEF q
  <2>2. Cardinality(older(q[i], rows)) < Cardinality(older(q[j], rows))
    BY <1>1, <2>1
  <2>3. rows[q[i]].order \in Nat /\ rows[q[j]].order \in Nat
    BY <2>1, RowsAreFinite
  <2>4. q[i] # q[j]
    BY <1>1, <2>1, <2>2
  <2>5. ~(rows[q[j]].order < rows[q[i]].order)
    BY <1>1, <2>1, <2>2, OlderGrows
  <2> QED BY <2>1, <2>3, <2>4, <2>5 DEF OrdersDistinct
<1>8. q \in [1 .. N -> S]
  BY <1>6
<1> HIDE DEF q
<1>9. InOrder(q, rows)
  BY <1>7, <1>8 DEF InOrder
<1> QED BY <1>9

\* byOrder is it.
LEMMA ByOrder ==
  ASSUME NEW rows \in RegionRows, OrdersDistinct(rows)
  PROVE  InOrder(byOrder(rows), rows)
<1> DEFINE Q == [1 .. Cardinality(present(rows)) -> present(rows)]
           ordered(q) == \A i, j \in DOMAIN q : i < j => rows[q[i]].order < rows[q[j]].order
<1>1. byOrder(rows) = CHOOSE q \in Q : ordered(q)
  BY DEF byOrder
<1>2. \E q \in Q : ordered(q)
  BY OrderExists DEF InOrder
<1>3. byOrder(rows) \in Q /\ ordered(byOrder(rows))
  <2> HIDE DEF Q, ordered
  <2> QED BY <1>1, <1>2
<1> QED BY <1>3 DEF InOrder

\* Every id is somewhere in the order, at one place.
LEMMA OrderIsComplete ==
  ASSUME NEW rows \in RegionRows, NEW q, InOrder(q, rows)
  PROVE  /\ \A r \in present(rows) : \E i \in DOMAIN q : q[i] = r
         /\ \A i, j \in DOMAIN q : q[i] = q[j] => i = j
<1> DEFINE N == Cardinality(present(rows))
<1>1. /\ N \in Nat /\ DOMAIN q = 1 .. N
      /\ \A j \in 1 .. N : q[j] \in present(rows) /\ rows[q[j]].order \in Nat
  BY RowsAreFinite DEF InOrder
<1>2. \A j, k \in 1 .. N : q[j] = q[k] => j = k
  BY <1>1 DEF InOrder
<1>3. q \in Injection(1 .. N, present(rows))
  BY <1>1, <1>2 DEF Injection, IsInjective, InOrder
<1>4. Cardinality(1 .. N) = N
  BY <1>1, FS_Interval
<1>5. q \in Surjection(1 .. N, present(rows))
  <2> HIDE DEF N
  <2> QED BY <1>3, <1>4, FS_Injection, RowsAreFinite DEF N
<1> QED BY <1>1, <1>2, <1>5 DEF Surjection

---------------------------------------------------------------------------
(* Folds over sequences *)

\* The largest of a set of indices.
LEMMA LargestIndex ==
  ASSUME NEW n \in Nat, NEW s \in SUBSET (1 .. n), s # {}
  PROVE  Max(s) \in s /\ \A x \in s : x <= Max(s)
<1> DEFINE gap == [x \in s |-> n - x]
           top(x) == \A y \in s : x >= y
<1>1. \A x \in s : gap[x] \in Nat
  OBVIOUS
<1>2. PICK x \in s : \A y \in s : gap[x] <= gap[y]
  <2> HIDE DEF gap
  <2> QED BY <1>1, LeastBy
<1>3. top(x)
  <2> SUFFICES ASSUME NEW y \in s PROVE x >= y
    OBVIOUS
  <2>1. n - x <= n - y /\ x \in Nat /\ y \in Nat
    BY <1>2
  <2> QED BY <2>1
<1>4. Max(s) = CHOOSE y \in s : top(y)
  BY DEF Max
<1>5. Max(s) \in s /\ top(Max(s))
  <2> HIDE DEF top
  <2> QED BY <1>3, <1>4
<1>6. \A y \in s : y \in Int
  OBVIOUS
<1> QED BY <1>5, <1>6

\* The board b of u after the events es.
After(b, u, es) == FoldLeft(LAMBDA c, e : applyEvent(c, u, e), b, es)

\* g[k] is the board after k of the events.
Publishing(g, b, u, es, n) ==
  /\ g[0] = b
  /\ \A k \in 1 .. n : g[k] = applyEvent(g[k - 1], u, es[k])
  /\ After(b, u, es) = g[n]

\* The events are published one after the other.
LEMMA FoldOfEvents ==
  ASSUME NEW b, NEW u, NEW n \in Nat, NEW es, DOMAIN es = 1 .. n
  PROVE  \E g : Publishing(g, b, u, es, n)
<1> DEFINE Def(f, s) == IF s = {} THEN b ELSE applyEvent(f[s \ {Max(s)}], u, es[Max(s)])
           Iter(f, k) == f = [s \in SUBSET (1 .. k) |-> Def(f, s)]
           Good == {k \in Nat : k <= n => \E f : Iter(f, k)}
<1>1. 0 \in Good
  <2> DEFINE f == [s \in SUBSET (1 .. 0) |-> b]
  <2>0. \A x : x \notin 1 .. 0
    OBVIOUS
  <2>1. \A s \in SUBSET (1 .. 0) : Def(f, s) = b
    <3> SUFFICES ASSUME NEW s \in SUBSET (1 .. 0) PROVE Def(f, s) = b
      OBVIOUS
    <3>1. s = {}
      BY <2>0
    <3> QED BY <3>1
  <2>2. Iter(f, 0)
    <3> HIDE DEF Def
    <3> QED BY <2>1
  <2> HIDE DEF Iter
  <2> QED BY <2>2
<1>2. ASSUME NEW k \in Good PROVE k + 1 \in Good
  <2>0. k \in Nat /\ (k <= n => \E f : Iter(f, k))
    <3> HIDE DEF Iter
    <3> QED OBVIOUS
  <2> SUFFICES ASSUME k + 1 <= n PROVE \E f : Iter(f, k + 1)
    <3> HIDE DEF Iter
    <3> QED BY <2>0
  <2>1. PICK f : Iter(f, k)
    <3> HIDE DEF Iter
    <3> QED BY <2>0
  <2> DEFINE h == [s \in SUBSET (1 .. k + 1) |->
                     IF s \in SUBSET (1 .. k) THEN f[s]
                     ELSE applyEvent(f[s \ {k + 1}], u, es[k + 1])]
  <2>2. ASSUME NEW s \in SUBSET (1 .. k + 1) PROVE h[s] = Def(h, s)
    <3>1. CASE s = {}
      BY <2>1, <3>1
    <3>2. CASE s # {} /\ s \in SUBSET (1 .. k)
      <4>1. Max(s) \in s
        BY <3>2, LargestIndex
      <4>2. s \ {Max(s)} \in SUBSET (1 .. k)
        BY <3>2
      <4>3. h[s] = f[s] /\ h[s \ {Max(s)}] = f[s \ {Max(s)}]
        BY <3>2, <4>2
      <4>4. f[s] = Def(f, s)
        BY <2>1, <3>2
      <4> HIDE DEF h
      <4> QED BY <3>2, <4>3, <4>4
    <3>3. CASE s \notin SUBSET (1 .. k)
      <4>1. k + 1 \in s /\ s # {}
        BY <3>3
      <4>2. Max(s) = k + 1
        <5>1. k + 1 \in Nat /\ s \in SUBSET (1 .. k + 1)
          OBVIOUS
        <5>2. Max(s) \in s /\ \A x \in s : x <= Max(s)
          BY <4>1, <5>1, LargestIndex
        <5>3. Max(s) \in 1 .. k + 1 /\ k + 1 <= Max(s)
          BY <4>1, <5>1, <5>2
        <5> QED BY <5>1, <5>3
      <4>3. s \ {k + 1} \in SUBSET (1 .. k)
        OBVIOUS
      <4>4. h[s] = applyEvent(f[s \ {k + 1}], u, es[k + 1]) /\ h[s \ {k + 1}] = f[s \ {k + 1}]
        BY <3>3, <4>3
      <4> HIDE DEF h
      <4> QED BY <4>1, <4>2, <4>4
    <3> QED BY <3>1, <3>2, <3>3
  <2>3. Iter(h, k + 1)
    <3>1. [s \in SUBSET (1 .. k + 1) |-> h[s]] = [s \in SUBSET (1 .. k + 1) |-> Def(h, s)]
      <4> HIDE DEF h, Def
      <4> QED BY <2>2
    <3>2. h = [s \in SUBSET (1 .. k + 1) |-> h[s]]
      OBVIOUS
    <3> HIDE DEF h, Def
    <3> QED BY <3>1, <3>2
  <2> HIDE DEF Iter
  <2> QED BY <2>3
<1>3. Good = Nat
  <2> HIDE DEF Good
  <2>1. Good \in SUBSET Nat
    BY DEF Good
  <2> QED BY <1>1, <1>2, <2>1, Induct
<1> DEFINE iter == CHOOSE f : Iter(f, n)
<1>4. Iter(iter, n)
  <2>1. n \in Good
    BY <1>3
  <2>2. \E f : Iter(f, n)
    <3> HIDE DEF Iter
    <3> QED BY <2>1
  <2> HIDE DEF Iter
  <2> QED BY <2>2
<1>5. After(b, u, es) = iter[1 .. n]
  BY DEF After, FoldLeft, MapThenFoldSet
<1> DEFINE g == [k \in 0 .. n |-> iter[1 .. k]]
<1> HIDE DEF iter
<1>6. g[0] = b
  <2>0. \A x : x \notin 1 .. 0
    OBVIOUS
  <2>1. 1 .. 0 = {}
    BY <2>0, Zenon
  <2> QED BY <1>4, <2>1
<1>7. ASSUME NEW k \in 1 .. n PROVE g[k] = applyEvent(g[k - 1], u, es[k])
  <2>1. 1 .. k \in SUBSET (1 .. n) /\ k \in 1 .. k
    OBVIOUS
  <2>2. Max(1 .. k) = k
    <3>1. Max(1 .. k) \in 1 .. k /\ \A x \in 1 .. k : x <= Max(1 .. k)
      BY <2>1, LargestIndex
    <3> QED BY <3>1
  <2>3. (1 .. k) \ {k} = 1 .. k - 1
    OBVIOUS
  <2>4. iter[1 .. k] = applyEvent(iter[1 .. k - 1], u, es[k])
    BY <1>4, <2>1, <2>2, <2>3
  <2> QED BY <2>4
<1>8. g[n] = iter[1 .. n]
  OBVIOUS
<1> HIDE DEF g
<1> QED BY <1>5, <1>6, <1>7, <1>8 DEF Publishing

\* g[k] is what withoutRegion keeps of the first k regions.
Keeping(g, r, rs, n) ==
  /\ g[0] = <<>>
  /\ \A k \in 1 .. n : g[k] = IF rs[k].id = r THEN g[k - 1] ELSE Append(g[k - 1], rs[k])
  /\ withoutRegion(rs, r) = g[n]

\* The regions of a browser are gone through one by one.
LEMMA FoldOfRegions ==
  ASSUME NEW r, NEW n \in Nat, NEW rs, DOMAIN rs = 1 .. n
  PROVE  \E g : Keeping(g, r, rs, n)
<1> DEFINE keep(c, s) == IF s.id = r THEN c ELSE Append(c, s)
<1>0. withoutRegion(rs, r) = FoldLeft(keep, <<>>, rs)
  BY DEF withoutRegion
<1> DEFINE Def(f, s) == IF s = {} THEN <<>> ELSE keep(f[s \ {Max(s)}], rs[Max(s)])
           Iter(f, k) == f = [s \in SUBSET (1 .. k) |-> Def(f, s)]
           Good == {k \in Nat : k <= n => \E f : Iter(f, k)}
<1>1. 0 \in Good
  <2> DEFINE f == [s \in SUBSET (1 .. 0) |-> <<>>]
  <2>0. \A x : x \notin 1 .. 0
    OBVIOUS
  <2>1. \A s \in SUBSET (1 .. 0) : Def(f, s) = <<>>
    <3> SUFFICES ASSUME NEW s \in SUBSET (1 .. 0) PROVE Def(f, s) = <<>>
      OBVIOUS
    <3>1. s = {}
      BY <2>0
    <3> QED BY <3>1
  <2>2. Iter(f, 0)
    <3> HIDE DEF Def
    <3> QED BY <2>1
  <2> HIDE DEF Iter
  <2> QED BY <2>2
<1>2. ASSUME NEW k \in Good PROVE k + 1 \in Good
  <2>0. k \in Nat /\ (k <= n => \E f : Iter(f, k))
    <3> HIDE DEF Iter
    <3> QED OBVIOUS
  <2> SUFFICES ASSUME k + 1 <= n PROVE \E f : Iter(f, k + 1)
    <3> HIDE DEF Iter
    <3> QED BY <2>0
  <2>1. PICK f : Iter(f, k)
    <3> HIDE DEF Iter
    <3> QED BY <2>0
  <2> DEFINE h == [s \in SUBSET (1 .. k + 1) |->
                     IF s \in SUBSET (1 .. k) THEN f[s]
                     ELSE keep(f[s \ {k + 1}], rs[k + 1])]
  <2>2. ASSUME NEW s \in SUBSET (1 .. k + 1) PROVE h[s] = Def(h, s)
    <3>1. CASE s = {}
      BY <2>1, <3>1
    <3>2. CASE s # {} /\ s \in SUBSET (1 .. k)
      <4>1. Max(s) \in s
        BY <3>2, LargestIndex
      <4>2. s \ {Max(s)} \in SUBSET (1 .. k)
        BY <3>2
      <4>3. h[s] = f[s] /\ h[s \ {Max(s)}] = f[s \ {Max(s)}]
        BY <3>2, <4>2
      <4>4. f[s] = Def(f, s)
        BY <2>1, <3>2
      <4> HIDE DEF h
      <4> QED BY <3>2, <4>3, <4>4
    <3>3. CASE s \notin SUBSET (1 .. k)
      <4>1. k + 1 \in s /\ s # {}
        BY <3>3
      <4>2. Max(s) = k + 1
        <5>1. k + 1 \in Nat /\ s \in SUBSET (1 .. k + 1)
          OBVIOUS
        <5>2. Max(s) \in s /\ \A x \in s : x <= Max(s)
          BY <4>1, <5>1, LargestIndex
        <5>3. Max(s) \in 1 .. k + 1 /\ k + 1 <= Max(s)
          BY <4>1, <5>1, <5>2
        <5> QED BY <5>1, <5>3
      <4>3. s \ {k + 1} \in SUBSET (1 .. k)
        OBVIOUS
      <4>4. h[s] = keep(f[s \ {k + 1}], rs[k + 1]) /\ h[s \ {k + 1}] = f[s \ {k + 1}]
        BY <3>3, <4>3
      <4> HIDE DEF h
      <4> QED BY <4>1, <4>2, <4>4
    <3> QED BY <3>1, <3>2, <3>3
  <2>3. Iter(h, k + 1)
    <3>1. [s \in SUBSET (1 .. k + 1) |-> h[s]] = [s \in SUBSET (1 .. k + 1) |-> Def(h, s)]
      <4> HIDE DEF h, Def
      <4> QED BY <2>2
    <3>2. h = [s \in SUBSET (1 .. k + 1) |-> h[s]]
      OBVIOUS
    <3> HIDE DEF h, Def
    <3> QED BY <3>1, <3>2
  <2> HIDE DEF Iter
  <2> QED BY <2>3
<1>3. Good = Nat
  <2> HIDE DEF Good
  <2>1. Good \in SUBSET Nat
    BY DEF Good
  <2> QED BY <1>1, <1>2, <2>1, Induct
<1> DEFINE iter == CHOOSE f : Iter(f, n)
<1>4. Iter(iter, n)
  <2>1. n \in Good
    BY <1>3
  <2>2. \E f : Iter(f, n)
    <3> HIDE DEF Iter
    <3> QED BY <2>1
  <2> HIDE DEF Iter
  <2> QED BY <2>2
<1>5. withoutRegion(rs, r) = iter[1 .. n]
  BY <1>0 DEF FoldLeft, MapThenFoldSet
<1> DEFINE g == [k \in 0 .. n |-> iter[1 .. k]]
<1> HIDE DEF iter
<1>6. g[0] = <<>>
  <2>0. \A x : x \notin 1 .. 0
    OBVIOUS
  <2>1. 1 .. 0 = {}
    BY <2>0, Zenon
  <2> QED BY <1>4, <2>1
<1>7. ASSUME NEW k \in 1 .. n PROVE g[k] = keep(g[k - 1], rs[k])
  <2>1. 1 .. k \in SUBSET (1 .. n) /\ k \in 1 .. k
    OBVIOUS
  <2>2. Max(1 .. k) = k
    <3>1. Max(1 .. k) \in 1 .. k /\ \A x \in 1 .. k : x <= Max(1 .. k)
      BY <2>1, LargestIndex
    <3> QED BY <3>1
  <2>3. (1 .. k) \ {k} = 1 .. k - 1
    OBVIOUS
  <2>4. iter[1 .. k] = keep(iter[1 .. k - 1], rs[k])
    BY <1>4, <2>1, <2>2, <2>3
  <2> QED BY <2>4
<1>8. g[n] = iter[1 .. n]
  OBVIOUS
<1> HIDE DEF g
<1> QED BY <1>5, <1>6, <1>7, <1>8 DEF Keeping

\* Functions with the same domain and values are the same.
LEMMA SameFunction ==
  ASSUME NEW D, NEW X, NEW Y, NEW f \in [D -> X], NEW g \in [D -> Y], \A x \in D : f[x] = g[x]
  PROVE  f = g
<1>1. f = [x \in D |-> f[x]] /\ g = [x \in D |-> g[x]]
  OBVIOUS
<1>2. [x \in D |-> f[x]] = [x \in D |-> g[x]]
  OBVIOUS
<1> QED BY <1>1, <1>2, Zenon

\* Append, at the level of functions.
LEMMA AppendIs ==
  ASSUME NEW X, NEW m \in Nat, NEW s \in [1 .. m -> X], NEW x \in X
  PROVE  Append(s, x) = [j \in 1 .. m + 1 |-> IF j = m + 1 THEN x ELSE s[j]]
<1>1. s \in Seq(X) /\ Len(s) = m
  OBVIOUS
<1>2. /\ Append(s, x) \in Seq(X) /\ Len(Append(s, x)) = m + 1
      /\ \A j \in 1 .. m + 1 : Append(s, x)[j] = IF j = m + 1 THEN x ELSE s[j]
  BY <1>1
<1>3. Append(s, x) \in [1 .. m + 1 -> X]
  BY <1>2, LenProperties
<1> DEFINE t == [j \in 1 .. m + 1 |-> IF j = m + 1 THEN x ELSE s[j]]
<1>4. t \in [1 .. m + 1 -> X] /\ \A j \in 1 .. m + 1 : t[j] = Append(s, x)[j]
  BY <1>2
<1> HIDE DEF t
<1>5. Append(s, x) = t
  BY <1>3, <1>4, SameFunction
<1> QED BY <1>5 DEF t

\* Without a region it does not have, a browser's list stays as it is.
LEMMA WithoutAbsent ==
  ASSUME NEW X, NEW n \in Nat, NEW rs \in [1 .. n -> X], NEW r, \A j \in 1 .. n : rs[j].id # r
  PROVE  withoutRegion(rs, r) = rs
<1>0. DOMAIN rs = 1 .. n
  OBVIOUS
<1>1. PICK g : /\ g[0] = <<>>
               /\ \A k \in 1 .. n :
                    g[k] = IF rs[k].id = r THEN g[k - 1] ELSE Append(g[k - 1], rs[k])
               /\ withoutRegion(rs, r) = g[n]
  <2>1. PICK g : Keeping(g, r, rs, n)
    BY <1>0, FoldOfRegions
  <2> QED BY <2>1 DEF Keeping
<1> DEFINE Good == {k \in Nat : k <= n => g[k] = [j \in 1 .. k |-> rs[j]]}
<1>2. 0 \in Good
  BY <1>1
<1>3. ASSUME NEW k \in Good PROVE k + 1 \in Good
  <2> SUFFICES ASSUME k + 1 <= n PROVE g[k + 1] = [j \in 1 .. k + 1 |-> rs[j]]
    OBVIOUS
  <2>1. k \in Nat /\ k + 1 \in 1 .. n /\ g[k] = [j \in 1 .. k |-> rs[j]] /\ k + 1 - 1 = k
    OBVIOUS
  <2>2. g[k + 1] = Append(g[k], rs[k + 1])
    <3>1. rs[k + 1].id # r
      BY <2>1
    <3>2. g[k + 1] = IF rs[k + 1].id = r THEN g[k + 1 - 1] ELSE Append(g[k + 1 - 1], rs[k + 1])
      BY <1>1, <2>1
    <3> QED BY <2>1, <3>1, <3>2
  <2>3. g[k] \in [1 .. k -> X] /\ rs[k + 1] \in X
    BY <2>1
  <2>4. g[k + 1] = [j \in 1 .. k + 1 |-> IF j = k + 1 THEN rs[k + 1] ELSE g[k][j]]
    BY <2>1, <2>2, <2>3, AppendIs
  <2> QED BY <2>1, <2>4
<1>4. n \in Good
  <2> HIDE DEF Good
  <2>1. Good \in SUBSET Nat
    BY DEF Good
  <2> QED BY <1>2, <1>3, <2>1, Induct
<1> QED BY <1>1, <1>4

\* The first n of a list but the one at place i: those after it move up.
ClosedUp(rs, n, i) == [j \in 1 .. n - 1 |-> IF j < i THEN rs[j] ELSE rs[j + 1]]

\* The region at place i is the one with the id.
OnlyAt(rs, n, i, r) == rs[i].id = r /\ \A j \in 1 .. n : rs[j].id = r => j = i

\* Without the region at place i, the list closes up.
LEMMA WithoutPresent ==
  ASSUME NEW X, NEW n \in Nat, NEW rs \in [1 .. n -> X], NEW i \in 1 .. n, NEW r,
         OnlyAt(rs, n, i, r)
  PROVE  withoutRegion(rs, r) = ClosedUp(rs, n, i)
<1> USE DEF OnlyAt
<1>0. DOMAIN rs = 1 .. n
  OBVIOUS
<1>1. PICK g : /\ g[0] = <<>>
               /\ \A k \in 1 .. n :
                    g[k] = IF rs[k].id = r THEN g[k - 1] ELSE Append(g[k - 1], rs[k])
               /\ withoutRegion(rs, r) = g[n]
  <2>1. PICK g : Keeping(g, r, rs, n)
    BY <1>0, FoldOfRegions
  <2> QED BY <2>1 DEF Keeping
<1> DEFINE kept(k) == [j \in 1 .. (IF k < i THEN k ELSE k - 1) |->
                         IF j < i THEN rs[j] ELSE rs[j + 1]]
           Good == {k \in Nat : k <= n => g[k] = kept(k)}
<1>2. 0 \in Good
  BY <1>1
<1>3. ASSUME NEW k \in Good PROVE k + 1 \in Good
  <2> SUFFICES ASSUME k + 1 <= n PROVE g[k + 1] = kept(k + 1)
    OBVIOUS
  <2>1. k \in Nat /\ k + 1 \in 1 .. n /\ g[k] = kept(k) /\ k + 1 - 1 = k
    OBVIOUS
  <2>2. g[k + 1] = IF k + 1 = i THEN g[k] ELSE Append(g[k], rs[k + 1])
    BY <1>1, <2>1
  <2>3. CASE k + 1 = i
    BY <2>1, <2>2, <2>3
  <2>4. CASE k + 1 < i
    <3>1. g[k] \in [1 .. k -> X] /\ rs[k + 1] \in X
      BY <2>1, <2>4
    <3>2. Append(g[k], rs[k + 1]) = [j \in 1 .. k + 1 |-> IF j = k + 1 THEN rs[k + 1] ELSE g[k][j]]
      BY <2>1, <3>1, AppendIs
    <3>3. g[k + 1] = Append(g[k], rs[k + 1])
      BY <2>2, <2>4
    <3> QED BY <2>1, <2>4, <3>2, <3>3
  <2>5. CASE k + 1 > i
    <3>1. k - 1 \in Nat /\ g[k] \in [1 .. k - 1 -> X] /\ rs[k + 1] \in X
      BY <2>1, <2>5
    <3>2. Append(g[k], rs[k + 1]) =
            [j \in 1 .. (k - 1) + 1 |-> IF j = (k - 1) + 1 THEN rs[k + 1] ELSE g[k][j]]
      BY <3>1, AppendIs
    <3>3. (k - 1) + 1 = k /\ g[k + 1] = Append(g[k], rs[k + 1])
      BY <2>1, <2>2, <2>5
    <3>4. g[k + 1] = [j \in 1 .. k |-> IF j = k THEN rs[k + 1] ELSE g[k][j]]
      BY <3>2, <3>3
    <3>5. kept(k + 1) = [j \in 1 .. k |-> IF j < i THEN rs[j] ELSE rs[j + 1]]
      BY <2>1, <2>5
    <3>6. \A j \in 1 .. k - 1 : g[k][j] = IF j < i THEN rs[j] ELSE rs[j + 1]
      BY <2>1, <2>5
    <3>7. \A j \in 1 .. k : (IF j = k THEN rs[k + 1] ELSE g[k][j])
                             = IF j < i THEN rs[j] ELSE rs[j + 1]
      BY <2>1, <2>5, <3>6
    <3> HIDE DEF kept
    <3> QED BY <3>4, <3>5, <3>7
  <2> QED BY <2>1, <2>3, <2>4, <2>5
<1>4. n \in Good
  <2> HIDE DEF Good
  <2>1. Good \in SUBSET Nat
    BY DEF Good
  <2> QED BY <1>2, <1>3, <2>1, Induct
<1>5. kept(n) = ClosedUp(rs, n, i)
  BY DEF ClosedUp
<1> QED BY <1>1, <1>4, <1>5

---------------------------------------------------------------------------
(* The list of regions after a command *)

\* What a browser has of the regions.
Regionlist(rows) == Listed(rows, byOrder(rows))
SeenRegion == [id : Regions, x : Int, y : Int, w : Nat, h : Nat, z : Int]

\* The list shows every region once.
LEMMA ListType ==
  ASSUME NEW rows \in RegionRows, OrdersDistinct(rows)
  PROVE  LET n == Cardinality(present(rows))
             q == byOrder(rows)
         IN  /\ n \in Nat /\ q \in [1 .. n -> present(rows)]
             /\ Regionlist(rows) \in [1 .. n -> SeenRegion]
             /\ \A i \in 1 .. n : Regionlist(rows)[i] = RegionSeen(q[i], rows[q[i]])
             /\ \A i \in 1 .. n : Regionlist(rows)[i].id = q[i] /\ rows[q[i]] \in RegionRow
<1> DEFINE n == Cardinality(present(rows))
           q == byOrder(rows)
<1>1. n \in Nat /\ q \in [1 .. n -> present(rows)]
  BY ByOrder, RowsAreFinite DEF InOrder
<1> HIDE DEF q, n
<1>2. Regionlist(rows) = [i \in 1 .. n |-> RegionSeen(q[i], rows[q[i]])]
  BY <1>1 DEF Regionlist, Listed, q
<1>3. \A i \in 1 .. n : q[i] \in present(rows) /\ q[i] \in Regions /\ rows[q[i]] \in RegionRow
  BY <1>1, RowsAreFinite
<1>4. \A i \in 1 .. n : /\ RegionSeen(q[i], rows[q[i]]) \in SeenRegion
                        /\ RegionSeen(q[i], rows[q[i]]).id = q[i]
  BY <1>3 DEF RegionSeen, SeenRegion, RegionRow
<1>5. Regionlist(rows) \in [1 .. n -> SeenRegion]
  BY <1>2, <1>4
<1> QED BY <1>1, <1>2, <1>3, <1>4, <1>5 DEF q, n

\* An order of the new rows tells what the new list is.
LEMMA ListFromOrder ==
  ASSUME NEW rows \in RegionRows, OrdersDistinct(rows), NEW q, InOrder(q, rows)
  PROVE  Regionlist(rows) = Listed(rows, q)
BY ByOrder, OneOrder DEF Regionlist

\* A new region with the largest rowid goes to the end.
LEMMA ListCreated ==
  ASSUME NEW rows \in RegionRows, OrdersDistinct(rows), NEW r \in Regions, rows[r] = None,
         NEW row \in RegionRow, \A s \in present(rows) : rows[s].order < row.order
  PROVE  LET new == [rows EXCEPT ![r] = row]
         IN  /\ new \in RegionRows /\ OrdersDistinct(new)
             /\ Regionlist(new) = Append(withoutRegion(Regionlist(rows), r), RegionSeen(r, row))
<1> DEFINE new == [rows EXCEPT ![r] = row]
           n == Cardinality(present(rows))
           q == byOrder(rows)
           next == [i \in 1 .. n + 1 |-> IF i = n + 1 THEN r ELSE q[i]]
<1>1. new \in RegionRows /\ new[r] = row /\ \A s \in Regions \ {r} : new[s] = rows[s]
  BY DEF RegionRows
<1>2. present(new) = present(rows) \cup {r} /\ r \notin present(rows) /\ row # None
  BY <1>1, NoneIsNoRow DEF present
<1>3. OrdersDistinct(new)
  <2>1. \A s \in present(rows) : s # r /\ new[s] = rows[s] /\ rows[s].order # row.order
    BY <1>1, <1>2, RowsAreFinite DEF present, RegionRow
  <2> HIDE DEF new
  <2> QED BY <1>1, <1>2, <2>1 DEF OrdersDistinct
<1>4. Cardinality(present(new)) = n + 1
  BY <1>2, RowsAreFinite, FS_AddElement
<1>5. /\ n \in Nat /\ q \in [1 .. n -> present(rows)]
      /\ Regionlist(rows) \in [1 .. n -> SeenRegion]
      /\ \A i \in 1 .. n : Regionlist(rows)[i] = RegionSeen(q[i], rows[q[i]])
      /\ \A i \in 1 .. n : Regionlist(rows)[i].id = q[i]
  BY ListType
<1>6. InOrder(next, new)
  <2>1. \A i \in 1 .. n : /\ q[i] \in present(rows) /\ q[i] \in Regions
                          /\ q[i] # r /\ new[q[i]] = rows[q[i]]
    BY <1>1, <1>2, <1>5 DEF present
  <2>2. \A i, j \in 1 .. n : i < j => rows[q[i]].order < rows[q[j]].order
    BY <1>5, ByOrder DEF InOrder
  <2>3. next \in [1 .. n + 1 -> present(new)]
    <3>1. \A i \in 1 .. n + 1 : next[i] \in present(rows) \cup {r}
      <4> HIDE DEF q, n
      <4> QED BY <1>5, <2>1
    <3> HIDE DEF new, q, n
    <3> QED BY <1>2, <3>1
  <2>4. \A i \in 1 .. n : next[i] = q[i]
    BY <1>5
  <2>5. next[n + 1] = r
    BY <1>5
  <2> HIDE DEF next, new, q, n
  <2>6. ASSUME NEW i \in 1 .. n + 1, NEW j \in 1 .. n + 1, i < j
        PROVE  new[next[i]].order < new[next[j]].order
    <3>1. i \in 1 .. n
      BY <1>5, <2>6
    <3>2. CASE j \in 1 .. n
      BY <2>1, <2>2, <2>4, <2>6, <3>1, <3>2
    <3>3. CASE j = n + 1
      BY <1>1, <2>1, <2>4, <2>5, <3>1, <3>3
    <3> QED BY <1>5, <3>2, <3>3
  <2> QED BY <1>4, <2>3, <2>6 DEF InOrder
<1>7. Regionlist(new) = Listed(new, next)
  <2> HIDE DEF next, new
  <2> QED BY <1>1, <1>3, <1>6, ListFromOrder
<1>8. withoutRegion(Regionlist(rows), r) = Regionlist(rows)
  <2>1. \A i \in 1 .. n : Regionlist(rows)[i].id # r
    BY <1>2, <1>5
  <2> DEFINE rs == Regionlist(rows)
  <2>2. n \in Nat /\ rs \in [1 .. n -> SeenRegion] /\ \A i \in 1 .. n : rs[i].id # r
    BY <1>5, <2>1
  <2> HIDE DEF n, q, rs
  <2>3. withoutRegion(rs, r) = rs
    BY <2>2, WithoutAbsent
  <2> QED BY <2>3 DEF rs
<1>9. RegionSeen(r, row) \in SeenRegion
  BY DEF RegionSeen, SeenRegion, RegionRow
<1>10. Append(Regionlist(rows), RegionSeen(r, row)) =
         [i \in 1 .. n + 1 |-> IF i = n + 1 THEN RegionSeen(r, row) ELSE Regionlist(rows)[i]]
  <2> DEFINE rs == Regionlist(rows)
             x == RegionSeen(r, row)
  <2>1. n \in Nat /\ rs \in [1 .. n -> SeenRegion] /\ x \in SeenRegion
    BY <1>5, <1>9
  <2> HIDE DEF n, q, rs, x
  <2>2. Append(rs, x) = [i \in 1 .. n + 1 |-> IF i = n + 1 THEN x ELSE rs[i]]
    BY <2>1, AppendIs
  <2> QED BY <2>2 DEF rs, x
<1>11. Listed(new, next) =
         [i \in 1 .. n + 1 |-> IF i = n + 1 THEN RegionSeen(r, row) ELSE Regionlist(rows)[i]]
  <2>1. \A i \in 1 .. n : q[i] # r /\ q[i] \in Regions
    BY <1>2, <1>5 DEF present
  <2>2. Listed(new, next) = [i \in 1 .. n + 1 |-> RegionSeen(next[i], new[next[i]])]
    BY DEF Listed
  <2>3. ASSUME NEW i \in 1 .. n + 1
        PROVE  RegionSeen(next[i], new[next[i]]) =
                 IF i = n + 1 THEN RegionSeen(r, row) ELSE Regionlist(rows)[i]
    <3>1. CASE i = n + 1
      BY <1>1, <1>5, <3>1
    <3>2. CASE i # n + 1
      <4>1. i \in 1 .. n /\ next[i] = q[i]
        BY <1>5, <3>2
      <4>2. new[q[i]] = rows[q[i]]
        BY <1>1, <2>1, <4>1
      <4> HIDE DEF next, new, q
      <4> QED BY <1>5, <3>2, <4>1, <4>2
    <3> QED BY <3>1, <3>2
  <2> HIDE DEF next, new, n
  <2> QED BY <2>2, <2>3
<1> QED BY <1>1, <1>3, <1>7, <1>8, <1>10, <1>11

\* A region that is updated keeps its place.
LEMMA ListUpdated ==
  ASSUME NEW rows \in RegionRows, OrdersDistinct(rows), NEW r \in Regions, rows[r] # None,
         NEW row \in RegionRow, row.order = rows[r].order
  PROVE  LET new == [rows EXCEPT ![r] = row]
         IN  /\ new \in RegionRows /\ OrdersDistinct(new)
             /\ Regionlist(new) = replace(Regionlist(rows), RegionSeen(r, row))
<1> DEFINE new == [rows EXCEPT ![r] = row]
           n == Cardinality(present(rows))
           q == byOrder(rows)
<1>1. new \in RegionRows /\ new[r] = row /\ \A s \in Regions \ {r} : new[s] = rows[s]
  BY DEF RegionRows
<1>2. present(new) = present(rows) /\ r \in present(rows)
  BY <1>1, NoneIsNoRow DEF present
<1>3. \A s \in present(rows) : new[s].order = rows[s].order
  BY <1>1 DEF present
<1>4. OrdersDistinct(new)
  <2> HIDE DEF new
  <2> QED BY <1>2, <1>3 DEF OrdersDistinct
<1>5. /\ n \in Nat /\ q \in [1 .. n -> present(rows)]
      /\ Regionlist(rows) \in [1 .. n -> SeenRegion]
      /\ \A i \in 1 .. n : Regionlist(rows)[i] = RegionSeen(q[i], rows[q[i]])
      /\ \A i \in 1 .. n : Regionlist(rows)[i].id = q[i]
  BY ListType
<1>6. InOrder(q, new)
  <2>1. \A i, j \in 1 .. n : i < j => rows[q[i]].order < rows[q[j]].order
    BY <1>5, ByOrder DEF InOrder
  <2> HIDE DEF new, q
  <2> QED BY <1>2, <1>3, <1>5, <2>1 DEF InOrder
<1>7. Regionlist(new) = [i \in 1 .. n |-> RegionSeen(q[i], new[q[i]])]
  <2> HIDE DEF new, q
  <2> QED BY <1>1, <1>4, <1>5, <1>6, ListFromOrder DEF Listed
<1>8. ASSUME NEW i \in 1 .. n
      PROVE  RegionSeen(q[i], new[q[i]]) =
               IF Regionlist(rows)[i].id = r THEN RegionSeen(r, row) ELSE Regionlist(rows)[i]
  <2>1. q[i] \in Regions
    BY <1>5 DEF present
  <2> HIDE DEF new, q
  <2> QED BY <1>1, <1>5, <2>1
<1>9. replace(Regionlist(rows), RegionSeen(r, row)) =
        [i \in 1 .. n |-> IF Regionlist(rows)[i].id = r THEN RegionSeen(r, row)
                           ELSE Regionlist(rows)[i]]
  <2>1. RegionSeen(r, row).id = r
    BY DEF RegionSeen
  <2> HIDE DEF n, q
  <2> QED BY <1>5, <2>1 DEF replace
<1> HIDE DEF q, n
<1>10. Regionlist(new) = replace(Regionlist(rows), RegionSeen(r, row))
  <2> HIDE DEF new
  <2> QED BY <1>7, <1>8, <1>9
<1> QED BY <1>1, <1>4, <1>10

\* Without the region, those after it move up.
LEMMA ListDeleted ==
  ASSUME NEW rows \in RegionRows, OrdersDistinct(rows), NEW r \in Regions, rows[r] # None
  PROVE  LET new == [rows EXCEPT ![r] = None]
         IN  /\ new \in RegionRows /\ OrdersDistinct(new)
             /\ Regionlist(new) = withoutRegion(Regionlist(rows), r)
<1> DEFINE new == [rows EXCEPT ![r] = None]
           n == Cardinality(present(rows))
           q == byOrder(rows)
<1>1. new \in RegionRows /\ new[r] = None /\ \A s \in Regions \ {r} : new[s] = rows[s]
  BY DEF RegionRows
<1>2. present(new) = present(rows) \ {r} /\ r \in present(rows)
  BY <1>1 DEF present
<1>3. \A s \in present(new) : s # r /\ s \in present(rows) /\ new[s] = rows[s]
  BY <1>1, <1>2 DEF present
<1>4. OrdersDistinct(new)
  <2> HIDE DEF new
  <2> QED BY <1>2, <1>3 DEF OrdersDistinct
<1>5. /\ n \in Nat /\ q \in [1 .. n -> present(rows)]
      /\ Regionlist(rows) \in [1 .. n -> SeenRegion]
      /\ \A i \in 1 .. n : Regionlist(rows)[i] = RegionSeen(q[i], rows[q[i]])
      /\ \A i \in 1 .. n : Regionlist(rows)[i].id = q[i]
  BY ListType
<1>6. PICK i \in 1 .. n : /\ q[i] = r
                          /\ \A j \in 1 .. n : q[j] = r <=> j = i
  <2>1. InOrder(q, rows) /\ DOMAIN q = 1 .. n
    BY <1>5, ByOrder
  <2> HIDE DEF q, n
  <2>2. PICK i \in 1 .. n : q[i] = r
    BY <1>2, <2>1, OrderIsComplete
  <2>3. \A j \in 1 .. n : q[j] = q[i] => j = i
    BY <2>1, OrderIsComplete
  <2> QED BY <2>2, <2>3
<1> DEFINE next == [j \in 1 .. n - 1 |-> IF j < i THEN q[j] ELSE q[j + 1]]
<1>7. Cardinality(present(new)) = n - 1
  BY <1>2, RowsAreFinite, FS_RemoveElement
<1>8. \A j \in 1 .. n - 1 :
        /\ j \in 1 .. n /\ j + 1 \in 1 .. n
        /\ next[j] = (IF j < i THEN q[j] ELSE q[j + 1])
        /\ next[j] \in present(new) /\ new[next[j]] = rows[next[j]]
  <2> SUFFICES ASSUME NEW j \in 1 .. n - 1
               PROVE  /\ j \in 1 .. n /\ j + 1 \in 1 .. n
                      /\ next[j] = (IF j < i THEN q[j] ELSE q[j + 1])
                      /\ next[j] \in present(new) /\ new[next[j]] = rows[next[j]]
    OBVIOUS
  <2>1. j \in 1 .. n /\ j + 1 \in 1 .. n /\ next[j] = (IF j < i THEN q[j] ELSE q[j + 1])
    BY <1>5
  <2>2. next[j] \in present(rows) /\ next[j] # r
    <3> HIDE DEF next, q, n
    <3> QED BY <1>5, <1>6, <2>1
  <2> HIDE DEF next, new
  <2> QED BY <1>2, <1>3, <2>1, <2>2
<1>9. InOrder(next, new)
  <2>1. \A j, k \in 1 .. n : j < k => rows[q[j]].order < rows[q[k]].order
    BY <1>5, ByOrder DEF InOrder
  <2>2. next \in [1 .. n - 1 -> present(new)]
    BY <1>8
  <2> HIDE DEF next, new, q, n
  <2>3. ASSUME NEW j \in 1 .. n - 1, NEW k \in 1 .. n - 1, j < k
        PROVE  new[next[j]].order < new[next[k]].order
    BY <1>5, <1>8, <2>1, <2>3
  <2> QED BY <1>7, <2>2, <2>3 DEF InOrder
<1>10. Regionlist(new) = [j \in 1 .. n - 1 |-> RegionSeen(next[j], new[next[j]])]
  <2>1. DOMAIN next = 1 .. n - 1
    OBVIOUS
  <2> HIDE DEF new, next
  <2> QED BY <1>1, <1>4, <1>9, <2>1, ListFromOrder DEF Listed
<1>11. withoutRegion(Regionlist(rows), r) =
         [j \in 1 .. n - 1 |-> IF j < i THEN Regionlist(rows)[j] ELSE Regionlist(rows)[j + 1]]
  <2> DEFINE rs == Regionlist(rows)
  <2>1. /\ n \in Nat /\ i \in 1 .. n /\ rs \in [1 .. n -> SeenRegion]
        /\ OnlyAt(rs, n, i, r)
    BY <1>5, <1>6 DEF OnlyAt
  <2> HIDE DEF n, q, rs
  <2>2. withoutRegion(rs, r) = ClosedUp(rs, n, i)
    BY <2>1, WithoutPresent
  <2> QED BY <2>2 DEF rs, ClosedUp
<1> HIDE DEF q, n, next
<1>12. \A j \in 1 .. n - 1 :
         RegionSeen(next[j], new[next[j]]) =
           IF j < i THEN Regionlist(rows)[j] ELSE Regionlist(rows)[j + 1]
  <2> HIDE DEF new
  <2> QED BY <1>5, <1>8
<1>13. Regionlist(new) = withoutRegion(Regionlist(rows), r)
  <2> HIDE DEF new
  <2> QED BY <1>10, <1>11, <1>12
<1> QED BY <1>1, <1>4, <1>13

---------------------------------------------------------------------------
(* What the events of a command do to a board *)

\* One event.
LEMMA AfterOne ==
  ASSUME NEW b, NEW u, NEW e
  PROVE  After(b, u, <<e>>) = applyEvent(b, u, e)
<1> DEFINE es == <<e>>
<1>1. DOMAIN es = 1 .. 1 /\ es[1] = e /\ 1 \in Nat
  OBVIOUS
<1> HIDE DEF es
<1>2. PICK g : Publishing(g, b, u, es, 1)
  BY <1>1, FoldOfEvents
<1>3. 1 \in 1 .. 1 /\ 1 - 1 = 0
  OBVIOUS
<1>4. g[1] = applyEvent(g[0], u, e)
  BY <1>1, <1>2, <1>3 DEF Publishing
<1> QED BY <1>2, <1>4 DEF es, Publishing

\* Two events.
LEMMA AfterTwo ==
  ASSUME NEW b, NEW u, NEW d, NEW e
  PROVE  After(b, u, <<d, e>>) = applyEvent(applyEvent(b, u, d), u, e)
<1> DEFINE es == <<d, e>>
<1>1. DOMAIN es = 1 .. 2 /\ es[1] = d /\ es[2] = e /\ 2 \in Nat
  OBVIOUS
<1> HIDE DEF es
<1>2. PICK g : Publishing(g, b, u, es, 2)
  BY <1>1, FoldOfEvents
<1>3. 1 \in 1 .. 2 /\ 1 - 1 = 0 /\ 2 \in 1 .. 2 /\ 2 - 1 = 1
  OBVIOUS
<1>4. g[1] = applyEvent(b, u, d) /\ g[2] = applyEvent(g[1], u, e)
  BY <1>1, <1>2, <1>3 DEF Publishing
<1> QED BY <1>2, <1>4 DEF es, Publishing

\* An event in front of others.
Prepended(e, f) == <<e>> \o f
Prefixed(es, e, f, m) ==
  DOMAIN es = 1 .. m + 1 /\ es[1] = e /\ \A i \in 1 .. m : es[i + 1] = f[i]

\* An event and then others, at the level of functions.
LEMMA FirstThenRest ==
  ASSUME NEW e, NEW m \in Nat, NEW E, NEW f \in [1 .. m -> E]
  PROVE  Prefixed(Prepended(e, f), e, f, m)
<1> DEFINE X == {e} \cup E
<1>1. f \in [1 .. m -> X] /\ e \in X
  OBVIOUS
<1> HIDE DEF X
<1>2. f \in Seq(X) /\ Len(f) = m /\ <<e>> \in Seq(X) /\ Len(<<e>>) = 1 /\ <<e>>[1] = e
  BY <1>1
<1>3. /\ <<e>> \o f \in Seq(X) /\ Len(<<e>> \o f) = 1 + m
      /\ \A i \in 1 .. 1 + m : (<<e>> \o f)[i] = IF i <= 1 THEN <<e>>[i] ELSE f[i - 1]
  BY <1>2, ConcatProperties
<1>4. DOMAIN (<<e>> \o f) = 1 .. Len(<<e>> \o f)
  BY <1>3, LenProperties
<1>5. /\ 1 + m = m + 1 /\ 1 \in 1 .. 1 + m
      /\ \A i \in 1 .. m : i + 1 \in 1 .. 1 + m /\ ~(i + 1 <= 1) /\ i + 1 - 1 = i
  OBVIOUS
<1> HIDE DEF X
<1> QED BY <1>2, <1>3, <1>4, <1>5 DEF Prefixed, Prepended

\* A finite set in some order, each element once.
LEMMA SetInOrder ==
  ASSUME NEW S, IsFiniteSet(S)
  PROVE  /\ Cardinality(S) \in Nat
         /\ SetToSeq(S) \in [1 .. Cardinality(S) -> S]
         /\ \A x \in S : \E i \in 1 .. Cardinality(S) : SetToSeq(S)[i] = x
<1> DEFINE n == Cardinality(S)
<1>1. n \in Nat /\ ExistsBijection(1 .. n, S)
  BY FS_CardinalityType
<1>2. \E f \in [1 .. n -> S] : IsInjective(f)
  BY <1>1 DEF ExistsBijection, Bijection, Injection
<1>3. SetToSeq(S) \in [1 .. n -> S] /\ IsInjective(SetToSeq(S))
  BY <1>2 DEF SetToSeq
<1>4. SetToSeq(S) \in Injection(1 .. n, S)
  BY <1>3 DEF Injection
<1>5. Cardinality(1 .. n) = n
  BY <1>1, FS_Interval
<1>6. SetToSeq(S) \in Surjection(1 .. n, S)
  <2> HIDE DEF n
  <2> QED BY <1>4, <1>5, FS_Injection DEF n
<1> QED BY <1>1, <1>3, <1>6 DEF Surjection

\* The notes with the tags of those in S replaced.
Retagged(N, S, t) ==
  [n \in Notes |-> IF n \in S THEN [N[n] EXCEPT !.region = t[n]] ELSE N[n]]

\* One event for each of S.
Retags(S, t) == [i \in 1 .. Cardinality(S) |-> retagged(SetToSeq(S)[i], t[SetToSeq(S)[i]])]

Showing(N, R, L) == [notes |-> N, regions |-> R, lifecycle |-> L]

\* One note_retagged event.
LEMMA AfterRetag ==
  ASSUME NEW u, NEW N \in [Notes -> NoteJSON \cup {None}], NEW R, NEW L, NEW S \in SUBSET Notes,
         NEW t \in [Notes -> Regions \cup {None}], NEW n \in Notes, N[n] # None
  PROVE  applyEvent(Showing(Retagged(N, S, t), R, L), u,
                    retagged(n, t[n])) =
           Showing(Retagged(N, S \cup {n}, t), R, L)
<1> DEFINE M == Retagged(N, S, t)
           c == Showing(M, R, L)
           note == [M[n] EXCEPT !.region = t[n]]
<1>1. N[n] \in NoteJSON
  OBVIOUS
<1>2. M[n] \in NoteJSON /\ note = [N[n] EXCEPT !.region = t[n]]
  BY <1>1 DEF NoteJSON, Retagged
<1>3. M[n] # None
  BY <1>2, NoneIsNoRow
<1>4. [M EXCEPT ![n] = note] = Retagged(N, S \cup {n}, t)
  BY <1>2 DEF Retagged
<1>5. retagged(n, t[n]).kind = "note_retagged" /\ retagged(n, t[n]).note = n
      /\ retagged(n, t[n]).region = t[n]
  BY DEF retagged
<1>6. c.notes = M /\ [c EXCEPT !.notes[n] = note] =
                      Showing([M EXCEPT ![n] = note], R, L)
  <2> HIDE DEF M, note
  <2> QED BY DEF Showing
<1>7. applyEvent(c, u, retagged(n, t[n])) = patched(c, n, [c.notes[n] EXCEPT !.region = t[n]])
  <2> HIDE DEF c
  <2> QED BY <1>5 DEF applyEvent
<1>8. patched(c, n, note) = [c EXCEPT !.notes[n] = note]
  <2> HIDE DEF M, c, note
  <2> QED BY <1>3, <1>6 DEF patched
<1>9. applyEvent(c, u, retagged(n, t[n])) =
        Showing(Retagged(N, S \cup {n}, t), R, L)
  <2> HIDE DEF M, c, note
  <2>1. patched(c, n, [c.notes[n] EXCEPT !.region = t[n]]) = patched(c, n, note)
    BY <1>6 DEF note
  <2> QED BY <1>4, <1>6, <1>7, <1>8, <2>1
<1> QED BY <1>9

\* The events of an edited region: whatever the order of the note_retagged
\* events, the notes end up with the new tags and nothing else changes.
LEMMA AfterRetags ==
  ASSUME NEW b, NEW u, NEW e, NEW N \in [Notes -> NoteJSON \cup {None}], NEW R, NEW L,
         NEW S \in SUBSET Notes, NEW t \in [Notes -> Regions \cup {None}],
         \A n \in S : N[n] # None,
         applyEvent(b, u, e) = Showing(N, R, L)
  PROVE  After(b, u, Prepended(e, Retags(S, t))) =
           Showing(Retagged(N, S, t), R, L)
<1> DEFINE m == Cardinality(S)
           q == SetToSeq(S)
           f == Retags(S, t)
           es == Prepended(e, f)
           events == {retagged(n, r) : n \in Notes, r \in Regions \cup {None}}
           first(k) == {q[i] : i \in 1 .. k}
           board(D) == Showing(Retagged(N, D, t), R, L)
<1>1. m \in Nat /\ q \in [1 .. m -> S] /\ \A x \in S : \E i \in 1 .. m : q[i] = x
  BY FS_Subset, BoardAssumption, SetInOrder
<1>2. f \in [1 .. m -> events] /\ \A i \in 1 .. m : f[i] = retagged(q[i], t[q[i]])
  <2>1. f = [i \in 1 .. m |-> retagged(q[i], t[q[i]])]
    BY DEF Retags
  <2> HIDE DEF m, q, f
  <2>2. \A i \in 1 .. m : q[i] \in Notes /\ t[q[i]] \in Regions \cup {None}
    BY <1>1
  <2>3. \A i \in 1 .. m : retagged(q[i], t[q[i]]) \in events
    BY <2>2
  <2> HIDE DEF events
  <2> QED BY <2>1, <2>3
<1> HIDE DEF m, q, events, f
<1>3. DOMAIN es = 1 .. m + 1 /\ es[1] = e /\ \A i \in 1 .. m : es[i + 1] = f[i]
  <2>1. Prefixed(es, e, f, m)
    BY <1>1, <1>2, FirstThenRest
  <2> QED BY <2>1 DEF Prefixed
<1>4. m + 1 \in Nat
  BY <1>1
<1> HIDE DEF es
<1>5. PICK g : Publishing(g, b, u, es, m + 1)
  BY <1>3, <1>4, FoldOfEvents
<1> DEFINE Good == {k \in Nat : k <= m => g[k + 1] = board(first(k))}
<1>6. 0 \in Good
  <2>1. 1 \in 1 .. m + 1 /\ 1 - 1 = 0 /\ 0 + 1 = 1
    BY <1>1
  <2>2. g[1] = applyEvent(b, u, e)
    BY <1>3, <1>5, <2>1 DEF Publishing
  <2>3. \A x : x \notin first(0)
    OBVIOUS
  <2>4. Retagged(N, first(0), t) = N
    <3> HIDE DEF first
    <3> QED BY <2>3 DEF Retagged
  <2> HIDE DEF first
  <2> QED BY <2>1, <2>2, <2>4
<1>7. ASSUME NEW k \in Good PROVE k + 1 \in Good
  <2>1. k \in Nat /\ (k <= m => g[k + 1] = board(first(k)))
    <3> HIDE DEF board, first
    <3> QED OBVIOUS
  <2> SUFFICES ASSUME k + 1 <= m PROVE g[k + 1 + 1] = board(first(k + 1))
    <3> HIDE DEF board, first
    <3> QED BY <2>1
  <2>2. k + 1 \in 1 .. m /\ k + 1 + 1 \in 1 .. m + 1 /\ k + 1 + 1 - 1 = k + 1 /\ k <= m
    BY <1>1, <2>1
  <2> DEFINE n == q[k + 1]
  <2>3. n \in S /\ n \in Notes /\ N[n] # None /\ first(k) \in SUBSET Notes
    <3>1. \A i \in 1 .. k : i \in 1 .. m
      BY <1>1, <2>1, <2>2
    <3> QED BY <1>1, <2>2, <3>1
  <2>4. first(k + 1) = first(k) \cup {n}
    <3>1. \A i : i \in 1 .. k + 1 <=> i \in 1 .. k \/ i = k + 1
      BY <2>1
    <3> QED BY <3>1
  <2>5. g[k + 1 + 1] = applyEvent(board(first(k)), u, retagged(n, t[n]))
    <3> HIDE DEF board, first
    <3> QED BY <1>2, <1>3, <1>5, <2>1, <2>2 DEF Publishing
  <2>6. applyEvent(board(first(k)), u, retagged(n, t[n])) = board(first(k) \cup {n})
    <3> HIDE DEF first, n
    <3> QED BY <2>3, AfterRetag
  <2> HIDE DEF first, n, board
  <2> QED BY <2>4, <2>5, <2>6
<1>8. Good = Nat
  <2>1. Good \in SUBSET Nat
    <3> HIDE DEF board, first
    <3> QED OBVIOUS
  <2> HIDE DEF Good
  <2> QED BY <1>6, <1>7, <2>1, Induct
<1>9. g[m + 1] = board(first(m))
  <2>1. m \in Good /\ m <= m
    <3> HIDE DEF Good
    <3> QED BY <1>1, <1>8
  <2> HIDE DEF board, first
  <2> QED BY <2>1
<1>10. first(m) = S
  BY <1>1
<1> HIDE DEF first
<1> QED BY <1>5, <1>9, <1>10 DEF es, f, Publishing

---------------------------------------------------------------------------
(* The invariant *)

Tables == [notes : [Notes -> NoteRow \cup {None}], regions : [Regions -> RegionRow \cup {None}],
           stars : SUBSET (Users \X Notes), lifecycle : {"setup", "active", "done"}]

\* Every note's tag is the topmost region around its center.
TagsCurrent(d) ==
  \A n \in Notes : d.notes[n] # None =>
    d.notes[n].region = RegionFor(d.notes[n].at, d.regions, None)

\* What holds of the tables.
GoodTables(d) ==
  /\ d \in Tables
  /\ \A s \in d.stars : d.notes[s[2]] # None
  /\ OrdersDistinct(d.regions)
  /\ TagsCurrent(d)

BoardInv ==
  /\ GoodTables(db)
  /\ cache = Loaded(db)
  /\ tab = [u \in Users |-> Snapshot(db, u)]

\* The tables, and the notes as u sees them.
TablesOf(N, R, S, L) == [notes |-> N, regions |-> R, stars |-> S, lifecycle |-> L]
Shown(N, S, u) ==
  [n \in Notes |-> IF N[n] = None THEN None ELSE NoteFor(N[n], <<u, n>> \in S)]

\* The parts of good tables.
LEMMA TablesParts ==
  ASSUME NEW d, d \in Tables
  PROVE  /\ d = TablesOf(d.notes, d.regions, d.stars, d.lifecycle)
         /\ d.notes \in [Notes -> NoteRow \cup {None}] /\ d.regions \in RegionRows
         /\ d.stars \in SUBSET (Users \X Notes) /\ d.lifecycle \in {"setup", "active", "done"}
BY DEF Tables, TablesOf, RegionRows

\* A snapshot in terms of the tables.
LEMMA SnapshotIs ==
  ASSUME NEW d, NEW u
  PROVE  Snapshot(d, u) = Showing(Shown(d.notes, d.stars, u), Regionlist(d.regions), d.lifecycle)
BY DEF Snapshot, Showing, Shown, Regionlist

\* A note as a browser has it.
LEMMA ShownType ==
  ASSUME NEW N \in [Notes -> NoteRow \cup {None}], NEW S, NEW u
  PROVE  /\ Shown(N, S, u) \in [Notes -> NoteJSON \cup {None}]
         /\ \A n \in Notes : N[n] # None =>
              Shown(N, S, u)[n] # None /\ Shown(N, S, u)[n] = NoteFor(N[n], <<u, n>> \in S)
<1>1. ASSUME NEW n \in Notes, N[n] # None
      PROVE  NoteFor(N[n], <<u, n>> \in S) \in NoteJSON
  <2>1. N[n] \in NoteRow
    BY <1>1
  <2> QED BY <2>1 DEF NoteFor, NoteRow, NoteJSON
<1>2. \A n \in Notes : Shown(N, S, u)[n] =
                        IF N[n] = None THEN None ELSE NoteFor(N[n], <<u, n>> \in S)
  BY DEF Shown
<1>3. Shown(N, S, u) \in [Notes -> NoteJSON \cup {None}]
  BY <1>1 DEF Shown
<1> QED BY <1>1, <1>2, <1>3, NoneIsNoRow

\* Tags that are current name regions that exist: the foreign key.
LEMMA TagsExist ==
  ASSUME NEW d, GoodTables(d)
  PROVE  ForeignKeys(d)
<1>1. d.regions \in RegionRows /\ OrdersDistinct(d.regions) /\ TagsCurrent(d)
  BY TablesParts DEF GoodTables
<1> QED BY <1>1, RegionForType DEF ForeignKeys, TagsCurrent

\* What a commit must bring about.
LEMMA CommitStep ==
  ASSUME BoardInv, NEW d, NEW after, NEW events, commit(d, after, events),
         GoodTables(d), after = Loaded(d),
         \A u \in Users : After(Snapshot(db, u), u, events) = Snapshot(d, u)
  PROVE  BoardInv'
<1>1. CASE db' = d /\ cache' = after /\ publish(events)
  <2>1. tab' = [u \in Users |-> After(tab[u], u, events)]
    BY <1>1 DEF publish, After
  <2>2. \A u \in Users : tab[u] = Snapshot(db, u)
    BY DEF BoardInv
  <2>3. tab' = [u \in Users |-> Snapshot(d, u)]
    BY <2>1, <2>2
  <2> QED BY <1>1, <2>3 DEF BoardInv
<1>2. CASE UNCHANGED vars
  BY <1>2 DEF vars, BoardInv
<1> QED BY <1>1, <1>2 DEF commit

\* Positions are integers, free or not.
LEMMA ResolveType ==
  ASSUME NEW at \in Position, NEW others
  PROVE  ResolvePosition(at, others) \in Position
<1>1. CASE \E k \in 0 .. MaxRings : freeIn(k, at, others) # {}
  BY <1>1, ResolvesToFree
<1>2. CASE \A k \in 0 .. MaxRings : freeIn(k, at, others) = {}
  <2> DEFINE first(k) == /\ k > MaxRings \/ freeIn(k, at, others) # {}
                         /\ \A j \in 0 .. k - 1 : freeIn(j, at, others) = {}
             nearest == CHOOSE k \in 0 .. MaxRings + 1 : first(k)
  <2>1. MaxRings \in Nat
    BY GeometryAssumption
  <2>2. MaxRings + 1 \in 0 .. MaxRings + 1 /\ first(MaxRings + 1)
    BY <1>2, <2>1
  <2>3. nearest \in 0 .. MaxRings + 1 /\ first(nearest)
    <3> HIDE DEF first
    <3> QED BY <2>2
  <2>4. nearest > MaxRings
    <3> HIDE DEF nearest
    <3> QED BY <1>2, <2>1, <2>3
  <2>5. ResolvePosition(at, others) = at
    BY <2>4 DEF ResolvePosition
  <2> QED BY <2>5
<1> QED BY <1>1, <1>2

---------------------------------------------------------------------------
(* The commands on notes *)

\* A function, and a board, whose entry for n changes.
WithRow(M, n, note) == [M EXCEPT ![n] = note]
WithNote(b, n, note) == [b EXCEPT !.notes[n] = note]

\* One row of the notes, and perhaps stars, change: what becomes of the tables
\* and of the caches.
LEMMA OneRow ==
  ASSUME BoardInv, NEW n \in Notes, NEW row \in NoteRow \cup {None},
         row # None => row.region = RegionFor(row.at, db.regions, None),
         NEW S \in SUBSET (Users \X Notes),
         \A s \in S : [db.notes EXCEPT ![n] = row][s[2]] # None
  PROVE  LET d == TablesOf([db.notes EXCEPT ![n] = row], db.regions, S, db.lifecycle)
         IN  /\ GoodTables(d)
             /\ Loaded(d) = [cache EXCEPT !.geo[n] = IF row = None THEN None ELSE Geo(row)]
<1> DEFINE N == [db.notes EXCEPT ![n] = row]
           d == TablesOf(N, db.regions, S, db.lifecycle)
<1>1. /\ db \in Tables /\ OrdersDistinct(db.regions) /\ TagsCurrent(db) /\ cache = Loaded(db)
  BY DEF BoardInv, GoodTables
<1>2. d.notes = N /\ d.regions = db.regions /\ d.stars = S /\ d.lifecycle = db.lifecycle
  BY DEF TablesOf
<1>3. N \in [Notes -> NoteRow \cup {None}]
  BY <1>1, TablesParts
<1>4. d \in Tables
  BY <1>1, <1>3, TablesParts DEF Tables, TablesOf, RegionRows
<1> HIDE DEF d
<1>5. TagsCurrent(d)
  <2> SUFFICES ASSUME NEW m \in Notes, N[m] # None
               PROVE  N[m].region = RegionFor(N[m].at, db.regions, None)
    BY <1>2 DEF TagsCurrent
  <2> QED BY <1>1, TablesParts DEF TagsCurrent
<1>6. GoodTables(d)
  BY <1>1, <1>2, <1>4, <1>5 DEF GoodTables
<1>7. Loaded(d) = [cache EXCEPT !.geo[n] = IF row = None THEN None ELSE Geo(row)]
  <2>1. [m \in Notes |-> IF N[m] = None THEN None ELSE Geo(N[m])] =
          [[m \in Notes |-> IF db.notes[m] = None THEN None ELSE Geo(db.notes[m])]
             EXCEPT ![n] = IF row = None THEN None ELSE Geo(row)]
    BY <1>1, TablesParts
  <2> QED BY <1>1, <1>2, <2>1 DEF Loaded
<1> QED BY <1>6, <1>7 DEF d

\* And what becomes of the notes as v sees them.
LEMMA OneShown ==
  ASSUME NEW N \in [Notes -> NoteRow \cup {None}], NEW n \in Notes, NEW row \in NoteRow \cup {None},
         NEW S, NEW T, NEW v, \A m \in Notes \ {n} : <<v, m>> \in S <=> <<v, m>> \in T,
         NEW on \in BOOLEAN, on <=> <<v, n>> \in T
  PROVE  Shown([N EXCEPT ![n] = row], T, v) =
           WithRow(Shown(N, S, v), n, IF row = None THEN None ELSE NoteFor(row, on))
<1> DEFINE M == Shown(N, S, v)
           K == [N EXCEPT ![n] = row]
           note == IF row = None THEN None ELSE NoteFor(row, on)
<1>1. (<<v, n>> \in T) = on
  OBVIOUS
<1>2. NoteFor(row, <<v, n>> \in T) = NoteFor(row, on)
  BY <1>1, Zenon
<1>3. ASSUME NEW m \in Notes \ {n}
      PROVE  NoteFor(N[m], <<v, m>> \in S) = NoteFor(N[m], <<v, m>> \in T)
  <2>1. (<<v, m>> \in S) = (<<v, m>> \in T)
    OBVIOUS
  <2> QED BY <2>1, Zenon
<1>4. M = [m \in Notes |-> IF N[m] = None THEN None ELSE NoteFor(N[m], <<v, m>> \in S)]
  BY DEF Shown
<1>5. \A m \in Notes : (IF K[m] = None THEN None ELSE NoteFor(K[m], <<v, m>> \in T)) =
                        IF m = n THEN note ELSE M[m]
  BY <1>2, <1>3, <1>4
<1> HIDE DEF M, note, K
<1>6. [M EXCEPT ![n] = note] = [m \in Notes |-> IF m = n THEN note ELSE M[m]]
  BY <1>4
<1>7. Shown(K, T, v) = [M EXCEPT ![n] = note]
  BY <1>5, <1>6 DEF Shown
<1> QED BY <1>7 DEF M, note, K, WithRow

\* A board whose note n changes.
LEMMA ShowingNote ==
  ASSUME NEW M, NEW R, NEW L, NEW n, NEW note
  PROVE  /\ WithNote(Showing(M, R, L), n, note) = Showing(WithRow(M, n, note), R, L)
         /\ M[n] # None =>
              patched(Showing(M, R, L), n, note) = Showing(WithRow(M, n, note), R, L)
<1>1. Showing(M, R, L).notes = M
  BY DEF Showing
<1>2. [Showing(M, R, L) EXCEPT !.notes[n] = note] = Showing([M EXCEPT ![n] = note], R, L)
  BY DEF Showing
<1> QED BY <1>1, <1>2 DEF patched, WithRow, WithNote

\* create_note.
LEMMA CreateNoteStep ==
  ASSUME BoardInv, NEW u \in Users, NEW n \in Notes, NEW spot \in Spots, NEW content \in Contents,
         CreateNote(u, n, spot, content)
  PROVE  BoardInv'
<1> DEFINE at == ResolvePosition(spot, obstacles(n))
           row == [author |-> u, content |-> content, at |-> at,
                   region |-> RegionFor(at, cache.regions, None)]
           N == [db.notes EXCEPT ![n] = row]
           note == NoteFor(row, FALSE)
           e == [kind |-> "note_created", note |-> n, row |-> note]
           d == TablesOf(N, db.regions, db.stars, db.lifecycle)
           after == [cache EXCEPT !.geo[n] = Geo(row)]
<1>1. ~Exists(n) /\ commit([db EXCEPT !.notes[n] = row], after, <<e>>)
  BY DEF CreateNote
<1>2. /\ GoodTables(db) /\ db \in Tables /\ OrdersDistinct(db.regions) /\ cache.regions = db.regions
      /\ \A s \in db.stars : db.notes[s[2]] # None
  BY DEF BoardInv, GoodTables, Loaded
<1>3. at \in Position
  BY ResolveType, BoardAssumption
<1> HIDE DEF at
<1>4. RegionFor(at, db.regions, None) \in Regions \cup {None}
  BY <1>2, TablesParts, RegionForType
<1>5. row \in NoteRow
  BY <1>2, <1>3, <1>4 DEF NoteRow
<1>6. row.region = RegionFor(row.at, db.regions, None) /\ row # None
  BY <1>2, <1>5, NoneIsNoRow
<1> HIDE DEF row
<1>7. \A s \in db.stars : N[s[2]] # None
  BY <1>2, <1>6, TablesParts
<1>8. [db EXCEPT !.notes[n] = row] = d
  BY <1>2, TablesParts DEF TablesOf
<1>9. GoodTables(d) /\ after = Loaded(d)
  BY <1>2, <1>5, <1>6, <1>7, OneRow, TablesParts
<1>10. ASSUME NEW v \in Users PROVE After(Snapshot(db, v), v, <<e>>) = Snapshot(d, v)
  <2> DEFINE M == Shown(db.notes, db.stars, v)
             c == Showing(M, Regionlist(db.regions), db.lifecycle)
  <2>1. Snapshot(db, v) = c
    BY SnapshotIs
  <2>2. e.kind = "note_created" /\ e.note = n /\ e.row = note
    OBVIOUS
  <2>3. applyEvent(c, v, e) = WithNote(c, n, note)
    <3> HIDE DEF c, note, e
    <3> QED BY <2>2 DEF applyEvent, WithNote
  <2>4. FALSE <=> <<v, n>> \in db.stars
    BY <1>1, <1>2 DEF Exists
  <2>5. Shown(N, db.stars, v) = WithRow(M, n, note)
    <3> DEFINE on == FALSE
    <3>1. on \in BOOLEAN /\ (on <=> <<v, n>> \in db.stars)
      BY <2>4
    <3>2. note = NoteFor(row, on)
      OBVIOUS
    <3> HIDE DEF on, note
    <3> QED BY <1>2, <1>5, <1>6, <3>1, <3>2, OneShown, TablesParts
  <2>6. Snapshot(d, v) = Showing(WithRow(M, n, note), Regionlist(db.regions), db.lifecycle)
    BY <2>5, SnapshotIs DEF TablesOf
  <2> HIDE DEF e, M, note
  <2>7. WithNote(c, n, note) = Snapshot(d, v)
    BY <2>6, ShowingNote
  <2> HIDE DEF c
  <2>8. After(c, v, <<e>>) = applyEvent(c, v, e)
    BY AfterOne
  <2> QED BY <2>1, <2>3, <2>7, <2>8
<1> HIDE DEF after, e, d
<1> QED BY <1>1, <1>8, <1>9, <1>10, CommitStep

\* update_note and set_links.
LEMMA UpdateNoteStep ==
  ASSUME BoardInv, NEW u \in Users, NEW n \in Notes, NEW content \in Contents,
         UpdateNote(u, n, content)
  PROVE  BoardInv'
<1> DEFINE row == [db.notes[n] EXCEPT !.content = content]
           N == [db.notes EXCEPT ![n] = row]
           e == [kind |-> "note_updated", note |-> n, content |-> content]
           d == TablesOf(N, db.regions, db.stars, db.lifecycle)
<1>1. Exists(n) /\ commit([db EXCEPT !.notes[n].content = content], cache, <<e>>)
  BY DEF UpdateNote, MayEdit
<1>2. /\ GoodTables(db) /\ db \in Tables /\ cache = Loaded(db) /\ TagsCurrent(db)
      /\ \A s \in db.stars : db.notes[s[2]] # None
  BY DEF BoardInv, GoodTables
<1>3. db.notes \in [Notes -> NoteRow \cup {None}] /\ db.notes[n] \in NoteRow
  BY <1>1, <1>2, TablesParts DEF Exists
<1>4. /\ row \in NoteRow /\ row.at = db.notes[n].at /\ row.region = db.notes[n].region
      /\ row.content = content /\ row.author = db.notes[n].author
  BY <1>3 DEF NoteRow
<1>5. row # None /\ row.region = RegionFor(row.at, db.regions, None)
  BY <1>1, <1>2, <1>4, NoneIsNoRow DEF TagsCurrent, Exists
<1>6. [db EXCEPT !.notes[n].content = content] = d
  BY <1>2, TablesParts DEF TablesOf
<1> HIDE DEF row
<1>7. \A s \in db.stars : N[s[2]] # None
  BY <1>2, <1>5, TablesParts
<1>8. GoodTables(d) /\ Loaded(d) = [cache EXCEPT !.geo[n] = Geo(row)]
  BY <1>2, <1>4, <1>5, <1>7, OneRow, TablesParts
<1>9. Loaded(d) = cache
  <2>1. cache.geo[n] = Geo(row)
    BY <1>1, <1>2, <1>4 DEF Loaded, Geo, Exists
  <2>2. cache = [geo |-> cache.geo, regions |-> cache.regions, lifecycle |-> cache.lifecycle]
        /\ cache.geo = [m \in Notes |-> cache.geo[m]]
    BY <1>2 DEF Loaded
  <2> HIDE DEF d
  <2> QED BY <1>8, <2>1, <2>2
<1>10. ASSUME NEW v \in Users PROVE After(Snapshot(db, v), v, <<e>>) = Snapshot(d, v)
  <2> DEFINE M == Shown(db.notes, db.stars, v)
             c == Showing(M, Regionlist(db.regions), db.lifecycle)
             note == [M[n] EXCEPT !.content = content]
             on == <<v, n>> \in db.stars
  <2>1. Snapshot(db, v) = c
    BY SnapshotIs
  <2>2. e.kind = "note_updated" /\ e.note = n /\ e.content = content /\ c.notes = M
    BY DEF Showing
  <2>3. applyEvent(c, v, e) = patched(c, n, note)
    <3> HIDE DEF c, e, M
    <3> QED BY <2>2 DEF applyEvent, WithNote
  <2>4. M[n] # None /\ M[n] = NoteFor(db.notes[n], on)
    BY <1>1, <1>3, ShownType DEF Exists
  <2>5. NoteFor(row, on) = note
    <3> HIDE DEF M
    <3> QED BY <1>4, <2>4 DEF NoteFor
  <2>6. Shown(N, db.stars, v) = WithRow(M, n, NoteFor(row, on))
    <3>1. on \in BOOLEAN /\ (on <=> <<v, n>> \in db.stars)
      OBVIOUS
    <3> HIDE DEF on
    <3> QED BY <1>3, <1>4, <1>5, <3>1, OneShown
  <2>7. Snapshot(d, v) = Showing(WithRow(M, n, note), Regionlist(db.regions), db.lifecycle)
    BY <2>5, <2>6, SnapshotIs DEF TablesOf
  <2> HIDE DEF e, M, note
  <2>8. patched(c, n, note) = Snapshot(d, v)
    BY <2>4, <2>7, ShowingNote
  <2> HIDE DEF c
  <2>9. After(c, v, <<e>>) = applyEvent(c, v, e)
    BY AfterOne
  <2> QED BY <2>1, <2>3, <2>8, <2>9
<1> HIDE DEF e, d
<1> QED BY <1>1, <1>6, <1>8, <1>9, <1>10, CommitStep

\* Two events.
LEMMA PairOf ==
  ASSUME NEW x, NEW y
  PROVE  <<x>> \o <<y>> = <<x, y>>
<1> DEFINE X == {x, y}
           s == <<x>>
           t == <<y>>
           p == <<x, y>>
<1>1. /\ s \in Seq(X) /\ t \in Seq(X) /\ Len(s) = 1 /\ Len(t) = 1 /\ s[1] = x /\ t[1] = y
      /\ p \in Seq(X) /\ Len(p) = 2 /\ p[1] = x /\ p[2] = y
  OBVIOUS
<1> HIDE DEF X, s, t, p
<1>2. /\ s \o t \in Seq(X) /\ Len(s \o t) = 2
      /\ \A i \in 1 .. 2 : (s \o t)[i] = IF i <= 1 THEN s[i] ELSE t[i - 1]
  BY <1>1, ConcatProperties
<1>3. \A i \in 1 .. 2 : (s \o t)[i] = p[i]
  <2>1. \A i \in 1 .. 2 : i = 1 \/ i = 2
    OBVIOUS
  <2>2. 1 \in 1 .. 2 /\ 2 \in 1 .. 2 /\ 1 <= 1 /\ ~(2 <= 1) /\ 2 - 1 = 1
    OBVIOUS
  <2> QED BY <1>1, <1>2, <2>1, <2>2
<1>4. s \o t \in [1 .. 2 -> X] /\ p \in [1 .. 2 -> X]
  BY <1>1, <1>2, LenProperties
<1>5. s \o t = p
  BY <1>3, <1>4, SameFunction
<1> QED BY <1>5 DEF s, t, p

\* move_note, and the new tag that may follow.
LEMMA MoveNoteStep ==
  ASSUME BoardInv, NEW u \in Users, NEW n \in Notes, NEW spot \in Spots, MoveNote(u, n, spot)
  PROVE  BoardInv'
<1> DEFINE at == ResolvePosition(spot, obstacles(n))
           region == RegionFor(at, cache.regions, None)
           row == [db.notes[n] EXCEPT !.at = at, !.region = region]
           N == [db.notes EXCEPT ![n] = row]
           d == TablesOf(N, db.regions, db.stars, db.lifecycle)
           after == [cache EXCEPT !.geo[n] = [at |-> at, region |-> region]]
           moved == [kind |-> "note_moved", note |-> n, at |-> at]
           same == region = db.notes[n].region
           es == <<moved>> \o IF same THEN <<>> ELSE <<retagged(n, region)>>
<1>1. Exists(n) /\ commit([db EXCEPT !.notes[n].at = at, !.notes[n].region = region], after, es)
  BY DEF MoveNote
<1>2. /\ GoodTables(db) /\ db \in Tables /\ cache = Loaded(db) /\ cache.regions = db.regions
      /\ OrdersDistinct(db.regions) /\ \A s \in db.stars : db.notes[s[2]] # None
  BY DEF BoardInv, GoodTables, Loaded
<1>3. at \in Position
  BY ResolveType, BoardAssumption
<1> HIDE DEF at
<1>4. region \in Regions \cup {None} /\ region = RegionFor(at, db.regions, None)
  BY <1>2, TablesParts, RegionForType
<1> HIDE DEF region
<1>5. db.notes \in [Notes -> NoteRow \cup {None}] /\ db.notes[n] \in NoteRow
  BY <1>1, <1>2, TablesParts DEF Exists
<1>6. /\ row \in NoteRow /\ row.at = at /\ row.region = region
      /\ row.content = db.notes[n].content /\ row.author = db.notes[n].author
  BY <1>3, <1>4, <1>5 DEF NoteRow
<1>7. row # None /\ row.region = RegionFor(row.at, db.regions, None)
  BY <1>4, <1>6, NoneIsNoRow
<1>8. [db EXCEPT !.notes[n].at = at, !.notes[n].region = region] = d
  <2>1. db = TablesOf(db.notes, db.regions, db.stars, db.lifecycle)
    BY <1>2, TablesParts
  <2>2. [[db.notes EXCEPT ![n].at = at] EXCEPT ![n].region = region] = N
    BY <1>5 DEF NoteRow
  <2> DEFINE placed == [db.notes EXCEPT ![n].at = at]
             first == [db EXCEPT !.notes[n].at = at]
  <2>3. first = TablesOf(placed, db.regions, db.stars, db.lifecycle)
    BY <2>1 DEF TablesOf
  <2>4. [first EXCEPT !.notes[n].region = region] = d
    <3>1. [placed EXCEPT ![n].region = region] = N
      BY <2>2
    <3> HIDE DEF N, placed, first
    <3>2. first.notes = placed
      BY <2>3 DEF TablesOf
    <3> QED BY <2>3, <3>1, <3>2 DEF TablesOf
  <2> QED BY <2>4
<1> HIDE DEF row
<1>9. \A s \in db.stars : N[s[2]] # None
  BY <1>2, <1>7, TablesParts
<1>10. GoodTables(d) /\ Loaded(d) = [cache EXCEPT !.geo[n] = Geo(row)]
  BY <1>2, <1>6, <1>7, <1>9, OneRow, TablesParts
<1>11. after = Loaded(d)
  BY <1>6, <1>10 DEF Geo
<1>12. ASSUME NEW v \in Users PROVE After(Snapshot(db, v), v, es) = Snapshot(d, v)
  <2> DEFINE M == Shown(db.notes, db.stars, v)
             L == Regionlist(db.regions)
             c == Showing(M, L, db.lifecycle)
             on == <<v, n>> \in db.stars
             note == [M[n] EXCEPT !.at = at]
             b == Showing(WithRow(M, n, note), L, db.lifecycle)
             new == NoteFor(row, on)
  <2>1. Snapshot(db, v) = c
    BY SnapshotIs
  <2>2. on \in BOOLEAN /\ (on <=> <<v, n>> \in db.stars)
    OBVIOUS
  <2>3. M[n] # None /\ M[n] = NoteFor(db.notes[n], on) /\ M \in [Notes -> NoteJSON \cup {None}]
    BY <1>1, <1>5, ShownType DEF Exists
  <2>4. Shown(N, db.stars, v) = WithRow(M, n, new)
    <3> HIDE DEF on
    <3> QED BY <1>5, <1>6, <1>7, <2>2, OneShown
  <2>5. Snapshot(d, v) = Showing(WithRow(M, n, new), L, db.lifecycle)
    BY <2>4, SnapshotIs DEF TablesOf
  <2>6. applyEvent(c, v, moved) = b
    <3>1. moved.kind = "note_moved" /\ moved.note = n /\ moved.at = at /\ c.notes = M
      BY DEF Showing
    <3>2. applyEvent(c, v, moved) = patched(c, n, note)
      <4> HIDE DEF c, moved, M
      <4> QED BY <3>1 DEF applyEvent
    <3> HIDE DEF note, M, L
    <3> QED BY <2>3, <3>2, ShowingNote
  <2> HIDE DEF M
  <2>7. note \in NoteJSON /\ note # None
    BY <1>3, <2>3, NoneIsNoRow DEF NoteJSON
  <2>8. [note EXCEPT !.region = region] = new
    <3>1. note = [author |-> db.notes[n].author, content |-> db.notes[n].content, at |-> at,
                  region |-> db.notes[n].region, starred |-> on]
      BY <2>3 DEF NoteFor
    <3> HIDE DEF note
    <3> QED BY <1>6, <3>1 DEF NoteFor
  <2>9. CASE same
    <3>1. es = <<moved>>
      BY <2>9
    <3>2. note = new
      BY <1>6, <2>3, <2>9 DEF NoteFor
    <3> HIDE DEF es, moved, note, new, c, L
    <3> QED BY <2>1, <2>5, <2>6, <3>1, <3>2, AfterOne
  <2>10. CASE ~same
    <3>1. es = <<moved, retagged(n, region)>>
      <4>1. \A x, y : <<x>> \o <<y>> = <<x, y>>
        BY PairOf
      <4> HIDE DEF moved
      <4> QED BY <2>10, <4>1, Zenon
    <3>2. b.notes = WithRow(M, n, note) /\ WithRow(M, n, note)[n] = note
      BY <2>3 DEF Showing, WithRow
    <3>3. applyEvent(b, v, retagged(n, region)) = patched(b, n, [note EXCEPT !.region = region])
      <4>1. retagged(n, region).kind = "note_retagged" /\ retagged(n, region).note = n
            /\ retagged(n, region).region = region
        BY DEF retagged
      <4> HIDE DEF b, note
      <4> QED BY <3>2, <4>1 DEF applyEvent
    <3>4. patched(b, n, new) = Showing(WithRow(WithRow(M, n, note), n, new), L, db.lifecycle)
      <4> HIDE DEF note, new, L
      <4> QED BY <2>7, <3>2, ShowingNote
    <3>5. WithRow(WithRow(M, n, note), n, new) = WithRow(M, n, new)
      <4> HIDE DEF note, new
      <4> QED BY DEF WithRow
    <3> HIDE DEF es, moved, note, new, b, c, L
    <3> QED BY <2>1, <2>5, <2>6, <2>8, <3>1, <3>3, <3>4, <3>5, AfterTwo
  <2> QED BY <2>9, <2>10
<1> HIDE DEF es, d, after
<1> QED BY <1>1, <1>8, <1>10, <1>11, <1>12, CommitStep

\* delete_note: its stars go with it.
LEMMA DeleteNoteStep ==
  ASSUME BoardInv, NEW u \in Users, NEW n \in Notes, DeleteNote(u, n)
  PROVE  BoardInv'
<1> DEFINE N == [db.notes EXCEPT ![n] = None]
           S == starsWithout(n)
           d == TablesOf(N, db.regions, S, db.lifecycle)
           after == [cache EXCEPT !.geo[n] = None]
           e == [kind |-> "note_deleted", note |-> n]
<1>1. commit([db EXCEPT !.notes[n] = None, !.stars = S], after, <<e>>)
  BY DEF DeleteNote
<1>2. GoodTables(db) /\ db \in Tables /\ \A s \in db.stars : db.notes[s[2]] # None
  BY DEF BoardInv, GoodTables
<1>3. db.notes \in [Notes -> NoteRow \cup {None}] /\ S \in SUBSET (Users \X Notes)
  BY <1>2, TablesParts DEF starsWithout
<1>4. \A s \in S : N[s[2]] # None
  BY <1>2, <1>3 DEF starsWithout
<1>5. [db EXCEPT !.notes[n] = None, !.stars = S] = d
  <2>1. db = TablesOf(db.notes, db.regions, db.stars, db.lifecycle)
    BY <1>2, TablesParts
  <2>2. [db EXCEPT !.notes[n] = None] = TablesOf(N, db.regions, db.stars, db.lifecycle)
    BY <2>1 DEF TablesOf
  <2> DEFINE first == [db EXCEPT !.notes[n] = None]
  <2>3. [first EXCEPT !.stars = S] = d
    <3>1. first = TablesOf(N, db.regions, db.stars, db.lifecycle)
      BY <2>2
    <3> HIDE DEF S, N, first
    <3> QED BY <3>1 DEF TablesOf
  <2> QED BY <2>3
<1>6. None \in NoteRow \cup {None}
  OBVIOUS
<1>7. GoodTables(d) /\ after = Loaded(d)
  BY <1>3, <1>4, <1>6, OneRow
<1>8. ASSUME NEW v \in Users PROVE After(Snapshot(db, v), v, <<e>>) = Snapshot(d, v)
  <2> DEFINE M == Shown(db.notes, db.stars, v)
             c == Showing(M, Regionlist(db.regions), db.lifecycle)
             on == FALSE
  <2>1. Snapshot(db, v) = c
    BY SnapshotIs
  <2>2. e.kind = "note_deleted" /\ e.note = n
    OBVIOUS
  <2>3. applyEvent(c, v, e) = WithNote(c, n, None)
    <3> HIDE DEF c, e
    <3> QED BY <2>2 DEF applyEvent, WithNote
  <2>4. on \in BOOLEAN /\ (on <=> <<v, n>> \in S)
    BY DEF starsWithout
  <2>5. \A m \in Notes \ {n} : <<v, m>> \in db.stars <=> <<v, m>> \in S
    BY DEF starsWithout
  <2>6. Shown(N, S, v) = WithRow(M, n, None)
    <3> HIDE DEF on, S
    <3> QED BY <1>3, <1>6, <2>4, <2>5, OneShown
  <2>7. Snapshot(d, v) = Showing(WithRow(M, n, None), Regionlist(db.regions), db.lifecycle)
    BY <2>6, SnapshotIs DEF TablesOf
  <2> HIDE DEF e, M
  <2>8. WithNote(c, n, None) = Snapshot(d, v)
    BY <2>7, ShowingNote
  <2> HIDE DEF c
  <2>9. After(c, v, <<e>>) = applyEvent(c, v, e)
    BY AfterOne
  <2> QED BY <2>1, <2>3, <2>8, <2>9
<1> HIDE DEF e, d, after
<1> QED BY <1>1, <1>5, <1>7, <1>8, CommitStep

\* star_note and unstar_note: only the user's own browser changes.
LEMMA SetStarStep ==
  ASSUME BoardInv, NEW u \in Users, NEW n \in Notes, NEW set \in BOOLEAN, SetStar(u, n, set)
  PROVE  BoardInv'
<1> DEFINE row == db.notes[n]
           N == [db.notes EXCEPT ![n] = row]
           S == IF set THEN db.stars \cup {<<u, n>>} ELSE db.stars \ {<<u, n>>}
           d == TablesOf(N, db.regions, S, db.lifecycle)
           e == [kind |-> "note_starred", note |-> n, on |-> set, onlyUser |-> u]
<1>1. Exists(n) /\ commit([db EXCEPT !.stars = S], cache, <<e>>)
  BY DEF SetStar
<1>2. /\ GoodTables(db) /\ db \in Tables /\ cache = Loaded(db) /\ TagsCurrent(db)
      /\ \A s \in db.stars : db.notes[s[2]] # None
  BY DEF BoardInv, GoodTables
<1>3. /\ db.notes \in [Notes -> NoteRow \cup {None}] /\ row \in NoteRow /\ N = db.notes
      /\ S \in SUBSET (Users \X Notes)
  BY <1>1, <1>2, TablesParts DEF Exists
<1>4. row # None /\ row.region = RegionFor(row.at, db.regions, None)
  BY <1>1, <1>2 DEF TagsCurrent, Exists
<1>5. \A s \in S : N[s[2]] # None
  BY <1>2, <1>3, <1>4
<1>6. [db EXCEPT !.stars = S] = d
  <2> HIDE DEF S, N
  <2> QED BY <1>2, <1>3, TablesParts DEF TablesOf
<1> HIDE DEF row
<1>7. GoodTables(d)
  BY <1>3, <1>4, <1>5, OneRow
<1>8. Loaded(d) = cache
  BY <1>2, <1>3 DEF Loaded, TablesOf
<1>9. ASSUME NEW v \in Users PROVE After(Snapshot(db, v), v, <<e>>) = Snapshot(d, v)
  <2> DEFINE M == Shown(db.notes, db.stars, v)
             c == Showing(M, Regionlist(db.regions), db.lifecycle)
             on == <<v, n>> \in S
             note == [M[n] EXCEPT !.starred = set]
  <2>1. Snapshot(db, v) = c
    BY SnapshotIs
  <2>2. e.kind = "note_starred" /\ e.note = n /\ e.on = set /\ e.onlyUser = u /\ c.notes = M
    BY DEF Showing
  <2>3. applyEvent(c, v, e) = IF v = u THEN patched(c, n, note) ELSE c
    <3> HIDE DEF c, e, M
    <3> QED BY <2>2 DEF applyEvent
  <2>4. M[n] # None /\ M[n] = NoteFor(row, <<v, n>> \in db.stars)
    BY <1>3, <1>4, ShownType DEF row
  <2>5. on \in BOOLEAN /\ (on <=> <<v, n>> \in S)
    OBVIOUS
  <2>6. \A m \in Notes \ {n} : <<v, m>> \in db.stars <=> <<v, m>> \in S
    OBVIOUS
  <2>7. Shown(N, S, v) = WithRow(M, n, NoteFor(row, on))
    <3> HIDE DEF on, S
    <3> QED BY <1>3, <1>4, <2>5, <2>6, OneShown
  <2>8. Snapshot(d, v) =
          Showing(WithRow(M, n, NoteFor(row, on)), Regionlist(db.regions), db.lifecycle)
    BY <2>7, SnapshotIs DEF TablesOf
  <2>9. CASE v = u
    <3>1. on = set
      BY <2>9
    <3>2. note = NoteFor(row, set)
      <4> HIDE DEF M
      <4> QED BY <2>4 DEF NoteFor
    <3>3. note = NoteFor(row, on)
      <4> HIDE DEF note, on
      <4> QED BY <3>1, <3>2, Zenon
    <3> HIDE DEF e, M, note, on
    <3>4. patched(c, n, note) = Snapshot(d, v)
      BY <2>4, <2>8, <3>3, ShowingNote
    <3> HIDE DEF c
    <3> QED BY <2>1, <2>3, <2>9, <3>4, AfterOne
  <2>10. CASE v # u
    <3>1. on = (<<v, n>> \in db.stars)
      BY <2>10
    <3>2. NoteFor(row, on) = M[n]
      <4> HIDE DEF M, on
      <4> QED BY <2>4, <3>1, Zenon
    <3>3. WithRow(M, n, M[n]) = M
      BY DEF WithRow, Shown
    <3> HIDE DEF M, on
    <3>4. c = Snapshot(d, v)
      BY <2>8, <3>2, <3>3
    <3> HIDE DEF c, e
    <3> QED BY <2>1, <2>3, <2>10, <3>4, AfterOne
  <2> QED BY <2>9, <2>10
<1> HIDE DEF e, d
<1> QED BY <1>1, <1>6, <1>7, <1>8, <1>9, CommitStep

---------------------------------------------------------------------------
(* The commands on regions *)

\* A note that exists is one the browsers have.
LEMMA ShownThere ==
  ASSUME NEW N \in [Notes -> NoteRow \cup {None}], NEW S, NEW u, NEW n \in Notes, N[n] # None
  PROVE  Shown(N, S, u)[n] # None
<1>1. N[n] \in NoteRow
  OBVIOUS
<1>2. NoteFor(N[n], <<u, n>> \in S) \in NoteJSON
  BY <1>1 DEF NoteFor, NoteRow, NoteJSON
<1>3. Shown(N, S, u)[n] = NoteFor(N[n], <<u, n>> \in S)
  BY DEF Shown
<1> QED BY <1>2, <1>3, NoneIsNoRow

\* The rowid of a new region is larger than every other.
LEMMA NextOrder ==
  ASSUME GoodTables(db)
  PROVE  /\ nextOrder \in Nat /\ nextOrder >= 1
         /\ \A s \in present(db.regions) : db.regions[s].order < nextOrder
<1> DEFINE used == {db.regions[s].order : s \in present(db.regions)}
           top(k) == \A j \in used : j <= k
<1>1. db.regions \in RegionRows
  BY TablesParts DEF GoodTables
<1>2. used \in SUBSET (1 .. MaxOrder) /\ MaxOrder \in Nat
  BY <1>1, BoardAssumption DEF RegionRows, RegionRow, present
<1>3. nextOrder = IF used = {} THEN 1 ELSE 1 + CHOOSE k \in used : top(k)
  BY DEF nextOrder
<1>4. \A s \in present(db.regions) : db.regions[s].order \in used
  OBVIOUS
<1> HIDE DEF used
<1>5. CASE used = {}
  BY <1>3, <1>4, <1>5
<1>6. CASE used # {}
  <2>1. \E k \in used : top(k)
    BY <1>2, <1>6, LargestIndex
  <2> DEFINE k == CHOOSE x \in used : top(x)
  <2>2. k \in used /\ top(k)
    <3> HIDE DEF top
    <3> QED BY <2>1
  <2>3. nextOrder = 1 + k
    BY <1>3, <1>6
  <2> HIDE DEF k
  <2>4. k \in Nat /\ k >= 1 /\ \A j \in used : j \in Nat
    BY <1>2, <2>2
  <2>5. \A s \in present(db.regions) : db.regions[s].order \in Nat /\ db.regions[s].order <= k
    BY <1>4, <2>2, <2>4
  <2> QED BY <2>3, <2>4, <2>5
<1> QED BY <1>5, <1>6

\* A region changes and every note whose tag changes by it follows: what the
\* event does to the regions of a browser is all that is left to show.
LEMMA EditRegionStep ==
  ASSUME BoardInv, NEW r \in Regions, NEW row \in RegionRow \cup {None}, NEW event,
         [db.regions EXCEPT ![r] = row] \in RegionRows,
         OrdersDistinct([db.regions EXCEPT ![r] = row]),
         \A v \in Users :
           applyEvent(Showing(Shown(db.notes, db.stars, v), Regionlist(db.regions), db.lifecycle),
                      v, event) =
             Showing(Shown(db.notes, db.stars, v), Regionlist([db.regions EXCEPT ![r] = row]),
                     db.lifecycle),
         editRegion(r, row, event)
  PROVE  BoardInv'
<1> DEFINE R == [db.regions EXCEPT ![r] = row]
           tag(n) == RegionFor(cache.geo[n].at, [cache.regions EXCEPT ![r] = row], None)
           changed == {n \in Notes : cache.geo[n] # None /\ cache.geo[n].region # tag(n)}
           follow(rows) == [n \in Notes |-> IF n \in changed THEN [rows[n] EXCEPT !.region = tag(n)]
                                            ELSE rows[n]]
           list == [i \in 1 .. Cardinality(changed) |->
                      LET n == SetToSeq(changed)[i] IN retagged(n, tag(n))]
           after == [cache EXCEPT !.regions = [cache.regions EXCEPT ![r] = row], !.geo = follow(@)]
           t == [n \in Notes |-> IF db.notes[n] = None THEN None
                                 ELSE RegionFor(db.notes[n].at, R, None)]
           N == Retagged(db.notes, changed, t)
           d == TablesOf(N, R, db.stars, db.lifecycle)
<1>1. commit([db EXCEPT !.regions[r] = row, !.notes = follow(@)], after, <<event>> \o list)
  BY DEF editRegion
<1>2. /\ GoodTables(db) /\ db \in Tables /\ cache = Loaded(db) /\ TagsCurrent(db)
      /\ \A s \in db.stars : db.notes[s[2]] # None
      /\ db.notes \in [Notes -> NoteRow \cup {None}]
  BY TablesParts DEF BoardInv, GoodTables
<1>3. /\ cache.regions = db.regions
      /\ \A n \in Notes : /\ cache.geo[n] = IF db.notes[n] = None THEN None ELSE Geo(db.notes[n])
                          /\ db.notes[n] # None =>
                               cache.geo[n].at = db.notes[n].at
                               /\ cache.geo[n].region = db.notes[n].region
                               /\ Geo(db.notes[n]) # None
  <2>1. \A n \in Notes : db.notes[n] # None => Geo(db.notes[n]) \in NoteGeo
    BY <1>2 DEF Geo, NoteRow, NoteGeo
  <2> QED BY <1>2, <2>1, NoneIsNoRow DEF Loaded, Geo
<1>4. R \in RegionRows /\ OrdersDistinct(R)
  OBVIOUS
<1>5. \A n \in Notes : db.notes[n] # None => tag(n) = RegionFor(db.notes[n].at, R, None)
  BY <1>3
<1> HIDE DEF tag, R
<1>6. t \in [Notes -> Regions \cup {None}] /\ \A n \in Notes : db.notes[n] # None => tag(n) = t[n]
  BY <1>4, <1>5, RegionForType
<1>7. \A n \in Notes : n \in changed <=> db.notes[n] # None /\ db.notes[n].region # t[n]
  BY <1>3, <1>6
<1>8. changed \in SUBSET Notes
  OBVIOUS
<1>9. \A n \in Notes : db.notes[n] # None => t[n] = RegionFor(db.notes[n].at, R, None)
  BY <1>5, <1>6
<1> HIDE DEF changed, t
<1>10. list = Retags(changed, t)
  <2>1. IsFiniteSet(changed)
    BY <1>8, FS_Subset, BoardAssumption
  <2>2. \A i \in 1 .. Cardinality(changed) : SetToSeq(changed)[i] \in changed
    BY <2>1, SetInOrder
  <2>3. \A i \in 1 .. Cardinality(changed) :
          tag(SetToSeq(changed)[i]) = t[SetToSeq(changed)[i]]
    BY <1>6, <1>7, <1>8, <2>2
  <2> QED BY <2>3 DEF Retags
<1>11. follow(db.notes) = N
  BY <1>6, <1>7 DEF Retagged
<1>12. N \in [Notes -> NoteRow \cup {None}] /\
       \A n \in Notes : /\ N[n] = None <=> db.notes[n] = None
                        /\ N[n] # None => /\ N[n].at = db.notes[n].at /\ N[n].region = t[n]
                                          /\ N[n].author = db.notes[n].author
                                          /\ N[n].content = db.notes[n].content
  <2>1. ASSUME NEW n \in Notes, db.notes[n] # None
        PROVE  /\ N[n] \in NoteRow /\ N[n].at = db.notes[n].at /\ N[n].region = t[n]
               /\ N[n].author = db.notes[n].author /\ N[n].content = db.notes[n].content
    <3>1. db.notes[n] \in NoteRow /\ t[n] \in Regions \cup {None}
      BY <1>2, <1>6, <2>1
    <3>2. N[n] = IF n \in changed THEN [db.notes[n] EXCEPT !.region = t[n]] ELSE db.notes[n]
      BY DEF Retagged
    <3>3. CASE n \in changed
      BY <3>1, <3>2, <3>3 DEF NoteRow
    <3>4. CASE n \notin changed
      BY <1>7, <2>1, <3>1, <3>2, <3>4
    <3> QED BY <3>3, <3>4
  <2>2. ASSUME NEW n \in Notes, db.notes[n] = None PROVE N[n] = None
    BY <1>7, <2>2 DEF Retagged
  <2>3. N = [n \in Notes |-> N[n]]
    BY DEF Retagged
  <2> HIDE DEF N
  <2>4. \A n \in Notes : N[n] \in NoteRow \cup {None}
    BY <2>1, <2>2
  <2>5. N \in [Notes -> NoteRow \cup {None}]
    BY <2>3, <2>4
  <2> QED BY <2>1, <2>2, <2>5, NoneIsNoRow
<1> HIDE DEF N
<1>13. [db EXCEPT !.regions[r] = row, !.notes = follow(@)] = d
  <2> DEFINE first == [db EXCEPT !.regions[r] = row]
  <2>1. first = TablesOf(db.notes, R, db.stars, db.lifecycle)
    BY <1>2, TablesParts DEF TablesOf, R
  <2>2. [first EXCEPT !.notes = follow(@)] = d
    <3>1. first.notes = db.notes
      BY <2>1 DEF TablesOf
    <3> HIDE DEF first, follow
    <3> QED BY <1>11, <2>1, <3>1 DEF TablesOf
  <2> QED BY <2>2
<1>14. GoodTables(d)
  <2>1. d.notes = N /\ d.regions = R /\ d.stars = db.stars /\ d.lifecycle = db.lifecycle
    BY DEF TablesOf
  <2>2. d \in Tables
    BY <1>2, <1>4, <1>12, TablesParts DEF Tables, TablesOf, RegionRows
  <2>3. \A s \in db.stars : N[s[2]] # None
    BY <1>2, <1>12, TablesParts
  <2> HIDE DEF d
  <2>4. TagsCurrent(d)
    BY <1>9, <1>12, <2>1 DEF TagsCurrent
  <2> QED BY <1>4, <2>1, <2>2, <2>3, <2>4 DEF GoodTables
<1>15. after = Loaded(d)
  <2> DEFINE G == [n \in Notes |-> IF N[n] = None THEN None ELSE Geo(N[n])]
  <2>1. ASSUME NEW n \in Notes PROVE follow(cache.geo)[n] = G[n]
    <3>1. CASE db.notes[n] = None
      BY <1>3, <1>7, <1>12, <3>1
    <3>2. CASE db.notes[n] # None /\ n \in changed
      <4>1. cache.geo[n] = [at |-> db.notes[n].at, region |-> db.notes[n].region]
        BY <1>3, <3>2 DEF Geo
      <4>2. follow(cache.geo)[n] = [cache.geo[n] EXCEPT !.region = t[n]]
        BY <1>6, <3>2
      <4>3. G[n] = [at |-> db.notes[n].at, region |-> t[n]]
        BY <1>12, <3>2 DEF Geo
      <4> HIDE DEF follow, G
      <4> QED BY <4>1, <4>2, <4>3
    <3>3. CASE db.notes[n] # None /\ n \notin changed
      BY <1>3, <1>7, <1>12, <3>3 DEF Geo
    <3> QED BY <3>1, <3>2, <3>3
  <2>2. follow(cache.geo) = G
    <3>1. [n \in Notes |-> follow(cache.geo)[n]] = [n \in Notes |-> G[n]]
      <4> HIDE DEF follow, G
      <4> QED BY <2>1
    <3> QED BY <3>1
  <2> HIDE DEF follow, G
  <2>3. cache = [geo |-> cache.geo, regions |-> cache.regions, lifecycle |-> db.lifecycle]
    BY <1>2 DEF Loaded
  <2>4. after = [geo |-> G, regions |-> R, lifecycle |-> db.lifecycle]
    <3> DEFINE C == cache.geo
    <3>1. cache = [geo |-> C, regions |-> db.regions, lifecycle |-> db.lifecycle]
      BY <1>3, <2>3
    <3>2. after = [cache EXCEPT !.regions = R, !.geo = follow(C)]
      BY <1>3, <3>1 DEF R
    <3>3. follow(C) = G
      BY <2>2
    <3> HIDE DEF C, after
    <3> QED BY <3>1, <3>2, <3>3
  <2>5. Loaded(d) = [geo |-> G, regions |-> R, lifecycle |-> db.lifecycle]
    BY DEF Loaded, TablesOf, G
  <2> QED BY <2>4, <2>5
<1>16. ASSUME NEW v \in Users PROVE After(Snapshot(db, v), v, <<event>> \o list) = Snapshot(d, v)
  <2> DEFINE M == Shown(db.notes, db.stars, v)
             b == Snapshot(db, v)
  <2>1. b = Showing(M, Regionlist(db.regions), db.lifecycle)
    BY SnapshotIs
  <2>2. applyEvent(b, v, event) = Showing(M, Regionlist(R), db.lifecycle)
    BY <2>1 DEF R
  <2>3. M \in [Notes -> NoteJSON \cup {None}] /\ \A n \in changed : M[n] # None
    <3>1. M \in [Notes -> NoteJSON \cup {None}]
      BY <1>2, ShownType
    <3>2. ASSUME NEW n \in Notes, db.notes[n] # None PROVE M[n] # None
      BY <1>2, <3>2, ShownThere
    <3> HIDE DEF M
    <3> QED BY <1>7, <1>8, <3>1, <3>2
  <2>4. After(b, v, Prepended(event, Retags(changed, t))) =
          Showing(Retagged(M, changed, t), Regionlist(R), db.lifecycle)
    <3> HIDE DEF M, b
    <3> QED BY <1>6, <1>8, <2>2, <2>3, AfterRetags
  <2>5. Retagged(M, changed, t) = Shown(N, db.stars, v)
    <3>1. ASSUME NEW n \in Notes
          PROVE  Retagged(M, changed, t)[n] = Shown(N, db.stars, v)[n]
      <4> DEFINE on == <<v, n>> \in db.stars
      <4>1. Retagged(M, changed, t)[n] =
              IF n \in changed THEN [M[n] EXCEPT !.region = t[n]] ELSE M[n]
        BY DEF Retagged
      <4>2. /\ M[n] = IF db.notes[n] = None THEN None ELSE NoteFor(db.notes[n], on)
            /\ Shown(N, db.stars, v)[n] = IF N[n] = None THEN None ELSE NoteFor(N[n], on)
        BY DEF Shown
      <4> HIDE DEF on, M
      <4>3. CASE db.notes[n] = None
        BY <1>7, <1>12, <4>1, <4>2, <4>3
      <4>4. CASE db.notes[n] # None /\ n \in changed
        BY <1>12, <4>1, <4>2, <4>4 DEF NoteFor
      <4>5. CASE db.notes[n] # None /\ n \notin changed
        BY <1>7, <1>12, <4>1, <4>2, <4>5 DEF NoteFor
      <4> QED BY <4>3, <4>4, <4>5
    <3>2. /\ Retagged(M, changed, t) = [n \in Notes |-> Retagged(M, changed, t)[n]]
          /\ Shown(N, db.stars, v) = [n \in Notes |-> Shown(N, db.stars, v)[n]]
      BY DEF Retagged, Shown
    <3> QED BY <3>1, <3>2
  <2>6. Snapshot(d, v) = Showing(Shown(N, db.stars, v), Regionlist(R), db.lifecycle)
    BY SnapshotIs DEF TablesOf
  <2>7. Prepended(event, Retags(changed, t)) = <<event>> \o list
    BY <1>10 DEF Prepended
  <2>8. b = Snapshot(db, v)
    OBVIOUS
  <2> HIDE DEF b, list, d, M
  <2> QED BY <2>4, <2>5, <2>6, <2>7, <2>8
<1> HIDE DEF d, after, list, follow
<1> QED BY <1>1, <1>13, <1>14, <1>15, <1>16, CommitStep

\* create_region: the new region goes to the end of every browser's list.
LEMMA CreateRegionStep ==
  ASSUME BoardInv, NEW u \in Users, NEW r \in Regions, NEW s \in Shapes, CreateRegion(u, r, s)
  PROVE  BoardInv'
<1> DEFINE row == regionRow(s, nextOrder)
           e == [kind |-> "region_created", region |-> RegionSeen(r, s)]
           R == [db.regions EXCEPT ![r] = row]
<1>1. db.regions[r] = None /\ nextOrder <= MaxOrder /\ editRegion(r, row, e)
  BY DEF CreateRegion
<1>2. GoodTables(db) /\ db.regions \in RegionRows /\ OrdersDistinct(db.regions)
  BY TablesParts DEF BoardInv, GoodTables
<1>3. /\ nextOrder \in 1 .. MaxOrder
      /\ \A q \in present(db.regions) : db.regions[q].order < nextOrder
  BY <1>1, <1>2, NextOrder, BoardAssumption
<1>4. s \in Shape
  BY BoardAssumption
<1>5. row \in RegionRow /\ row.order = nextOrder /\ RegionSeen(r, row) = RegionSeen(r, s)
  BY <1>3, <1>4 DEF regionRow, RegionRow, Shape, RegionSeen
<1> HIDE DEF row
<1>6. /\ R \in RegionRows /\ OrdersDistinct(R)
      /\ Regionlist(R) = Append(withoutRegion(Regionlist(db.regions), r), RegionSeen(r, s))
  <2>1. \A q \in present(db.regions) : db.regions[q].order < row.order
    BY <1>3, <1>5
  <2> QED BY <1>1, <1>2, <1>5, <2>1, ListCreated
<1>7. ASSUME NEW M, NEW v
      PROVE  applyEvent(Showing(M, Regionlist(db.regions), db.lifecycle), v, e) =
               Showing(M, Regionlist(R), db.lifecycle)
  <2> DEFINE c == Showing(M, Regionlist(db.regions), db.lifecycle)
  <2>1. e.kind = "region_created" /\ e.region = RegionSeen(r, s) /\ e.region.id = r
    BY DEF RegionSeen
  <2>2. applyEvent(c, v, e) =
          [c EXCEPT !.regions = Append(withoutRegion(@, e.region.id), e.region)]
    <3> HIDE DEF c, e
    <3> QED BY <2>1 DEF applyEvent
  <2>3. c.regions = Regionlist(db.regions)
    BY DEF Showing
  <2>4. applyEvent(c, v, e) = [c EXCEPT !.regions = Regionlist(R)]
    <3> HIDE DEF c, e, R
    <3> QED BY <1>6, <2>1, <2>2, <2>3
  <2> HIDE DEF R
  <2> QED BY <2>4 DEF Showing
<1> HIDE DEF e
<1>8. row \in RegionRow \cup {None}
  BY <1>5
<1> QED BY <1>1, <1>6, <1>7, <1>8, EditRegionStep

\* update_region: the region stays at its place.
LEMMA UpdateRegionStep ==
  ASSUME BoardInv, NEW u \in Users, NEW r \in Regions, NEW s \in Shapes, UpdateRegion(u, r, s)
  PROVE  BoardInv'
<1> DEFINE row == regionRow(s, db.regions[r].order)
           e == [kind |-> "region_updated", region |-> RegionSeen(r, s)]
           R == [db.regions EXCEPT ![r] = row]
<1>1. db.regions[r] # None /\ editRegion(r, row, e)
  BY DEF UpdateRegion
<1>2. GoodTables(db) /\ db.regions \in RegionRows /\ OrdersDistinct(db.regions)
  BY TablesParts DEF BoardInv, GoodTables
<1>3. db.regions[r].order \in 1 .. MaxOrder
  BY <1>1, <1>2 DEF RegionRows, RegionRow
<1>4. s \in Shape
  BY BoardAssumption
<1>5. row \in RegionRow /\ row.order = db.regions[r].order /\ RegionSeen(r, row) = RegionSeen(r, s)
  BY <1>3, <1>4 DEF regionRow, RegionRow, Shape, RegionSeen
<1> HIDE DEF row
<1>6. /\ R \in RegionRows /\ OrdersDistinct(R)
      /\ Regionlist(R) = replace(Regionlist(db.regions), RegionSeen(r, s))
  BY <1>1, <1>2, <1>5, ListUpdated
<1>7. ASSUME NEW M, NEW v
      PROVE  applyEvent(Showing(M, Regionlist(db.regions), db.lifecycle), v, e) =
               Showing(M, Regionlist(R), db.lifecycle)
  <2> DEFINE c == Showing(M, Regionlist(db.regions), db.lifecycle)
  <2>1. e.kind = "region_updated" /\ e.region = RegionSeen(r, s)
    OBVIOUS
  <2>2. applyEvent(c, v, e) = [c EXCEPT !.regions = replace(@, e.region)]
    <3> HIDE DEF c, e
    <3> QED BY <2>1 DEF applyEvent
  <2>3. c.regions = Regionlist(db.regions)
    BY DEF Showing
  <2>4. applyEvent(c, v, e) = [c EXCEPT !.regions = Regionlist(R)]
    <3> HIDE DEF c, e, R
    <3> QED BY <1>6, <2>1, <2>2, <2>3
  <2> HIDE DEF R
  <2> QED BY <2>4 DEF Showing
<1> HIDE DEF e
<1>8. row \in RegionRow \cup {None}
  BY <1>5
<1> QED BY <1>1, <1>6, <1>7, <1>8, EditRegionStep

\* delete_region.
LEMMA DeleteRegionStep ==
  ASSUME BoardInv, NEW u \in Users, NEW r \in Regions, DeleteRegion(u, r)
  PROVE  BoardInv'
<1> DEFINE e == [kind |-> "region_deleted", id |-> r]
           R == [db.regions EXCEPT ![r] = None]
<1>1. db.regions[r] # None /\ editRegion(r, None, e)
  BY DEF DeleteRegion
<1>2. GoodTables(db) /\ db.regions \in RegionRows /\ OrdersDistinct(db.regions)
  BY TablesParts DEF BoardInv, GoodTables
<1>3. /\ R \in RegionRows /\ OrdersDistinct(R)
      /\ Regionlist(R) = withoutRegion(Regionlist(db.regions), r)
  BY <1>1, <1>2, ListDeleted
<1>4. ASSUME NEW M, NEW v
      PROVE  applyEvent(Showing(M, Regionlist(db.regions), db.lifecycle), v, e) =
               Showing(M, Regionlist(R), db.lifecycle)
  <2> DEFINE c == Showing(M, Regionlist(db.regions), db.lifecycle)
  <2>1. e.kind = "region_deleted" /\ e.id = r
    OBVIOUS
  <2>2. applyEvent(c, v, e) = [c EXCEPT !.regions = withoutRegion(@, e.id)]
    <3> HIDE DEF c, e
    <3> QED BY <2>1 DEF applyEvent
  <2>3. c.regions = Regionlist(db.regions)
    BY DEF Showing
  <2>4. applyEvent(c, v, e) = [c EXCEPT !.regions = Regionlist(R)]
    <3> HIDE DEF c, e, R
    <3> QED BY <1>3, <2>1, <2>2, <2>3
  <2> HIDE DEF R
  <2> QED BY <2>4 DEF Showing
<1> HIDE DEF e
<1>5. None \in RegionRow \cup {None}
  OBVIOUS
<1> QED BY <1>1, <1>3, <1>4, <1>5, EditRegionStep

---------------------------------------------------------------------------
(* The lifecycle, and the invariant *)

\* set_lifecycle.
LEMMA SetLifecycleStep ==
  ASSUME BoardInv, NEW u \in Users, NEW l \in {"active", "done"}, SetLifecycle(u, l)
  PROVE  BoardInv'
<1> DEFINE d == TablesOf(db.notes, db.regions, db.stars, l)
           after == [cache EXCEPT !.lifecycle = l]
           e == [kind |-> "lifecycle_set", lifecycle |-> l]
<1>1. commit([db EXCEPT !.lifecycle = l], after, <<e>>)
  BY DEF SetLifecycle
<1>2. GoodTables(db) /\ db \in Tables /\ cache = Loaded(db)
  BY DEF BoardInv, GoodTables
<1>3. [db EXCEPT !.lifecycle = l] = d
  BY <1>2, TablesParts DEF TablesOf
<1>4. GoodTables(d)
  <2>1. d \in Tables
    BY <1>2, TablesParts DEF Tables, TablesOf, RegionRows
  <2>2. d.notes = db.notes /\ d.regions = db.regions /\ d.stars = db.stars
    BY DEF TablesOf
  <2> HIDE DEF d
  <2> QED BY <1>2, <2>1, <2>2 DEF GoodTables, TagsCurrent
<1>5. after = Loaded(d)
  BY <1>2 DEF Loaded, TablesOf
<1>6. ASSUME NEW v \in Users PROVE After(Snapshot(db, v), v, <<e>>) = Snapshot(d, v)
  <2> DEFINE b == Snapshot(db, v)
  <2>1. e.kind = "lifecycle_set" /\ e.lifecycle = l
    OBVIOUS
  <2>2. applyEvent(b, v, e) = [b EXCEPT !.lifecycle = l]
    <3> HIDE DEF b, e
    <3> QED BY <2>1 DEF applyEvent
  <2>3. [b EXCEPT !.lifecycle = l] = Snapshot(d, v)
    <3> DEFINE M == Shown(db.notes, db.stars, v)
               R == Regionlist(db.regions)
    <3>1. b = Showing(M, R, db.lifecycle) /\ Snapshot(d, v) = Showing(M, R, l)
      BY SnapshotIs DEF TablesOf
    <3> HIDE DEF b, d, M, R
    <3> QED BY <3>1 DEF Showing
  <2>4. b = Snapshot(db, v)
    OBVIOUS
  <2> HIDE DEF b, e, d
  <2> QED BY <2>2, <2>3, <2>4, AfterOne
<1> HIDE DEF d, after, e
<1> QED BY <1>1, <1>3, <1>4, <1>5, <1>6, CommitStep

\* An empty board.
LEMMA InitBoard == Init => BoardInv
<1> SUFFICES ASSUME Init PROVE BoardInv
  OBVIOUS
<1>1. db = [notes |-> [n \in Notes |-> None], regions |-> [r \in Regions |-> None],
            stars |-> {}, lifecycle |-> "setup"]
  BY DEF Init
<1>2. db \in Tables
  BY <1>1 DEF Tables
<1>3. OrdersDistinct(db.regions) /\ TagsCurrent(db) /\ \A s \in db.stars : db.notes[s[2]] # None
  BY <1>1 DEF OrdersDistinct, TagsCurrent, present
<1> QED BY <1>2, <1>3 DEF Init, BoardInv, GoodTables

\* Every step keeps the invariant; a restart by what it loads.
LEMMA NextBoard ==
  ASSUME BoardInv, [Next]_vars
  PROVE  BoardInv'
<1>1. CASE \E u \in Users, n \in Notes :
             \/ \E spot \in Spots : MoveNote(u, n, spot)
             \/ \E spot \in Spots, content \in Contents : CreateNote(u, n, spot, content)
             \/ \E content \in Contents : UpdateNote(u, n, content)
             \/ DeleteNote(u, n)
             \/ \E on \in BOOLEAN : SetStar(u, n, on)
  BY <1>1, MoveNoteStep, CreateNoteStep, UpdateNoteStep, DeleteNoteStep, SetStarStep
<1>2. CASE \E u \in Users, r \in Regions :
             \/ \E s \in Shapes : CreateRegion(u, r, s) \/ UpdateRegion(u, r, s)
             \/ DeleteRegion(u, r)
  BY <1>2, CreateRegionStep, UpdateRegionStep, DeleteRegionStep
<1>3. CASE \E u \in Users, l \in {"active", "done"} : SetLifecycle(u, l)
  BY <1>3, SetLifecycleStep
<1>4. CASE Restart
  BY <1>4 DEF Restart, BoardInv
<1>5. CASE UNCHANGED vars
  BY <1>5 DEF vars, BoardInv
<1> QED BY <1>1, <1>2, <1>3, <1>4, <1>5 DEF Next

\* The invariant holds.
LEMMA BoardHolds == Spec => []BoardInv
BY InitBoard, NextBoard, PTL DEF Spec

\* The rows have their types and every star and tag names something that exists.
THEOREM TypeCorrect == Spec => []TypeOK
<1>1. BoardInv => TypeOK
  <2> SUFFICES ASSUME BoardInv PROVE TypeOK
    OBVIOUS
  <2>1. GoodTables(db) /\ db \in Tables /\ \A s \in db.stars : db.notes[s[2]] # None
    BY DEF BoardInv, GoodTables
  <2>2. DOMAIN tab = Users
    BY DEF BoardInv
  <2> QED BY <2>1, <2>2, TagsExist DEF TypeOK, Tables, Exists
<1> QED BY <1>1, BoardHolds, PTL

\* The caches hold what a restart would load, whatever transaction failed.
THEOREM CachesHold == Spec => []CachesMatch
<1>1. BoardInv => CachesMatch
  BY DEF BoardInv, CachesMatch
<1> QED BY <1>1, BoardHolds, PTL

\* The events of every command bring each browser to its snapshot.
THEOREM BoardsHold == Spec => []BoardMatches
<1>1. BoardInv => BoardMatches
  BY DEF BoardInv, BoardMatches
<1> QED BY <1>1, BoardHolds, PTL

---------------------------------------------------------------------------
(* What follows: tags and places *)

\* In every browser a note's tag is the region drawn on top under its center.
LEMMA TagsFromBoard == BoardInv => TagsShowTopmost
<1> SUFFICES ASSUME BoardInv, NEW u \in Users, NEW n \in Notes, tab[u].notes[n] # None
             PROVE  LET rs   == tab[u].regions
                        note == tab[u].notes[n]
                        under == {i \in DOMAIN rs : ContainsCenter(rs[i], note.at)}
                    IN  IF note.region = None THEN under = {}
                        ELSE \E i \in under : rs[i].id = note.region
                                              /\ \A j \in under \ {i} : DrawnAbove(rs, i, j)
  BY DEF TagsShowTopmost
<1> DEFINE rows == db.regions
           rs == Regionlist(rows)
           note == tab[u].notes[n]
           under == {i \in DOMAIN rs : ContainsCenter(rs[i], note.at)}
           m == Cardinality(present(rows))
           q == byOrder(rows)
           top == RegionFor(note.at, rows, None)
<1>1. /\ rows \in RegionRows /\ OrdersDistinct(rows) /\ TagsCurrent(db)
      /\ db.notes \in [Notes -> NoteRow \cup {None}]
  BY TablesParts DEF BoardInv, GoodTables
<1>2. /\ tab[u].regions = rs
      /\ note = IF db.notes[n] = None THEN None ELSE NoteFor(db.notes[n], <<u, n>> \in db.stars)
  BY DEF BoardInv, Snapshot, Regionlist
<1>3. db.notes[n] # None /\ note.at = db.notes[n].at /\ note.region = db.notes[n].region
  BY <1>2 DEF NoteFor
<1>4. note.region = top
  BY <1>1, <1>3 DEF TagsCurrent
<1>5. /\ m \in Nat /\ q \in [1 .. m -> present(rows)] /\ DOMAIN rs = 1 .. m
      /\ \A i \in 1 .. m : rs[i] = RegionSeen(q[i], rows[q[i]]) /\ rows[q[i]] \in RegionRow
  BY <1>1, ListType
<1>6. InOrder(q, rows)
  BY <1>1, ByOrder
<1>7. \A r \in present(rows) : \E i \in 1 .. m : q[i] = r
  BY <1>1, <1>5, <1>6, OrderIsComplete
<1>8. \A i, j \in 1 .. m : i < j => rows[q[i]].order < rows[q[j]].order
  BY <1>5, <1>6 DEF InOrder
<1>9. \A i \in 1 .. m : /\ i \in under <=> q[i] \in around(note.at, rows)
                        /\ rs[i].id = q[i] /\ rs[i].z = rows[q[i]].z
                        /\ rows[q[i]].z \in Int /\ rows[q[i]].order \in Nat
  <2> SUFFICES ASSUME NEW i \in 1 .. m
               PROVE  /\ i \in under <=> q[i] \in around(note.at, rows)
                      /\ rs[i].id = q[i] /\ rs[i].z = rows[q[i]].z
                      /\ rows[q[i]].z \in Int /\ rows[q[i]].order \in Nat
    OBVIOUS
  <2> DEFINE r == q[i]
             row == rows[r]
  <2>1. /\ r \in present(rows) /\ row \in RegionRow /\ rs[i] = RegionSeen(r, row)
    BY <1>5
  <2> HIDE DEF r, row, rs, note
  <2>2. /\ rs[i].id = r /\ rs[i].z = row.z /\ rs[i].x = row.x /\ rs[i].y = row.y
        /\ rs[i].w = row.w /\ rs[i].h = row.h
    BY <2>1 DEF RegionSeen
  <2>3. ContainsCenter(rs[i], note.at) <=> ContainsCenter(row, note.at)
    BY <2>2 DEF ContainsCenter
  <2>4. row.z \in Int /\ row.order \in Nat
    BY <2>1, BoardAssumption DEF RegionRow
  <2> QED BY <1>5, <2>1, <2>2, <2>3, <2>4 DEF around, r, row
<1>10. around(note.at, rows) = {} => under = {}
  BY <1>5, <1>9
<1>11. ASSUME around(note.at, rows) # {}
       PROVE  /\ top # None
              /\ \E i \in under : rs[i].id = top /\ \A j \in under \ {i} : DrawnAbove(rs, i, j)
  <2>1. /\ top \in around(note.at, rows)
        /\ \A s \in around(note.at, rows) \ {top} : Above(rows[top], rows[s])
    <3> HIDE DEF rows, note
    <3> QED BY <1>1, <1>11, RegionForIsTopmost
  <2> HIDE DEF rows, rs, top, note, m, q
  <2>2. top \in present(rows) /\ top # None
    BY <1>1, <2>1, BoardAssumption DEF around, present
  <2>3. PICK i \in 1 .. m : q[i] = top
    BY <1>7, <2>2
  <2>4. i \in under /\ rs[i].id = top
    BY <1>9, <2>1, <2>3
  <2>5. ASSUME NEW j \in under \ {i} PROVE DrawnAbove(rs, i, j)
    <3>1. j \in 1 .. m /\ j # i /\ q[j] \in around(note.at, rows)
      BY <1>5, <1>9, <2>5
    <3>2. CASE j < i
      <4>1. rows[q[j]].order < rows[q[i]].order
        BY <1>8, <3>1, <3>2
      <4>2. q[j] # top
        BY <1>9, <2>3, <3>1, <4>1
      <4>3. Above(rows[top], rows[q[j]])
        BY <2>1, <3>1, <4>2
      <4>4. i \in Nat /\ j \in Nat
        BY <1>5, <3>1
      <4> QED BY <1>9, <2>3, <3>1, <3>2, <4>3, <4>4 DEF Above, DrawnAbove
    <3>3. CASE i < j
      <4>1. rows[q[i]].order < rows[q[j]].order
        BY <1>8, <3>1, <3>3
      <4>2. q[j] # top
        BY <1>9, <2>3, <3>1, <4>1
      <4>3. Above(rows[top], rows[q[j]])
        BY <2>1, <3>1, <4>2
      <4>4. rows[q[i]].z > rows[q[j]].z
        BY <1>9, <2>3, <3>1, <4>1, <4>3 DEF Above
      <4> QED BY <1>9, <3>1, <4>4 DEF DrawnAbove
    <3> QED BY <1>5, <3>1, <3>2, <3>3
  <2> QED BY <2>2, <2>4, <2>5
<1>12. around(note.at, rows) = {} => top = None
  <2> HIDE DEF rows, note
  <2> QED BY <1>1, RegionForIsTopmost
<1>13. IF note.region = None THEN under = {}
       ELSE \E i \in under : rs[i].id = note.region /\ \A j \in under \ {i} : DrawnAbove(rs, i, j)
  <2> HIDE DEF top, rs, note, under, rows
  <2> QED BY <1>4, <1>10, <1>11, <1>12
<1>14. tab[u].regions = rs
  BY <1>2
<1> HIDE DEF rs, rows
<1> QED BY <1>13, <1>14

\* A note is tagged with the region drawn on top under its center.
THEOREM TagsHold == Spec => []TagsShowTopmost
BY TagsFromBoard, BoardHolds, PTL

---------------------------------------------------------------------------
(* Notes never overlap *)

\* Note n may be put anywhere free of the others; the others stay or go.
LEMMA KeepsApart ==
  ASSUME BoardInv, NoOverlap, BoardInv', NEW n \in Notes,
         \A m \in Notes \ {n} : db'.notes[m] # None =>
           db.notes[m] # None /\ db'.notes[m].at = db.notes[m].at,
         db'.notes[n] # None =>
           \/ db.notes[n] # None /\ db'.notes[n].at = db.notes[n].at
           \/ free(db'.notes[n].at, obstacles(n))
  PROVE  NoOverlap'
<1>1. /\ \A m \in Notes : db'.notes[m] # None => db'.notes[m].at \in Position
      /\ \A m \in Notes : db.notes[m] # None =>
           /\ db.notes[m].at \in Position
           /\ cache.geo[m] = Geo(db.notes[m]) /\ Geo(db.notes[m]) \in NoteGeo
           /\ Geo(db.notes[m]).at = db.notes[m].at
  <2>1. db.notes \in [Notes -> NoteRow \cup {None}] /\ db'.notes \in [Notes -> NoteRow \cup {None}]
    BY TablesParts DEF BoardInv, GoodTables
  <2>2. \A m \in Notes : db.notes[m] # None => cache.geo[m] = Geo(db.notes[m])
    BY DEF BoardInv, Loaded
  <2> QED BY <2>1, <2>2 DEF NoteRow, NoteGeo, Geo
<1>2. ASSUME NEW m \in Notes \ {n}, db.notes[m] # None
      PROVE  db.notes[m].at \in obstacles(n)
  <2>1. cache.geo[m] # None /\ cache.geo[m].at = db.notes[m].at
    BY <1>1, <1>2, NoneIsNoRow
  <2> QED BY <2>1 DEF obstacles
<1> DEFINE apart(p, q) == ~Intersects(p, q)
<1>3. \A p, q \in Position :
        apart(p, q) <=> LET dx == p.x - q.x
                            dy == p.y - q.y
                        IN  dx >= NoteW \/ -dx >= NoteW \/ dy >= NoteH \/ -dy >= NoteH
  BY GeometryAssumption DEF Intersects, Position
<1>4. \A p, q : apart(p, q) <=> apart(q, p)
  BY DEF Intersects
<1>5. ASSUME NEW k \in Notes, NEW m \in Notes, k # m, db'.notes[k] # None, db'.notes[m] # None
      PROVE  apart(db'.notes[k].at, db'.notes[m].at)
  <2> HIDE DEF apart
  <2>1. ASSUME NEW p \in Notes, NEW q \in Notes, p # q, db.notes[p] # None, db.notes[q] # None
        PROVE  apart(db.notes[p].at, db.notes[q].at)
    <3>1. db.notes[p].at \in Position /\ db.notes[q].at \in Position
      BY <1>1, <2>1
    <3>2. LET dx == db.notes[p].at.x - db.notes[q].at.x
              dy == db.notes[p].at.y - db.notes[q].at.y
          IN  dx >= NoteW \/ -dx >= NoteW \/ dy >= NoteH \/ -dy >= NoteH
      BY <2>1 DEF NoOverlap, Exists
    <3> QED BY <1>3, <3>1, <3>2
  <2>2. ASSUME NEW p \in Notes \ {n}, db.notes[p] # None, free(db'.notes[n].at, obstacles(n))
        PROVE  apart(db'.notes[n].at, db.notes[p].at)
    BY <1>2, <2>2 DEF free, apart
  <2>3. CASE k # n /\ m # n
    BY <1>5, <2>1, <2>3
  <2>4. CASE k = n
    BY <1>5, <2>1, <2>2, <2>4
  <2>5. CASE m = n
    BY <1>4, <1>5, <2>1, <2>2, <2>5
  <2> QED BY <2>3, <2>4, <2>5
<1> HIDE DEF apart
<1>6. ASSUME NEW k \in Notes, NEW m \in Notes, k # m, db'.notes[k] # None, db'.notes[m] # None
      PROVE  LET dx == db'.notes[k].at.x - db'.notes[m].at.x
                 dy == db'.notes[k].at.y - db'.notes[m].at.y
             IN  dx >= NoteW \/ -dx >= NoteW \/ dy >= NoteH \/ -dy >= NoteH
  <2>1. db'.notes[k].at \in Position /\ db'.notes[m].at \in Position
    BY <1>1, <1>6
  <2> QED BY <1>3, <1>5, <1>6, <2>1
<1> QED BY <1>6 DEF NoOverlap, Exists

\* With room, the position of a new or a moved note is free of the others.
LEMMA ResolvedIsFree ==
  ASSUME BoardInv, RoomFor(Cardinality(Notes)), NEW n \in Notes, NEW spot \in Spots
  PROVE  free(ResolvePosition(spot, obstacles(n)), obstacles(n))
<1> DEFINE S == {m \in Notes \ {n} : cache.geo[m] # None}
           at == [m \in S |-> cache.geo[m].at]
           O == obstacles(n)
<1>1. O = {at[m] : m \in S}
  BY DEF obstacles
<1>2. \A m \in Notes : cache.geo[m] # None => cache.geo[m].at \in Position
  <2>1. db.notes \in [Notes -> NoteRow \cup {None}]
    BY TablesParts DEF BoardInv, GoodTables
  <2>2. \A m \in Notes : cache.geo[m] = IF db.notes[m] = None THEN None ELSE Geo(db.notes[m])
    BY DEF BoardInv, Loaded
  <2>3. \A m \in Notes : db.notes[m] # None => Geo(db.notes[m]).at \in Position
    BY <2>1 DEF Geo, NoteRow
  <2> QED BY <2>2, <2>3
<1>3. O \in SUBSET Position
  BY <1>2 DEF obstacles
<1>4. IsFiniteSet(Notes \ {n}) /\ Cardinality(Notes \ {n}) < Cardinality(Notes)
      /\ Cardinality(Notes) \in Nat
  <2>1. IsFiniteSet(Notes) /\ Cardinality(Notes) \in Nat
    BY BoardAssumption, FS_CardinalityType
  <2>2. Cardinality(Notes \ {n}) = Cardinality(Notes) - 1 /\ IsFiniteSet(Notes \ {n})
    BY <2>1, FS_RemoveElement
  <2> QED BY <2>1, <2>2
<1>5. IsFiniteSet(S) /\ Cardinality(S) <= Cardinality(Notes \ {n})
  <2>1. S \in SUBSET (Notes \ {n})
    OBVIOUS
  <2> HIDE DEF S
  <2> QED BY <1>4, <2>1, FS_Subset
<1>6. at \in Surjection(S, O)
  <2>1. at \in [S -> O] /\ \A p \in O : \E m \in S : at[m] = p
    BY <1>1
  <2> QED BY <2>1 DEF Surjection
<1> HIDE DEF S, at, O
<1>7. IsFiniteSet(O) /\ Cardinality(O) <= Cardinality(S)
  BY <1>5, <1>6, FS_Surjection
<1>8. Cardinality(O) < Cardinality(Notes)
  BY <1>4, <1>5, <1>7, FS_CardinalityType
<1>9. spot \in Position
  BY BoardAssumption
<1>10. \E k \in 0 .. MaxRings : freeIn(k, spot, O) # {}
  BY <1>3, <1>7, <1>8, <1>9, RoomForOne
<1> QED BY <1>9, <1>10, ResolvesToFree DEF O

\* A commit that changes no note but n.
LEMMA CommitApart ==
  ASSUME BoardInv, NoOverlap, BoardInv', NEW d, NEW after, NEW events, commit(d, after, events),
         NEW n \in Notes,
         \A m \in Notes \ {n} : d.notes[m] # None =>
           db.notes[m] # None /\ d.notes[m].at = db.notes[m].at,
         d.notes[n] # None =>
           \/ db.notes[n] # None /\ d.notes[n].at = db.notes[n].at
           \/ free(d.notes[n].at, obstacles(n))
  PROVE  NoOverlap'
<1>1. CASE db' = d
  BY <1>1, KeepsApart
<1>2. CASE UNCHANGED vars
  BY <1>2 DEF vars, NoOverlap, Exists
<1> QED BY <1>1, <1>2 DEF commit

\* Every step, with room, keeps the notes apart.
LEMMA NextApart ==
  ASSUME BoardInv, NoOverlap, BoardInv', RoomFor(Cardinality(Notes)), [Next]_vars
  PROVE  NoOverlap'
<1>1. /\ db = TablesOf(db.notes, db.regions, db.stars, db.lifecycle)
      /\ db.notes \in [Notes -> NoteRow \cup {None}]
  BY TablesParts DEF BoardInv, GoodTables
<1>2. ASSUME NEW u \in Users, NEW n \in Notes, NEW spot \in Spots, MoveNote(u, n, spot)
      PROVE  NoOverlap'
  <2> DEFINE at == ResolvePosition(spot, obstacles(n))
             region == RegionFor(at, cache.regions, None)
             d == [db EXCEPT !.notes[n].at = at, !.notes[n].region = region]
  <2>1. PICK after, events : commit(d, after, events) /\ Exists(n)
    BY <1>2 DEF MoveNote
  <2>2. free(at, obstacles(n))
    BY ResolvedIsFree
  <2> HIDE DEF at, region
  <2>3. d.notes = [[db.notes EXCEPT ![n].at = at] EXCEPT ![n].region = region]
    <3> DEFINE placed == [db.notes EXCEPT ![n].at = at]
               first == [db EXCEPT !.notes[n].at = at]
    <3>1. first = TablesOf(placed, db.regions, db.stars, db.lifecycle)
      BY <1>1 DEF TablesOf
    <3>2. [first EXCEPT !.notes[n].region = region].notes = [placed EXCEPT ![n].region = region]
      <4> HIDE DEF first, placed
      <4> QED BY <3>1 DEF TablesOf
    <3> QED BY <3>2
  <2>4. d.notes[n].at = at /\ \A m \in Notes \ {n} : d.notes[m] = db.notes[m]
    <3>1. db.notes[n] \in NoteRow
      BY <1>1, <2>1 DEF Exists
    <3> HIDE DEF d
    <3> QED BY <1>1, <2>3, <3>1 DEF NoteRow
  <2> HIDE DEF d
  <2> QED BY <2>1, <2>2, <2>4, CommitApart
<1>3. ASSUME NEW u \in Users, NEW n \in Notes, NEW spot \in Spots, NEW content \in Contents,
             CreateNote(u, n, spot, content)
      PROVE  NoOverlap'
  <2> DEFINE at == ResolvePosition(spot, obstacles(n))
             row == [author |-> u, content |-> content, at |-> at,
                     region |-> RegionFor(at, cache.regions, None)]
             d == [db EXCEPT !.notes[n] = row]
  <2>1. PICK after, events : commit(d, after, events)
    BY <1>3 DEF CreateNote
  <2>2. free(at, obstacles(n)) /\ row.at = at
    BY ResolvedIsFree
  <2> HIDE DEF at, row
  <2>3. d.notes[n] = row /\ \A m \in Notes \ {n} : d.notes[m] = db.notes[m]
    BY <1>1 DEF TablesOf
  <2> HIDE DEF d
  <2> QED BY <2>1, <2>2, <2>3, CommitApart
<1>4. ASSUME NEW u \in Users, NEW n \in Notes, NEW content \in Contents, UpdateNote(u, n, content)
      PROVE  NoOverlap'
  <2> DEFINE row == [db.notes[n] EXCEPT !.content = content]
             d == [db EXCEPT !.notes[n].content = content]
  <2>1. PICK after, events : commit(d, after, events) /\ Exists(n)
    BY <1>4 DEF UpdateNote, MayEdit
  <2>2. row.at = db.notes[n].at
    BY <1>1, <2>1 DEF NoteRow, Exists
  <2>3. d.notes[n] = row /\ \A m \in Notes \ {n} : d.notes[m] = db.notes[m]
    BY <1>1 DEF TablesOf
  <2> HIDE DEF d, row
  <2> QED BY <2>1, <2>2, <2>3, CommitApart DEF Exists
<1>5. ASSUME NEW u \in Users, NEW n \in Notes, DeleteNote(u, n)
      PROVE  NoOverlap'
  <2> DEFINE S == starsWithout(n)
             d == [db EXCEPT !.notes[n] = None, !.stars = S]
  <2>1. PICK after, events : commit(d, after, events)
    BY <1>5 DEF DeleteNote
  <2> HIDE DEF S
  <2>2. d.notes = [db.notes EXCEPT ![n] = None]
    <3> DEFINE first == [db EXCEPT !.notes[n] = None]
               N == [db.notes EXCEPT ![n] = None]
    <3>1. first = TablesOf(N, db.regions, db.stars, db.lifecycle)
      BY <1>1 DEF TablesOf
    <3>2. [first EXCEPT !.stars = S].notes = N
      <4> HIDE DEF first, N
      <4> QED BY <3>1 DEF TablesOf
    <3> QED BY <3>2
  <2> HIDE DEF d
  <2>3. d.notes[n] = None /\ \A m \in Notes \ {n} : d.notes[m] = db.notes[m]
    BY <1>1, <2>2
  <2> QED BY <2>1, <2>3, CommitApart
<1>6. ASSUME NEW d, NEW after, NEW events, commit(d, after, events), d.notes = db.notes,
             NEW n \in Notes
      PROVE  NoOverlap'
  BY <1>6, CommitApart
<1>7. ASSUME NEW u \in Users, NEW n \in Notes, NEW on \in BOOLEAN, SetStar(u, n, on)
      PROVE  NoOverlap'
  <2> DEFINE S == IF on THEN db.stars \cup {<<u, n>>} ELSE db.stars \ {<<u, n>>}
             d == [db EXCEPT !.stars = S]
  <2>1. PICK after, events : commit(d, after, events)
    BY <1>7 DEF SetStar
  <2> HIDE DEF S
  <2>2. d.notes = db.notes
    BY <1>1 DEF TablesOf
  <2> HIDE DEF d
  <2> QED BY <1>6, <2>1, <2>2
<1>8. ASSUME NEW r \in Regions, NEW row, NEW event, editRegion(r, row, event)
      PROVE  NoOverlap'
  <2> DEFINE tag(n) == RegionFor(cache.geo[n].at, [cache.regions EXCEPT ![r] = row], None)
             changed == {n \in Notes : cache.geo[n] # None /\ cache.geo[n].region # tag(n)}
             follow(rows) == [n \in Notes |->
                               IF n \in changed THEN [rows[n] EXCEPT !.region = tag(n)]
                               ELSE rows[n]]
             d == [db EXCEPT !.regions[r] = row, !.notes = follow(@)]
  <2>1. PICK after, events : commit(d, after, events)
    BY <1>8 DEF editRegion
  <2> HIDE DEF tag
  <2>2. \A n \in Notes : n \in changed => db.notes[n] # None
    BY DEF BoardInv, Loaded
  <2> HIDE DEF changed
  <2>3. d.notes = follow(db.notes)
    <3> DEFINE first == [db EXCEPT !.regions[r] = row]
               R == [db.regions EXCEPT ![r] = row]
    <3>1. first = TablesOf(db.notes, R, db.stars, db.lifecycle)
      BY <1>1 DEF TablesOf
    <3>2. [first EXCEPT !.notes = follow(@)].notes = follow(db.notes)
      <4> HIDE DEF first, R, follow
      <4> QED BY <3>1 DEF TablesOf
    <3> QED BY <3>2
  <2> HIDE DEF d
  <2>4. ASSUME NEW n \in Notes, d.notes[n] # None
        PROVE  db.notes[n] # None /\ d.notes[n].at = db.notes[n].at
    <3>1. d.notes[n] = IF n \in changed THEN [db.notes[n] EXCEPT !.region = tag(n)] ELSE db.notes[n]
      BY <2>3
    <3>2. db.notes[n] # None
      BY <2>2, <2>4, <3>1
    <3>3. db.notes[n] \in NoteRow
      BY <1>1, <3>2
    <3> QED BY <3>1, <3>2, <3>3 DEF NoteRow
  <2>5. CASE Notes = {}
    BY <2>5 DEF NoOverlap
  <2>6. CASE Notes # {}
    BY <2>1, <2>4, <2>6, CommitApart
  <2> QED BY <2>5, <2>6
<1>9. ASSUME NEW u \in Users, NEW l \in {"active", "done"}, SetLifecycle(u, l)
      PROVE  NoOverlap'
  <2> DEFINE d == [db EXCEPT !.lifecycle = l]
  <2>1. PICK after, events : commit(d, after, events)
    BY <1>9 DEF SetLifecycle
  <2>2. d.notes = db.notes
    BY <1>1 DEF TablesOf
  <2> HIDE DEF d
  <2>3. CASE Notes = {}
    BY <2>3 DEF NoOverlap
  <2> QED BY <1>6, <2>1, <2>2, <2>3
<1>10. CASE Restart
  BY <1>10 DEF Restart, NoOverlap, Exists
<1>11. CASE UNCHANGED vars
  BY <1>11 DEF vars, NoOverlap, Exists
<1> QED
  BY <1>2, <1>3, <1>4, <1>5, <1>7, <1>8, <1>9, <1>10, <1>11
  DEF Next, CreateRegion, UpdateRegion, DeleteRegion

\* Notes never overlap, as long as there is room for them all.
THEOREM NotesNeverOverlap == RoomFor(Cardinality(Notes)) => (Spec => []NoOverlap)
<1> SUFFICES ASSUME RoomFor(Cardinality(Notes)) PROVE Spec => []NoOverlap
  OBVIOUS
<1>1. Init => NoOverlap
  BY DEF Init, NoOverlap, Exists
<1>2. BoardInv /\ BoardInv' /\ NoOverlap /\ [Next]_vars => NoOverlap'
  BY NextApart
<1> QED BY <1>1, <1>2, BoardHolds, PTL DEF Spec
=============================================================================
